-------------------------- MODULE ProtoTypesProofs --------------------------
(***************************************************************************)
(* What the generated code of types/*.pb.go does, for every message: a     *)
(* varint is read as the number it was written of, a piece as the field it *)
(* was written of, and each type's Marshal, Size and Unmarshal agree.      *)
(*                                                                         *)
(* Nothing here depends on a state: the readers and writers are functions. *)
(* CodecProofs puts them to work.                                          *)
(***************************************************************************)
EXTENDS ProtoTypes, SequenceTheorems, RecursionProofs

-----------------------------------------------------------------------------
(* Powers and lengths.                                                      *)

\* The equation of Pow2.
LEMMA Pow2Is ==
  /\ Pow2 \in [Nat -> Nat \ {0}]
  /\ \A n \in Nat : Pow2[n] = IF n = 0 THEN 1 ELSE 2 * Pow2[n - 1]
<1> DEFINE R == Nat \ {0}
           mu == [n \in Nat |-> n]
           b  == [n \in {0} |-> 1]
           nx == [n \in Nat |-> n - 1]
           op == [p \in Nat \X R |-> 2 * p[2]]
           Is(f) == f = [n \in Nat |-> IF n = 0 THEN 1 ELSE 2 * f[n - 1]]
<1>1. \E f \in [Nat -> R] : Recurs(f, Nat, {0}, b, nx, op)
  <2>1. \A x \in Nat \cap {0} : b[x] \in R
    OBVIOUS
  <2>2. \A x \in Nat \ {0} : nx[x] \in Nat /\ mu[nx[x]] < mu[x]
    OBVIOUS
  <2>3. \A x \in Nat \ {0}, r \in R : op[<<x, r>>] \in R
    OBVIOUS
  <2>4. mu \in [Nat -> Nat]
    OBVIOUS
  <2> HIDE DEF b, nx, op, R, mu
  <2> QED
    BY <2>1, <2>2, <2>3, <2>4, RecursionExists
<1>2. ASSUME NEW f \in [Nat -> R], Recurs(f, Nat, {0}, b, nx, op) PROVE Is(f)
  <2>1. ASSUME NEW n \in Nat PROVE f[n] = IF n = 0 THEN 1 ELSE 2 * f[n - 1]
    <3>1. CASE n = 0
      BY <1>2, <3>1 DEF Recurs
    <3>2. CASE n # 0
      <4>1. f[n] = op[<<n, f[nx[n]]>>] /\ nx[n] = n - 1 /\ nx[n] \in Nat
        BY <1>2, <3>2 DEF Recurs
      <4>2. f[n - 1] \in R
        BY <4>1
      <4>3. op[<<n, f[n - 1]>>] = 2 * f[n - 1]
        BY <4>2
      <4> QED
        BY <3>2, <4>1, <4>3
    <3> QED
      BY <3>1, <3>2
  <2> QED
    BY <2>1
<1>3. ASSUME NEW f, Is(f) PROVE f \in [Nat -> R]
  <2>1. \A x \in Nat : f[x] = IF x = 0 THEN 1 ELSE 2 * f[x - 1]
    BY <1>3
  <2> DEFINE P == {n \in Nat : f[n] \in R}
  <2>2. ASSUME NEW n \in Nat, \A m \in Nat : m < n => m \in P PROVE n \in P
    <3>1. n # 0 => n - 1 \in P
      BY <2>2
    <3> QED
      BY <2>1, <3>1
  <2>3. Nat \subseteq P
    <3> HIDE DEF P
    <3> QED
      BY <2>2, StrongInduction
  <2>4. f = [n \in Nat |-> f[n]]
    BY <1>3
  <2> HIDE DEF Is
  <2> QED
    BY <2>3, <2>4
<1>4. Pow2 = CHOOSE f : Is(f)
  BY DEF Pow2
<1> HIDE DEF Is
<1>5. Is(Pow2)
  BY <1>1, <1>2, <1>4
<1> QED
  BY <1>3, <1>5 DEF Is

\* The equation of BitLen.
LEMMA BitLenIs ==
  /\ BitLen \in [Nat -> Nat]
  /\ \A x \in Nat : BitLen[x] = IF x = 0 THEN 0 ELSE 1 + BitLen[x \div 2]
<1> DEFINE mu == [n \in Nat |-> n]
           b  == [n \in {0} |-> 0]
           nx == [n \in Nat |-> n \div 2]
           op == [p \in Nat \X Nat |-> 1 + p[2]]
           Is(f) == f = [n \in Nat |-> IF n = 0 THEN 0 ELSE 1 + f[n \div 2]]
<1>1. \E f \in [Nat -> Nat] : Recurs(f, Nat, {0}, b, nx, op)
  <2>1. \A x \in Nat \cap {0} : b[x] \in Nat
    OBVIOUS
  <2>2. \A x \in Nat \ {0} : nx[x] \in Nat /\ mu[nx[x]] < mu[x]
    OBVIOUS
  <2>3. \A x \in Nat \ {0}, r \in Nat : op[<<x, r>>] \in Nat
    OBVIOUS
  <2>4. mu \in [Nat -> Nat]
    OBVIOUS
  <2> HIDE DEF b, nx, op, mu
  <2> QED
    BY <2>1, <2>2, <2>3, <2>4, RecursionExists
<1>2. ASSUME NEW f \in [Nat -> Nat], Recurs(f, Nat, {0}, b, nx, op) PROVE Is(f)
  <2>1. ASSUME NEW n \in Nat PROVE f[n] = IF n = 0 THEN 0 ELSE 1 + f[n \div 2]
    <3>1. CASE n = 0
      BY <1>2, <3>1 DEF Recurs
    <3>2. CASE n # 0
      <4>1. f[n] = op[<<n, f[nx[n]]>>] /\ nx[n] = n \div 2 /\ nx[n] \in Nat
        BY <1>2, <3>2 DEF Recurs
      <4>2. f[n \div 2] \in Nat
        BY <4>1
      <4>3. op[<<n, f[n \div 2]>>] = 1 + f[n \div 2]
        BY <4>2
      <4> QED
        BY <3>2, <4>1, <4>3
    <3> QED
      BY <3>1, <3>2
  <2> QED
    BY <2>1
<1>3. ASSUME NEW f, Is(f) PROVE f \in [Nat -> Nat]
  <2>1. \A x \in Nat : f[x] = IF x = 0 THEN 0 ELSE 1 + f[x \div 2]
    BY <1>3
  <2> DEFINE P == {n \in Nat : f[n] \in Nat}
  <2>2. ASSUME NEW n \in Nat, \A m \in Nat : m < n => m \in P PROVE n \in P
    <3>1. n # 0 => n \div 2 \in P
      BY <2>2
    <3> QED
      BY <2>1, <3>1
  <2>3. Nat \subseteq P
    <3> HIDE DEF P
    <3> QED
      BY <2>2, StrongInduction
  <2>4. f = [n \in Nat |-> f[n]]
    BY <1>3
  <2> HIDE DEF Is
  <2> QED
    BY <2>3, <2>4
<1>4. BitLen = CHOOSE f : Is(f)
  BY DEF BitLen
<1> HIDE DEF Is
<1>5. Is(BitLen)
  BY <1>1, <1>2, <1>4
<1> QED
  BY <1>3, <1>5 DEF Is

\* One byte more than the rest takes.
LEMMA EncodeStep ==
  ASSUME NEW v \in Nat, NEW r \in Seq(Byte)
  PROVE  /\ <<128 + (v % 128)>> \o r \in Seq(Byte)
         /\ Len(<<128 + (v % 128)>> \o r) = 1 + Len(r)
<1>1. 128 + (v % 128) \in Byte
  BY DEF Byte
<1>2. <<128 + (v % 128)>> \in Seq(Byte) /\ Len(<<128 + (v % 128)>>) = 1
  BY <1>1
<1> HIDE <1>1
<1> QED
  BY <1>2, ConcatProperties

\* The equation of encodeVarint.
LEMMA EncodeIs ==
  /\ encodeVarint \in [Nat -> Seq(Byte)]
  /\ \A v \in Nat : encodeVarint[v] = IF v < 128 THEN <<v>>
                                      ELSE <<128 + (v % 128)>> \o encodeVarint[v \div 128]
<1> DEFINE R  == Seq(Byte)
           B  == 0 .. 127
           mu == [v \in Nat |-> v]
           b  == [v \in B |-> <<v>>]
           nx == [v \in Nat |-> v \div 128]
           op == [p \in Nat \X R |-> <<128 + (p[1] % 128)>> \o p[2]]
           Is(f) == f = [v \in Nat |-> IF v < 128 THEN <<v>>
                                       ELSE <<128 + (v % 128)>> \o f[v \div 128]]
<1>1. /\ \A v \in Nat : v < 128 <=> v \in B
      /\ \A v \in Nat : v \div 128 \in Nat /\ (v >= 128 => v \div 128 < v)
      /\ B \subseteq Byte
  BY DEF Byte
<1>2. \E f \in [Nat -> R] : Recurs(f, Nat, B, b, nx, op)
  <2>1. ASSUME NEW x \in Nat \cap B PROVE b[x] \in R
    <3>1. b[x] = <<x>> /\ x \in Byte
      BY <1>1
    <3> HIDE DEF b, B
    <3> QED
      BY <3>1
  <2>2. \A x \in Nat \ B : nx[x] \in Nat /\ mu[nx[x]] < mu[x]
    BY <1>1
  <2>3. ASSUME NEW x \in Nat \ B, NEW r \in R PROVE op[<<x, r>>] \in R
    <3>1. op[<<x, r>>] = <<128 + (x % 128)>> \o r
      OBVIOUS
    <3> HIDE DEF op, B
    <3> QED
      BY <3>1, EncodeStep
  <2>4. mu \in [Nat -> Nat]
    OBVIOUS
  <2> HIDE DEF b, nx, op, mu, B, R
  <2> QED
    BY <2>1, <2>2, <2>3, <2>4, RecursionExists
<1>3. ASSUME NEW f \in [Nat -> R], Recurs(f, Nat, B, b, nx, op) PROVE Is(f)
  <2>1. ASSUME NEW v \in Nat
        PROVE  f[v] = IF v < 128 THEN <<v>> ELSE <<128 + (v % 128)>> \o f[v \div 128]
    <3>1. CASE v < 128
      <4>1. v \in B
        BY <3>1
      <4>2. f[v] = b[v]
        BY <1>3, <4>1 DEF Recurs
      <4> QED
        BY <3>1, <4>1, <4>2
    <3>2. CASE ~(v < 128)
      <4>1. f[v] = op[<<v, f[nx[v]]>>] /\ nx[v] = v \div 128 /\ nx[v] \in Nat
        <5>1. v \notin B
          BY <3>2
        <5>2. f[v] = op[<<v, f[nx[v]]>>]
          BY <1>3, <5>1, ZenonT(30) DEF Recurs
        <5> QED
          BY <5>2, <1>1
      <4>2. f[v \div 128] \in R
        BY <4>1
      <4>3. op[<<v, f[v \div 128]>>] = <<128 + (v % 128)>> \o f[v \div 128]
        BY <4>2
      <4> HIDE DEF op, nx
      <4> QED
        BY <3>2, <4>1, <4>3
    <3> QED
      BY <3>1, <3>2
  <2> QED
    BY <2>1
<1>4. ASSUME NEW f, Is(f) PROVE f \in [Nat -> R]
  <2>1. \A v \in Nat : f[v] = IF v < 128 THEN <<v>> ELSE <<128 + (v % 128)>> \o f[v \div 128]
    BY <1>4
  <2> DEFINE P == {n \in Nat : f[n] \in R}
  <2>2. ASSUME NEW v \in Nat, \A m \in Nat : m < v => m \in P PROVE v \in P
    <3>1. CASE v < 128
      <4>1. v \in Byte
        BY <3>1 DEF Byte
      <4>2. f[v] = <<v>>
        BY <2>1, <3>1
      <4>3. f[v] \in R
        <5> HIDE <2>1
        <5> QED
          BY <4>1, <4>2
      <4> QED
        BY <4>3
    <3>2. CASE ~(v < 128)
      <4>1. v \div 128 \in Nat /\ v \div 128 < v
        BY <3>2, <1>1
      <4>2. f[v \div 128] \in R
        BY <2>2, <4>1
      <4>3. f[v] = <<128 + (v % 128)>> \o f[v \div 128]
        BY <2>1, <3>2
      <4>4. f[v] \in R
        BY <4>2, <4>3, EncodeStep
      <4> QED
        BY <4>4
    <3> QED
      BY <3>1, <3>2
  <2>3. Nat \subseteq P
    <3> HIDE DEF P
    <3> QED
      BY <2>2, StrongInduction
  <2>4. f = [n \in Nat |-> f[n]]
    BY <1>4
  <2> HIDE DEF Is
  <2> QED
    BY <2>3, <2>4
<1>5. encodeVarint = CHOOSE f : Is(f)
  BY DEF encodeVarint
<1> HIDE DEF Is
<1>6. Is(encodeVarint)
  BY <1>2, <1>3, <1>5
<1> QED
  BY <1>4, <1>6 DEF Is

\* Seven bits are one group.
LEMMA BitLenOfGroup ==
  /\ \A v \in 1 .. 127 : BitLen[v] \in 1 .. 7
  /\ \A v \in Nat : v >= 128 => BitLen[v] = 7 + BitLen[v \div 128]
<1>1. \A x \in Nat \ {0} : BitLen[x] = 1 + BitLen[x \div 2] /\ BitLen[x] \in Nat /\ x \div 2 \in Nat
  BY BitLenIs
<1>2. BitLen[0] = 0
  BY BitLenIs
<1>3. \A x \in 1 .. 1 : BitLen[x] = 1
  BY <1>1, <1>2
<1>4. \A x \in 1 .. 3 : BitLen[x] \in 1 .. 2
  <2> SUFFICES ASSUME NEW x \in 1 .. 3 PROVE BitLen[x] \in 1 .. 2
    OBVIOUS
  <2>1. x \div 2 \in 0 .. 1 /\ BitLen[x] = 1 + BitLen[x \div 2]
    BY <1>1
  <2> QED
    BY <2>1, <1>2, <1>3
<1>5. \A x \in 1 .. 7 : BitLen[x] \in 1 .. 3
  <2> SUFFICES ASSUME NEW x \in 1 .. 7 PROVE BitLen[x] \in 1 .. 3
    OBVIOUS
  <2>1. x \div 2 \in 0 .. 3 /\ BitLen[x] = 1 + BitLen[x \div 2]
    BY <1>1
  <2> QED
    BY <2>1, <1>2, <1>4
<1>6. \A x \in 1 .. 15 : BitLen[x] \in 1 .. 4
  <2> SUFFICES ASSUME NEW x \in 1 .. 15 PROVE BitLen[x] \in 1 .. 4
    OBVIOUS
  <2>1. x \div 2 \in 0 .. 7 /\ BitLen[x] = 1 + BitLen[x \div 2]
    BY <1>1
  <2> QED
    BY <2>1, <1>2, <1>5
<1>7. \A x \in 1 .. 31 : BitLen[x] \in 1 .. 5
  <2> SUFFICES ASSUME NEW x \in 1 .. 31 PROVE BitLen[x] \in 1 .. 5
    OBVIOUS
  <2>1. x \div 2 \in 0 .. 15 /\ BitLen[x] = 1 + BitLen[x \div 2]
    BY <1>1
  <2> QED
    BY <2>1, <1>2, <1>6
<1>8. \A x \in 1 .. 63 : BitLen[x] \in 1 .. 6
  <2> SUFFICES ASSUME NEW x \in 1 .. 63 PROVE BitLen[x] \in 1 .. 6
    OBVIOUS
  <2>1. x \div 2 \in 0 .. 31 /\ BitLen[x] = 1 + BitLen[x \div 2]
    BY <1>1
  <2> QED
    BY <2>1, <1>2, <1>7
<1>9. \A x \in 1 .. 127 : BitLen[x] \in 1 .. 7
  <2> SUFFICES ASSUME NEW x \in 1 .. 127 PROVE BitLen[x] \in 1 .. 7
    OBVIOUS
  <2>1. x \div 2 \in 0 .. 63 /\ BitLen[x] = 1 + BitLen[x \div 2]
    BY <1>1
  <2> QED
    BY <2>1, <1>2, <1>8
<1>10. ASSUME NEW v \in Nat, v >= 128 PROVE BitLen[v] = 7 + BitLen[v \div 128]
  <2>1. BitLen[v] = 1 + BitLen[v \div 2] /\ v \div 2 \in Nat /\ v \div 2 >= 64
    BY <1>1, <1>10
  <2>2. BitLen[v \div 2] = 1 + BitLen[v \div 4] /\ v \div 4 \in Nat /\ v \div 4 >= 32
    <3>1. (v \div 2) \div 2 = v \div 4 /\ v \div 4 \in Nat /\ v \div 4 >= 32
      BY <1>10
    <3> QED
      BY <1>1, <2>1, <3>1
  <2>3. BitLen[v \div 4] = 1 + BitLen[v \div 8] /\ v \div 8 \in Nat /\ v \div 8 >= 16
    <3>1. (v \div 4) \div 2 = v \div 8 /\ v \div 8 \in Nat /\ v \div 8 >= 16
      BY <1>10
    <3> QED
      BY <1>1, <2>2, <3>1
  <2>4. BitLen[v \div 8] = 1 + BitLen[v \div 16] /\ v \div 16 \in Nat /\ v \div 16 >= 8
    <3>1. (v \div 8) \div 2 = v \div 16 /\ v \div 16 \in Nat /\ v \div 16 >= 8
      BY <1>10
    <3> QED
      BY <1>1, <2>3, <3>1
  <2>5. BitLen[v \div 16] = 1 + BitLen[v \div 32] /\ v \div 32 \in Nat /\ v \div 32 >= 4
    <3>1. (v \div 16) \div 2 = v \div 32 /\ v \div 32 \in Nat /\ v \div 32 >= 4
      BY <1>10
    <3> QED
      BY <1>1, <2>4, <3>1
  <2>6. BitLen[v \div 32] = 1 + BitLen[v \div 64] /\ v \div 64 \in Nat /\ v \div 64 >= 2
    <3>1. (v \div 32) \div 2 = v \div 64 /\ v \div 64 \in Nat /\ v \div 64 >= 2
      BY <1>10
    <3> QED
      BY <1>1, <2>5, <3>1
  <2>7. BitLen[v \div 64] = 1 + BitLen[v \div 128] /\ v \div 128 \in Nat
    <3>1. (v \div 64) \div 2 = v \div 128 /\ v \div 128 \in Nat
      BY <1>10
    <3> QED
      BY <1>1, <2>6, <3>1
  <2>8. BitLen[v \div 128] \in Nat
    BY <2>7, BitLenIs
  <2> QED
    BY <2>1, <2>2, <2>3, <2>4, <2>5, <2>6, <2>7, <2>8
<1> QED
  BY <1>9, <1>10

\* Size and Marshal agree on varints, whatever the number.
LEMMA SizeOfVarint ==
  ASSUME NEW v \in Nat
  PROVE  sov(v) = Len(encodeVarint[v]) /\ Len(encodeVarint[v]) \in Nat \ {0}
<1> DEFINE P == {n \in Nat : sov(n) = Len(encodeVarint[n]) /\ Len(encodeVarint[n]) \in Nat \ {0}}
<1>1. ASSUME NEW n \in Nat, \A m \in Nat : m < n => m \in P PROVE n \in P
  <2>1. CASE n < 128
    <3>1. Len(encodeVarint[n]) = 1
      <4>1. encodeVarint[n] = <<n>>
        BY <2>1, EncodeIs
      <4> QED
        BY <4>1
    <3>2. BitLen[IF n = 0 THEN 1 ELSE n] \in 1 .. 7
      BY <2>1, BitLenOfGroup
    <3>3. \A k \in 1 .. 7 : (k + 6) \div 7 = 1
      OBVIOUS
    <3>4. sov(n) = 1
      BY <3>2, <3>3 DEF sov
    <3> QED
      BY <3>1, <3>4
  <2>2. CASE n >= 128
    <3> DEFINE q == n \div 128
    <3>1. q \in Nat \ {0} /\ q < n /\ n # 0
      BY <2>2
    <3>2. encodeVarint[n] = <<128 + (n % 128)>> \o encodeVarint[q] /\ encodeVarint[q] \in Seq(Byte)
      <4>1. ~(n < 128)
        BY <2>2
      <4>2. encodeVarint[n] = <<128 + (n % 128)>> \o encodeVarint[n \div 128]
        BY <4>1, EncodeIs
      <4> QED
        BY <3>1, <4>2, EncodeIs
    <3>3. Len(encodeVarint[n]) = 1 + Len(encodeVarint[q])
      <4> HIDE DEF q
      <4> QED
        BY <3>2, EncodeStep
    <3>4. BitLen[n] = 7 + BitLen[q] /\ BitLen[q] \in Nat
      BY <2>2, <3>1, BitLenOfGroup, BitLenIs
    <3>5. sov(n) = 1 + sov(q)
      <4>1. sov(n) = (BitLen[n] + 6) \div 7 /\ sov(q) = (BitLen[q] + 6) \div 7
        BY <3>1 DEF sov
      <4> HIDE DEF q
      <4> QED
        BY <3>4, <4>1
    <3>6. q \in P
      BY <1>1, <3>1
    <3> HIDE DEF q
    <3> QED
      BY <3>3, <3>5, <3>6
  <2> QED
    BY <2>1, <2>2
<1>2. Nat \subseteq P
  <2> HIDE DEF P
  <2> QED
    BY <1>1, StrongInduction
<1> QED
  BY <1>2

-----------------------------------------------------------------------------
(* Sequences in a row.                                                      *)

\* What the recursion of FlattenSeq(s) asks of the function it picks.
Joins(f, s) == f = [i \in 1 .. Len(s) |-> IF i = 1 THEN s[i] ELSE f[i - 1] \o s[i]]

\* The function that FlattenSeq picks joins longer and longer prefixes.
LEMMA JoinsIs ==
  ASSUME NEW B, NEW s \in Seq(Seq(B)), s # <<>>
  PROVE  \E f \in [1 .. Len(s) -> Seq(B)] : Joins(f, s) /\ FlattenSeq(s) = f[Len(s)]
<1> DEFINE D  == 1 .. Len(s)
           R  == Seq(B)
           mu == [i \in D |-> i]
           b  == [i \in {1} |-> s[i]]
           nx == [i \in D |-> i - 1]
           op == [p \in D \X R |-> p[2] \o s[p[1]]]
<1>1. Len(s) \in Nat \ {0} /\ 1 \in D /\ \A i \in D : i \in Nat /\ s[i] \in R
  BY EmptySeq
<1>2. \E f \in [D -> R] : Recurs(f, D, {1}, b, nx, op)
  <2>1. \A x \in D \cap {1} : b[x] \in R
    BY <1>1
  <2>2. \A x \in D \ {1} : nx[x] \in D /\ mu[nx[x]] < mu[x]
    OBVIOUS
  <2>3. ASSUME NEW x \in D \ {1}, NEW r \in R PROVE op[<<x, r>>] \in R
    <3>1. op[<<x, r>>] = r \o s[x]
      OBVIOUS
    <3>2. s[x] \in R
      BY <1>1
    <3> HIDE DEF op
    <3> QED
      BY <3>1, <3>2, ConcatProperties
  <2>4. mu \in [D -> Nat]
    BY <1>1
  <2> HIDE DEF b, nx, op, mu, D, R
  <2> QED
    BY <2>1, <2>2, <2>3, <2>4, RecursionExists
<1>3. ASSUME NEW f \in [D -> R], Recurs(f, D, {1}, b, nx, op) PROVE Joins(f, s)
  <2>1. ASSUME NEW i \in D PROVE f[i] = IF i = 1 THEN s[i] ELSE f[i - 1] \o s[i]
    <3>1. CASE i = 1
      <4>1. f[i] = b[i]
        BY <1>3, <3>1 DEF Recurs
      <4> QED
        BY <3>1, <4>1
    <3>2. CASE i # 1
      <4>1. f[i] = op[<<i, f[nx[i]]>>]
        BY <1>3, <3>2 DEF Recurs
      <4>2. nx[i] = i - 1 /\ i - 1 \in D
        BY <3>2
      <4>3. f[i - 1] \in R
        BY <4>2
      <4>4. op[<<i, f[i - 1]>>] = f[i - 1] \o s[i]
        BY <4>3
      <4> HIDE DEF op, nx, D
      <4> QED
        BY <3>2, <4>1, <4>2, <4>4
    <3> QED
      BY <3>1, <3>2
  <2>2. f = [i \in D |-> f[i]]
    OBVIOUS
  <2>3. f = [i \in D |-> IF i = 1 THEN s[i] ELSE f[i - 1] \o s[i]]
    <3> HIDE DEF D
    <3> QED
      BY <2>1, <2>2
  <2> QED
    BY <2>3 DEF Joins
<1>4. ASSUME NEW f, Joins(f, s) PROVE f \in [D -> R]
  <2>1. f = [i \in D |-> f[i]] /\ \A i \in D : f[i] = IF i = 1 THEN s[i] ELSE f[i - 1] \o s[i]
    BY <1>4 DEF Joins
  <2> DEFINE P == {n \in Nat : n \in D => f[n] \in R}
  <2>2. ASSUME NEW n \in Nat, \A m \in Nat : m < n => m \in P PROVE n \in P
    <3> SUFFICES ASSUME n \in D PROVE f[n] \in R
      OBVIOUS
    <3>1. CASE n = 1
      BY <1>1, <2>1, <3>1
    <3>2. CASE n # 1
      <4>1. n - 1 \in Nat /\ n - 1 < n /\ n - 1 \in D
        BY <3>2
      <4>2. f[n - 1] \in R
        BY <2>2, <4>1
      <4>3. f[n] = f[n - 1] \o s[n] /\ s[n] \in R
        BY <1>1, <2>1, <3>2
      <4> QED
        BY <4>2, <4>3, ConcatProperties
    <3> QED
      BY <3>1, <3>2
  <2>3. Nat \subseteq P
    <3> HIDE DEF P
    <3> QED
      BY <2>2, StrongInduction
  <2>4. \A i \in D : f[i] \in R
    BY <1>1, <2>3
  <2> HIDE DEF D, R
  <2> QED
    BY <2>1, <2>4
<1> DEFINE g == CHOOSE f : Joins(f, s)
<1>5. Joins(g, s)
  BY <1>2, <1>3
<1>6. FlattenSeq(s) = g[Len(s)]
  BY <1>1 DEF FlattenSeq, Joins
<1> HIDE DEF g
<1> QED
  BY <1>4, <1>5, <1>6

\* A last piece comes last.
LEMMA FlattenAppend ==
  ASSUME NEW B, NEW s \in Seq(Seq(B)), NEW e \in Seq(B)
  PROVE  /\ FlattenSeq(s) \in Seq(B)
         /\ FlattenSeq(<<>>) = <<>>
         /\ FlattenSeq(Append(s, e)) = FlattenSeq(s) \o e
<1> DEFINE t == Append(s, e)
<1>1. FlattenSeq(<<>>) = <<>>
  BY EmptySeq DEF FlattenSeq
<1>2. /\ t \in Seq(Seq(B)) /\ t # <<>> /\ Len(t) = Len(s) + 1 /\ t[Len(t)] = e
      /\ \A i \in 1 .. Len(s) : t[i] = s[i]
  BY AppendProperties
<1> HIDE DEF t
<1>3. PICK f \in [1 .. Len(t) -> Seq(B)] : Joins(f, t) /\ FlattenSeq(t) = f[Len(t)]
  BY <1>2, JoinsIs
<1>4. \A i \in 1 .. Len(t) : f[i] = IF i = 1 THEN t[i] ELSE f[i - 1] \o t[i]
  BY <1>3 DEF Joins
<1>5. CASE s = <<>>
  <2>1. Len(s) = 0 /\ Len(t) = 1
    BY <1>2, <1>5
  <2>2. FlattenSeq(t) = e
    BY <1>2, <1>3, <1>4, <2>1
  <2>3. FlattenSeq(s) = <<>> /\ <<>> \o e = e /\ <<>> \in Seq(B)
    BY <1>1, <1>5, ConcatEmptySeq, EmptySeq
  <2> QED
    BY <1>1, <2>2, <2>3 DEF t
<1>6. CASE s # <<>>
  <2>1. PICK h \in [1 .. Len(s) -> Seq(B)] : Joins(h, s) /\ FlattenSeq(s) = h[Len(s)]
    BY <1>6, JoinsIs
  <2>2. \A i \in 1 .. Len(s) : h[i] = IF i = 1 THEN s[i] ELSE h[i - 1] \o s[i]
    BY <2>1 DEF Joins
  <2>3. Len(s) \in Nat \ {0}
    BY <1>6, EmptySeq
  <2> DEFINE P == {n \in Nat : n \in 1 .. Len(s) => f[n] = h[n]}
  <2>4. ASSUME NEW n \in Nat, \A m \in Nat : m < n => m \in P PROVE n \in P
    <3> SUFFICES ASSUME n \in 1 .. Len(s) PROVE f[n] = h[n]
      OBVIOUS
    <3>1. n # 1 => n - 1 \in Nat /\ n - 1 < n /\ n - 1 \in 1 .. Len(s)
      OBVIOUS
    <3>2. n # 1 => f[n - 1] = h[n - 1]
      BY <2>4, <3>1
    <3>3. n \in 1 .. Len(t) /\ t[n] = s[n]
      BY <1>2, <2>3
    <3> QED
      BY <1>4, <2>2, <3>2, <3>3, ZenonT(30)
  <2>5. Nat \subseteq P
    <3> HIDE DEF P
    <3> QED
      BY <2>4, StrongInduction
  <2>6. f[Len(s)] = h[Len(s)] /\ h[Len(s)] \in Seq(B)
    <3>1. Len(s) \in P /\ Len(s) \in 1 .. Len(s)
      <4> HIDE DEF P
      <4> QED
        BY <2>3, <2>5
    <3> QED
      BY <3>1
  <2>7. f[Len(t)] = f[Len(s)] \o e
    <3>1. Len(t) \in 1 .. Len(t) /\ Len(t) # 1 /\ Len(t) - 1 = Len(s)
      BY <1>2, <2>3
    <3> QED
      BY <1>2, <1>4, <3>1
  <2> QED
    BY <1>1, <1>3, <2>1, <2>6, <2>7 DEF t
<1> QED
  BY <1>5, <1>6

\* What is in a row may be taken apart anywhere.
LEMMA FlattenConcat ==
  ASSUME NEW B, NEW s \in Seq(Seq(B)), NEW t \in Seq(Seq(B))
  PROVE  FlattenSeq(s \o t) = FlattenSeq(s) \o FlattenSeq(t)
<1> DEFINE P == {n \in Nat : \A u \in Seq(Seq(B)) :
                               Len(u) = n => FlattenSeq(s \o u) = FlattenSeq(s) \o FlattenSeq(u)}
<1>1. \A x, y, z \in Seq(B) : (x \o y) \o z = x \o (y \o z)
  BY ConcatAssociative, SMTT(30)
<1>2. ASSUME NEW n \in Nat, \A m \in Nat : m < n => m \in P PROVE n \in P
  <2> SUFFICES ASSUME NEW u \in Seq(Seq(B)), Len(u) = n
               PROVE  FlattenSeq(s \o u) = FlattenSeq(s) \o FlattenSeq(u)
    OBVIOUS
  <2>1. FlattenSeq(s) \in Seq(B) /\ FlattenSeq(<<>>) = <<>>
    <3>1. <<>> \in Seq(B)
      BY EmptySeq
    <3> QED
      BY <3>1, FlattenAppend
  <2>2. CASE u = <<>>
    <3>1. s \o u = s
      BY <2>2, ConcatEmptySeq
    <3>2. FlattenSeq(s) \o <<>> = FlattenSeq(s)
      BY <2>1, ConcatEmptySeq
    <3> QED
      BY <2>1, <2>2, <3>1, <3>2
  <2>3. CASE u # <<>>
    <3>1. PICK v \in Seq(Seq(B)), e \in Seq(B) : u = Append(v, e)
      BY <2>3, SequenceEmptyOrAppend
    <3>2. Len(v) \in Nat /\ Len(v) < n
      BY <3>1, AppendProperties, LenProperties
    <3>3. FlattenSeq(s \o v) = FlattenSeq(s) \o FlattenSeq(v)
      BY <1>2, <3>2
    <3>4. s \o v \in Seq(Seq(B)) /\ s \o u = Append(s \o v, e)
      <4>1. s \o v \in Seq(Seq(B)) /\ <<e>> \in Seq(Seq(B))
        BY ConcatProperties
      <4>2. s \o u = s \o (v \o <<e>>) /\ Append(s \o v, e) = (s \o v) \o <<e>>
        BY <3>1, <4>1, AppendIsConcat
      <4>3. v \in Seq(Seq(B)) /\ s \in Seq(Seq(B))
        OBVIOUS
      <4>4. (s \o v) \o <<e>> = s \o (v \o <<e>>)
        BY <4>1, <4>3, ConcatAssociative, SMTT(30)
      <4> QED
        BY <4>1, <4>2, <4>4
    <3>5. FlattenSeq(s \o u) = FlattenSeq(s \o v) \o e /\ FlattenSeq(u) = FlattenSeq(v) \o e
          /\ FlattenSeq(v) \in Seq(B)
      BY <3>1, <3>4, FlattenAppend
    <3>6. (FlattenSeq(s) \o FlattenSeq(v)) \o e = FlattenSeq(s) \o (FlattenSeq(v) \o e)
      <4> DEFINE x == FlattenSeq(s)
                 y == FlattenSeq(v)
      <4>1. x \in Seq(B) /\ y \in Seq(B)
        BY <2>1, <3>5
      <4>2. (x \o y) \o e = x \o (y \o e)
        <5> HIDE DEF x, y
        <5> QED
          BY <1>1, <4>1, Zenon
      <4> QED
        BY <4>2
    <3> QED
      BY <3>3, <3>5, <3>6
  <2> QED
    BY <2>2, <2>3
<1>3. Nat \subseteq P
  <2> HIDE DEF P
  <2> QED
    BY <1>2, StrongInduction
<1> QED
  BY <1>3, LenProperties

\* The pieces of a row.
LEMMA FlattenOne ==
  ASSUME NEW B, NEW a \in Seq(B)
  PROVE  FlattenSeq(<<a>>) = a
<1>1. <<>> \in Seq(Seq(B)) /\ Append(<<>>, a) = <<a>> /\ <<>> \o a = a
  BY EmptySeq, ConcatEmptySeq
<1> QED
  BY <1>1, FlattenAppend

\* A first piece comes first.
LEMMA FlattenFrom ==
  ASSUME NEW B, NEW s \in Seq(Seq(B)), NEW j \in 0 .. Len(s)
  PROVE  /\ FlattenSeq(SubSeq(s, j + 1, Len(s))) \in Seq(B)
         /\ j < Len(s) => FlattenSeq(SubSeq(s, j + 1, Len(s))) =
                            s[j + 1] \o FlattenSeq(SubSeq(s, j + 2, Len(s)))
         /\ j = Len(s) => FlattenSeq(SubSeq(s, j + 1, Len(s))) = <<>>
<1>1. SubSeq(s, j + 1, Len(s)) \in Seq(Seq(B))
  BY SubSeqProperties, LenProperties
<1>2. FlattenSeq(SubSeq(s, j + 1, Len(s))) \in Seq(B) /\ FlattenSeq(<<>>) = <<>>
  <2>1. <<>> \in Seq(B)
    BY EmptySeq
  <2> QED
    BY <1>1, <2>1, FlattenAppend
<1>3. ASSUME j < Len(s)
      PROVE  FlattenSeq(SubSeq(s, j + 1, Len(s))) =
               s[j + 1] \o FlattenSeq(SubSeq(s, j + 2, Len(s)))
  <2>1. j + 1 \in 1 .. Len(s) /\ Len(s) \in j + 1 .. Len(s)
    BY <1>3, LenProperties
  <2>2. SubSeq(s, j + 1, Len(s)) = <<s[j + 1]>> \o SubSeq(s, (j + 1) + 1, Len(s))
    BY <2>1, SubSeqRecursiveFirst
  <2>3. (j + 1) + 1 = j + 2
    OBVIOUS
  <2>4. s[j + 1] \in Seq(B) /\ <<s[j + 1]>> \in Seq(Seq(B))
    BY <2>1
  <2>5. SubSeq(s, j + 2, Len(s)) \in Seq(Seq(B))
    BY SubSeqProperties, LenProperties
  <2>6. FlattenSeq(<<s[j + 1]>> \o SubSeq(s, j + 2, Len(s))) =
          FlattenSeq(<<s[j + 1]>>) \o FlattenSeq(SubSeq(s, j + 2, Len(s)))
    BY <2>4, <2>5, FlattenConcat
  <2>7. FlattenSeq(<<s[j + 1]>>) = s[j + 1]
    BY <2>4, FlattenOne
  <2> QED
    BY <2>2, <2>3, <2>6, <2>7
<1>4. j = Len(s) => SubSeq(s, j + 1, Len(s)) = <<>>
  BY SubSeqEmpty, LenProperties
<1> QED
  BY <1>2, <1>3, <1>4

\* Writing from the end of the buffer puts the last piece first.
LEMMA BackwardsIs ==
  ASSUME NEW B, NEW a \in Seq(B), NEW b \in Seq(B)
  PROVE  /\ Backwards(<<a, b>>) = b \o a
         /\ \A c \in Seq(B) : Backwards(<<a, b, c>>) = (c \o b) \o a
<1>1. ASSUME NEW s \in Seq(Seq(B)), NEW e \in Seq(B)
      PROVE  FlattenSeq(Append(s, e)) = FlattenSeq(s) \o e /\ Append(s, e) \in Seq(Seq(B))
  BY FlattenAppend, AppendProperties
<1>2. Backwards(<<a, b>>) = b \o a
  <2>1. Reverse(<<a, b>>) = Append(<<b>>, a)
    BY DEF Reverse
  <2>2. <<b>> \in Seq(Seq(B)) /\ FlattenSeq(<<b>>) = b
    BY FlattenOne
  <2>3. FlattenSeq(Append(<<b>>, a)) = b \o a
    BY <1>1, <2>2
  <2> QED
    BY <2>1, <2>3 DEF Backwards
<1>3. ASSUME NEW c \in Seq(B) PROVE Backwards(<<a, b, c>>) = (c \o b) \o a
  <2>1. Reverse(<<a, b, c>>) = Append(Append(<<c>>, b), a)
    BY DEF Reverse
  <2>2. <<c>> \in Seq(Seq(B)) /\ FlattenSeq(<<c>>) = c
    BY FlattenOne
  <2>3. FlattenSeq(Append(<<c>>, b)) = c \o b /\ Append(<<c>>, b) \in Seq(Seq(B))
    BY <1>1, <2>2
  <2>4. FlattenSeq(Append(Append(<<c>>, b), a)) = (c \o b) \o a
    BY <1>1, <2>3
  <2> QED
    BY <2>1, <2>4 DEF Backwards
<1> QED
  BY <1>2, <1>3

-----------------------------------------------------------------------------
(* Reading varints.                                                         *)

\* Words, half words, groups of seven bits.
LEMMA WordIs ==
  /\ WordBits \in Nat /\ WordBits > 7
  /\ Word \in Nat /\ MaxLength \in Nat /\ Word = 2 * MaxLength /\ MaxLength > 0
  /\ \A k \in Nat : Pow2[k] \in Nat \ {0} /\ Pow2[k + 7] = 128 * Pow2[k]
  /\ \A k \in 0 .. 7 : Pow2[k] <= 128
<1>1. \A n \in Nat : Pow2[n] \in Nat \ {0} /\ Pow2[n + 1] = 2 * Pow2[n]
  BY Pow2Is
<1>2. ASSUME NEW k \in Nat PROVE Pow2[k + 7] = 128 * Pow2[k]
  <2>1. /\ Pow2[k + 1] = 2 * Pow2[k]
        /\ Pow2[(k + 1) + 1] = 2 * Pow2[k + 1]
        /\ Pow2[(k + 2) + 1] = 2 * Pow2[k + 2]
        /\ Pow2[(k + 3) + 1] = 2 * Pow2[k + 3]
        /\ Pow2[(k + 4) + 1] = 2 * Pow2[k + 4]
        /\ Pow2[(k + 5) + 1] = 2 * Pow2[k + 5]
        /\ Pow2[(k + 6) + 1] = 2 * Pow2[k + 6]
    BY <1>1
  <2>2. Pow2[k] \in Nat
    BY <1>1
  <2>3. /\ (k + 1) + 1 = k + 2 /\ (k + 2) + 1 = k + 3 /\ (k + 3) + 1 = k + 4
        /\ (k + 4) + 1 = k + 5 /\ (k + 5) + 1 = k + 6 /\ (k + 6) + 1 = k + 7
    OBVIOUS
  <2> QED
    BY <2>1, <2>2, <2>3
<1>3. \A k \in 0 .. 7 : Pow2[k] <= 128
  <2>1. Pow2[0] = 1
    BY Pow2Is
  <2>2. Pow2[0 + 1] = 2 /\ Pow2[1 + 1] = 2 * Pow2[1] /\ Pow2[2 + 1] = 2 * Pow2[2]
        /\ Pow2[3 + 1] = 2 * Pow2[3] /\ Pow2[4 + 1] = 2 * Pow2[4]
        /\ Pow2[5 + 1] = 2 * Pow2[5] /\ Pow2[6 + 1] = 2 * Pow2[6]
    BY <1>1, <2>1
  <2>3. Pow2[1] = 2 /\ Pow2[2] = 4 /\ Pow2[3] = 8 /\ Pow2[4] = 16 /\ Pow2[5] = 32
        /\ Pow2[6] = 64 /\ Pow2[7] = 128
    BY <2>2
  <2> QED
    BY <2>1, <2>3
<1>4. WordBits \in Nat /\ WordBits > 7
  BY WidthAssumption
<1>5. Word = 2 * MaxLength /\ MaxLength \in Nat \ {0} /\ Word \in Nat
  <2>1. WordBits - 1 \in Nat /\ (WordBits - 1) + 1 = WordBits
    BY <1>4
  <2>2. Pow2[WordBits] = 2 * Pow2[WordBits - 1]
    BY <1>1, <2>1
  <2> QED
    BY <1>1, <1>4, <2>1, <2>2 DEF Word, MaxLength
<1> QED
  BY <1>1, <1>2, <1>3, <1>4, <1>5

\* A byte of a sequence of bytes.
LEMMA ByteAt ==
  ASSUME NEW d \in Seq(Byte), NEW at \in Nat, at < Len(d)
  PROVE  Len(d) \in Nat /\ at + 1 \in 1 .. Len(d) /\ d[at + 1] \in 0 .. 255 /\ d[at + 1] \in Nat
<1>1. Len(d) \in Nat
  BY LenProperties
<1>2. at + 1 \in 1 .. Len(d)
  BY <1>1
<1>3. d[at + 1] \in Byte
  BY <1>2, ElementOfSeq
<1>4. \A b \in Byte : b \in 0 .. 255 /\ b \in Nat
  BY DEF Byte
<1> QED
  BY <1>1, <1>2, <1>3, <1>4

\* What reading a varint gives.
Reads == [ok : BOOLEAN, value : Nat, next : Nat]

\* The equation of the groups of the varint of d after index i.
Groups(m, d, i) ==
  \A at \in Nat :
    m[at] = IF 7 * (at - i) >= WordBits \/ at >= Len(d) THEN [ok |-> FALSE, value |-> 0, next |-> at]
            ELSE IF d[at + 1] < 128 THEN [ok |-> TRUE, value |-> d[at + 1], next |-> at + 1]
            ELSE [m[at + 1] EXCEPT !.value = (d[at + 1] % 128) + 128 * @]

\* What Varint computes is one reading of every group.
LEMMA VarintIs ==
  ASSUME NEW d \in Seq(Byte), NEW i \in Nat
  PROVE  \E m \in [Nat -> Reads] :
           Groups(m, d, i) /\ Varint(d, i) = [m[i] EXCEPT !.value = @ % Word]
<1> DEFINE mu == [at \in Nat |-> IF at < Len(d) THEN Len(d) - at ELSE 0]
           Ends(at) == 7 * (at - i) >= WordBits \/ at >= Len(d)
           B  == {at \in Nat : Ends(at) \/ d[at + 1] < 128}
           b  == [at \in B |-> IF Ends(at) THEN [ok |-> FALSE, value |-> 0, next |-> at]
                               ELSE [ok |-> TRUE, value |-> d[at + 1], next |-> at + 1]]
           nx == [at \in Nat |-> at + 1]
           op == [p \in Nat \X Reads |-> [p[2] EXCEPT !.value = (d[p[1] + 1] % 128) + 128 * @]]
           Is(f) == f = [at \in Nat |->
              IF 7 * (at - i) >= WordBits \/ at >= Len(d)
              THEN [ok |-> FALSE, value |-> 0, next |-> at]
              ELSE IF d[at + 1] < 128 THEN [ok |-> TRUE, value |-> d[at + 1], next |-> at + 1]
              ELSE [f[at + 1] EXCEPT !.value = (d[at + 1] % 128) + 128 * @]]
<1>1. Len(d) \in Nat /\ \A at \in Nat : at < Len(d) => d[at + 1] \in 0 .. 255 /\ d[at + 1] \in Nat
  BY ByteAt, LenProperties
<1>2. ASSUME NEW at \in Nat, at < Len(d), NEW r \in Reads
      PROVE  [r EXCEPT !.value = (d[at + 1] % 128) + 128 * @] \in Reads
  <2>1. (d[at + 1] % 128) + 128 * r.value \in Nat
    <3>1. d[at + 1] \in 0 .. 255 /\ r.value \in Nat
      BY <1>1, <1>2 DEF Reads
    <3>2. \A x \in 0 .. 255, y \in Nat : (x % 128) + 128 * y \in Nat
      OBVIOUS
    <3> QED
      BY <3>1, <3>2
  <2> QED
    BY <2>1 DEF Reads
<1>3. \E f \in [Nat -> Reads] : Recurs(f, Nat, B, b, nx, op)
  <2>1. ASSUME NEW x \in Nat \cap B PROVE b[x] \in Reads
    <3>1. CASE Ends(x)
      BY <3>1 DEF Reads
    <3>2. CASE ~Ends(x)
      <4>1. b[x] = [ok |-> TRUE, value |-> d[x + 1], next |-> x + 1]
        BY <3>2
      <4>2. d[x + 1] \in Nat
        <5>1. ~(x >= Len(d))
          BY <3>2
        <5> HIDE DEF B, b, op, nx, mu, Is, Ends
        <5>2. x \in Nat /\ x < Len(d)
          BY <1>1, <5>1
        <5> QED
          BY <1>1, <5>2
      <4> HIDE DEF b
      <4> QED
        BY <4>1, <4>2 DEF Reads
    <3> QED
      BY <3>1, <3>2
  <2>2. ASSUME NEW x \in Nat \ B PROVE nx[x] \in Nat /\ mu[nx[x]] < mu[x]
    BY <1>1
  <2>3. ASSUME NEW x \in Nat \ B, NEW r \in Reads PROVE op[<<x, r>>] \in Reads
    <3>1. op[<<x, r>>] = [r EXCEPT !.value = (d[x + 1] % 128) + 128 * @]
      OBVIOUS
    <3>2. x < Len(d)
      BY <1>1
    <3> HIDE DEF op, B
    <3> QED
      BY <1>2, <3>1, <3>2
  <2>4. mu \in [Nat -> Nat]
    BY <1>1
  <2> HIDE DEF b, nx, op, mu, B
  <2> QED
    BY <2>1, <2>2, <2>3, <2>4, RecursionExists
<1>4. ASSUME NEW f \in [Nat -> Reads], Recurs(f, Nat, B, b, nx, op) PROVE Is(f)
  <2>1. ASSUME NEW at \in Nat
        PROVE  f[at] = IF 7 * (at - i) >= WordBits \/ at >= Len(d)
                       THEN [ok |-> FALSE, value |-> 0, next |-> at]
                       ELSE IF d[at + 1] < 128
                       THEN [ok |-> TRUE, value |-> d[at + 1], next |-> at + 1]
                       ELSE [f[at + 1] EXCEPT !.value = (d[at + 1] % 128) + 128 * @]
    <3>1. CASE at \in B
      <4>1. f[at] = b[at]
        BY <1>4, <3>1 DEF Recurs
      <4> QED
        BY <3>1, <4>1
    <3>2. CASE at \notin B
      <4>1. f[at] = op[<<at, f[nx[at]]>>]
        <5> HIDE DEF op, nx, B, b
        <5> QED
          BY <1>4, <3>2 DEF Recurs
      <4>2. f[at] = op[<<at, f[nx[at]]>>] /\ nx[at] = at + 1 /\ f[at + 1] \in Reads
        BY <4>1
      <4>3. op[<<at, f[at + 1]>>] = [f[at + 1] EXCEPT !.value = (d[at + 1] % 128) + 128 * @]
        BY <4>2
      <4>4. ~Ends(at) /\ ~(d[at + 1] < 128)
        BY <3>2
      <4> HIDE DEF op, nx, B
      <4> QED
        BY <4>2, <4>3, <4>4
    <3> QED
      BY <3>1, <3>2
  <2> HIDE DEF B, b, nx, op
  <2>2. f = [at \in Nat |-> f[at]]
    OBVIOUS
  <2> QED
    BY <2>1, <2>2
<1>5. ASSUME NEW f, Is(f) PROVE f \in [Nat -> Reads]
  <2>1. \A at \in Nat : f[at] = IF 7 * (at - i) >= WordBits \/ at >= Len(d)
                       THEN [ok |-> FALSE, value |-> 0, next |-> at]
                       ELSE IF d[at + 1] < 128
                       THEN [ok |-> TRUE, value |-> d[at + 1], next |-> at + 1]
                       ELSE [f[at + 1] EXCEPT !.value = (d[at + 1] % 128) + 128 * @]
    BY <1>5
  <2>2. f = [at \in Nat |-> f[at]]
    BY <1>5
  <2> HIDE DEF Is
  <2> DEFINE P == {at \in Nat : f[at] \in Reads}
  <2>3. ASSUME NEW at \in Nat, \A y \in Nat : mu[y] < mu[at] => y \in P PROVE at \in P
    <3>1. CASE at \in B
      <4>1. f[at] = b[at]
        BY <2>1, <3>1
      <4>2. b[at] \in Reads
        <5>1. CASE Ends(at)
          BY <5>1, <3>1 DEF Reads
        <5>2. CASE ~Ends(at)
          <6>1. b[at] = [ok |-> TRUE, value |-> d[at + 1], next |-> at + 1]
            BY <3>1, <5>2
          <6>2. d[at + 1] \in Nat
            <7>1. ~(at >= Len(d))
              BY <5>2
            <7> HIDE DEF B, b, op, nx, mu, Is, Ends
            <7>2. at < Len(d)
              BY <1>1, <7>1
            <7> QED
              BY <1>1, <7>2
          <6> HIDE DEF b
          <6> QED
            BY <6>1, <6>2 DEF Reads
        <5> QED
          BY <5>1, <5>2
      <4> HIDE DEF b, B
      <4> QED
        BY <4>1, <4>2
    <3>2. CASE at \notin B
      <4>1. at < Len(d) /\ ~Ends(at) /\ ~(d[at + 1] < 128)
        BY <1>1, <3>2
      <4>2. mu[at + 1] < mu[at] /\ at + 1 \in Nat
        BY <1>1, <4>1
      <4>3. f[at + 1] \in Reads
        <5> HIDE DEF mu
        <5> QED
          BY <2>3, <4>2
      <4>4. f[at] = [f[at + 1] EXCEPT !.value = (d[at + 1] % 128) + 128 * @]
        BY <2>1, <4>1
      <4>5. [f[at + 1] EXCEPT !.value = (d[at + 1] % 128) + 128 * @] \in Reads
        BY <1>2, <4>1, <4>3
      <4> QED
        BY <4>4, <4>5
    <3> QED
      BY <3>1, <3>2
  <2>4. Nat \subseteq P
    <3> DEFINE D == Nat
    <3>1. mu \in [D -> Nat]
      BY <1>1
    <3>2. \A x \in D : (\A y \in D : mu[y] < mu[x] => y \in P) => x \in P
      <4> HIDE DEF mu, P
      <4> QED
        BY <2>3
    <3>3. D \subseteq P
      <4> HIDE DEF P, mu, b, nx, op, B, D
      <4> QED
        BY <3>1, <3>2, MeasureInduction
    <3> QED
      BY <3>3
  <2> QED
    BY <2>2, <2>4
<1> DEFINE g == CHOOSE f : Is(f)
<1>6. Varint(d, i) = [g[i] EXCEPT !.value = @ % Word]
  BY DEF Varint
<1>7. Is(g)
  <2> HIDE DEF Is
  <2> QED
    BY <1>3, <1>4
<1>8. g \in [Nat -> Reads]
  <2> HIDE DEF Is, g
  <2> QED
    BY <1>5, <1>7
<1>9. Groups(g, d, i)
  <2> HIDE DEF g
  <2> QED
    BY <1>7 DEF Groups
<1> HIDE DEF g
<1> QED
  BY <1>6, <1>8, <1>9

\* Where the groups of the varint after index i end at the latest.
Over(d, i, at) == 7 * (at - i) >= WordBits \/ at >= Len(d)

\* The three ways of a group: there is none, it is the last, or others follow.
Group(m, d, i, at) ==
  /\ m[at].ok \in BOOLEAN /\ m[at].value \in Nat /\ m[at].next \in Nat
  /\ Over(d, i, at) => ~m[at].ok
  /\ ~Over(d, i, at) /\ d[at + 1] < 128 =>
       m[at].ok /\ m[at].value = d[at + 1] /\ m[at].next = at + 1
  /\ ~Over(d, i, at) /\ ~(d[at + 1] < 128) =>
       /\ m[at].ok = m[at + 1].ok /\ m[at].next = m[at + 1].next
       /\ m[at].value = (d[at + 1] % 128) + 128 * m[at + 1].value

\* Varint starts at the group it is asked for.
LEMMA VarintFields ==
  ASSUME NEW d \in Seq(Byte), NEW i \in Nat
  PROVE  \E m :
           /\ \A at \in Nat : Group(m, d, i, at)
           /\ Varint(d, i) = [ok |-> m[i].ok, value |-> m[i].value % Word, next |-> m[i].next]
<1>1. PICK m \in [Nat -> Reads] :
        Groups(m, d, i) /\ Varint(d, i) = [m[i] EXCEPT !.value = @ % Word]
  BY VarintIs
<1>2. ASSUME NEW at \in Nat PROVE Group(m, d, i, at)
  <2>1. m[at] \in Reads /\ m[at + 1] \in Reads
    BY <1>1
  <2>2. m[at] = IF Over(d, i, at) THEN [ok |-> FALSE, value |-> 0, next |-> at]
                ELSE IF d[at + 1] < 128 THEN [ok |-> TRUE, value |-> d[at + 1], next |-> at + 1]
                ELSE [m[at + 1] EXCEPT !.value = (d[at + 1] % 128) + 128 * @]
    BY <1>1 DEF Groups, Over
  <2> DEFINE l == d[at + 1]
             rest == m[at + 1]
  <2>3. rest \in Reads
    BY <2>1
  <2> HIDE DEF l, rest
  <2>4. m[at] = IF Over(d, i, at) THEN [ok |-> FALSE, value |-> 0, next |-> at]
                ELSE IF l < 128 THEN [ok |-> TRUE, value |-> l, next |-> at + 1]
                ELSE [rest EXCEPT !.value = (l % 128) + 128 * @]
    BY <2>2 DEF l, rest
  <2>5. m[at].ok \in BOOLEAN /\ m[at].value \in Nat /\ m[at].next \in Nat
    BY <2>1 DEF Reads
  <2>6. Over(d, i, at) => ~m[at].ok
    BY <2>4
  <2>7. ~Over(d, i, at) /\ l < 128 => m[at].ok /\ m[at].value = l /\ m[at].next = at + 1
    BY <2>4
  <2>8. ~Over(d, i, at) /\ ~(l < 128) =>
          m[at].ok = rest.ok /\ m[at].next = rest.next /\ m[at].value = (l % 128) + 128 * rest.value
    BY <2>3, <2>4 DEF Reads
  <2> QED
    BY <2>5, <2>6, <2>7, <2>8 DEF Group, l, rest
<1>3. m[i] \in Reads
  BY <1>1
<1>4. Varint(d, i) = [ok |-> m[i].ok, value |-> m[i].value % Word, next |-> m[i].next]
  BY <1>1, <1>3 DEF Reads
<1> QED
  BY <1>2, <1>4

\* A varint of several bytes.
LEMMA EncodeParts ==
  ASSUME NEW q \in Nat, ~(q < 128)
  PROVE  LET r == q \div 128 IN
         /\ r \in Nat /\ r < q /\ q = (q % 128) + 128 * r /\ q % 128 \in 0 .. 127
         /\ Len(encodeVarint[r]) \in Nat \ {0}
         /\ Len(encodeVarint[q]) = 1 + Len(encodeVarint[r])
         /\ encodeVarint[q][1] = 128 + (q % 128)
         /\ \A x \in 1 .. Len(encodeVarint[r]) : encodeVarint[q][x + 1] = encodeVarint[r][x]
<1> DEFINE r == q \div 128
           e == <<128 + (q % 128)>>
<1>1. r \in Nat /\ r < q /\ q = (q % 128) + 128 * r /\ q % 128 \in 0 .. 127
  OBVIOUS
<1>2. encodeVarint[q] = e \o encodeVarint[r]
  BY EncodeIs
<1>3. e \in Seq(Byte) /\ Len(e) = 1 /\ e[1] = 128 + (q % 128)
  <2>1. 128 + (q % 128) \in Byte
    BY <1>1 DEF Byte
  <2> QED
    BY <2>1
<1>4. encodeVarint[r] \in Seq(Byte) /\ Len(encodeVarint[r]) \in Nat \ {0}
  BY <1>1, EncodeIs, SizeOfVarint
<1> HIDE DEF r, e
<1>5. /\ Len(e \o encodeVarint[r]) = Len(e) + Len(encodeVarint[r])
      /\ \A x \in 1 .. Len(e) + Len(encodeVarint[r]) :
           (e \o encodeVarint[r])[x] = IF x <= Len(e) THEN e[x] ELSE encodeVarint[r][x - Len(e)]
  BY <1>3, <1>4, ConcatProperties, SMTT(30)
<1> DEFINE n == Len(encodeVarint[r])
<1>6. n \in Nat \ {0}
  BY <1>4
<1>7. \A x \in 1 .. 1 + n :
        encodeVarint[q][x] = IF x <= 1 THEN e[x] ELSE encodeVarint[r][x - 1]
  BY <1>2, <1>3, <1>5
<1>8. Len(encodeVarint[q]) = 1 + n
  BY <1>2, <1>3, <1>5
<1> HIDE DEF n
<1>9. encodeVarint[q][1] = e[1]
  BY <1>6, <1>7
<1>10. ASSUME NEW x \in 1 .. n PROVE encodeVarint[q][x + 1] = encodeVarint[r][x]
  <2>1. x + 1 \in 1 .. 1 + n /\ ~(x + 1 <= 1) /\ (x + 1) - 1 = x
    BY <1>6
  <2> QED
    BY <1>7, <2>1
<1> QED
  BY <1>1, <1>3, <1>4, <1>8, <1>9, <1>10 DEF r, n

\* What is read is typed, and what ends ends inside d.
LEMMA VarintType ==
  ASSUME NEW d \in Seq(Byte), NEW i \in Nat
  PROVE  /\ Varint(d, i).ok \in BOOLEAN
         /\ Varint(d, i).value \in 0 .. Word - 1
         /\ Varint(d, i).next \in Nat
         /\ Varint(d, i).ok => Varint(d, i).next \in i + 1 .. Len(d)
<1>1. PICK m : /\ \A at \in Nat : Group(m, d, i, at)
               /\ Varint(d, i) = [ok |-> m[i].ok, value |-> m[i].value % Word, next |-> m[i].next]
  BY VarintFields
<1>2. Len(d) \in Nat
  BY LenProperties
<1> DEFINE P == {n \in Nat : \A at \in Nat : at + n = Len(d) /\ m[at].ok
                                               => m[at].next \in at + 1 .. Len(d)}
<1>3. ASSUME NEW n \in Nat, \A k \in Nat : k < n => k \in P PROVE n \in P
  <2> SUFFICES ASSUME NEW at \in Nat, at + n = Len(d), m[at].ok
               PROVE  m[at].next \in at + 1 .. Len(d)
    OBVIOUS
  <2>1. Group(m, d, i, at)
    BY <1>1
  <2>2. ~Over(d, i, at) /\ n # 0
    <3>1. ~Over(d, i, at)
      BY <2>1 DEF Group
    <3> QED
      BY <1>2, <3>1 DEF Over
  <2>3. CASE d[at + 1] < 128
    <3>1. m[at].next = at + 1
      BY <2>1, <2>2, <2>3 DEF Group
    <3> QED
      BY <1>2, <2>2, <3>1
  <2>4. CASE ~(d[at + 1] < 128)
    <3>1. m[at].ok = m[at + 1].ok /\ m[at].next = m[at + 1].next
      BY <2>1, <2>2, <2>4 DEF Group
    <3>2. n - 1 \in Nat /\ n - 1 < n /\ at + 1 \in Nat /\ (at + 1) + (n - 1) = Len(d)
      BY <1>2, <2>2
    <3>3. n - 1 \in P
      BY <1>3, <3>2
    <3>4. m[at + 1].next \in (at + 1) + 1 .. Len(d)
      BY <3>1, <3>2, <3>3
    <3> QED
      BY <1>2, <3>1, <3>4
  <2> QED
    BY <2>3, <2>4
<1>4. Nat \subseteq P
  <2> HIDE DEF P
  <2> QED
    BY <1>3, StrongInduction
<1>5. ASSUME m[i].ok PROVE m[i].next \in i + 1 .. Len(d)
  <2>1. Group(m, d, i, i)
    BY <1>1
  <2>2. i < Len(d)
    <3>1. ~Over(d, i, i)
      BY <1>5, <2>1 DEF Group
    <3> QED
      BY <1>2, <3>1 DEF Over
  <2>3. Len(d) - i \in Nat /\ i + (Len(d) - i) = Len(d)
    BY <1>2, <2>2
  <2> QED
    BY <1>4, <1>5, <2>3
<1>6. m[i].ok \in BOOLEAN /\ m[i].value \in Nat /\ m[i].next \in Nat
  BY <1>1 DEF Group
<1>7. m[i].value % Word \in 0 .. Word - 1
  <2> DEFINE v == m[i].value
             w == Word
  <2>1. v \in Nat /\ w \in Nat /\ w > 0
    BY <1>6, WordIs
  <2> HIDE DEF v, w
  <2>2. v % w \in 0 .. w - 1
    BY <2>1
  <2> QED
    BY <2>2 DEF v, w
<1> HIDE DEF P
<1> QED
  BY <1>1, <1>5, <1>6, <1>7

\* The bytes u are in d, after index k.
Holds(d, k, u) ==
  k \in Nat /\ k + Len(u) <= Len(d) /\ \A x \in 1 .. Len(u) : d[k + x] = u[x]

\* A varint that was written is read.
LEMMA VarintReads ==
  ASSUME NEW d \in Seq(Byte), NEW i \in Nat, NEW v \in 0 .. Word - 1,
         Holds(d, i, encodeVarint[v])
  PROVE  Varint(d, i) = [ok |-> TRUE, value |-> v, next |-> i + Len(encodeVarint[v])]
<1>1. PICK m : /\ \A at \in Nat : Group(m, d, i, at)
               /\ Varint(d, i) = [ok |-> m[i].ok, value |-> m[i].value % Word, next |-> m[i].next]
  BY VarintFields
<1>2. Len(d) \in Nat
  BY LenProperties
<1> DEFINE Comes(q, at) == /\ m[at].ok /\ m[at].value = q
                            /\ m[at].next = at + Len(encodeVarint[q])
           Room(k, q, at) == k = WordBits - 7 * (at - i) /\ k > 0 /\ q < Pow2[k]
           P == {q \in Nat : \A at, k \in Nat :
                   Room(k, q, at) /\ Holds(d, at, encodeVarint[q]) => Comes(q, at)}
<1>3. ASSUME NEW q \in Nat, \A r \in Nat : r < q => r \in P PROVE q \in P
  <2> SUFFICES ASSUME NEW at \in Nat, NEW k \in Nat, Room(k, q, at), Holds(d, at, encodeVarint[q])
               PROVE  Comes(q, at)
    OBVIOUS
  <2>1. Len(encodeVarint[q]) \in Nat \ {0}
    BY SizeOfVarint
  <2>2. d[at + 1] = encodeVarint[q][1] /\ at < Len(d)
    BY <1>2, <2>1 DEF Holds
  <2>3. ~Over(d, i, at)
    <3>1. WordBits \in Nat
      BY WordIs
    <3> QED
      BY <1>2, <2>2, <3>1 DEF Over
  <2>4. Group(m, d, i, at)
    BY <1>1
  <2>5. CASE q < 128
    <3>1. encodeVarint[q] = <<q>>
      BY <2>5, EncodeIs
    <3>2. Len(encodeVarint[q]) = 1 /\ encodeVarint[q][1] = q
      BY <3>1
    <3> QED
      BY <2>2, <2>3, <2>4, <2>5, <3>2 DEF Group
  <2>6. CASE ~(q < 128)
    <3> DEFINE r == q \div 128
    <3>1. /\ r \in Nat /\ r < q /\ q = (q % 128) + 128 * r /\ q % 128 \in 0 .. 127
          /\ Len(encodeVarint[r]) \in Nat \ {0}
          /\ Len(encodeVarint[q]) = 1 + Len(encodeVarint[r])
          /\ encodeVarint[q][1] = 128 + (q % 128)
          /\ \A x \in 1 .. Len(encodeVarint[r]) : encodeVarint[q][x + 1] = encodeVarint[r][x]
      BY <2>6, EncodeParts, ZenonT(60)
    <3> HIDE DEF r
    <3>2. Holds(d, at + 1, encodeVarint[r])
      <4> DEFINE n == Len(encodeVarint[r])
      <4>1. at + (1 + n) <= Len(d) /\ \A x \in 1 .. 1 + n : d[at + x] = encodeVarint[q][x]
        BY <3>1 DEF Holds
      <4>2. n \in Nat
        BY <3>1
      <4> HIDE DEF n
      <4>3. ASSUME NEW x \in 1 .. n PROVE d[(at + 1) + x] = encodeVarint[q][x + 1]
        <5>1. x + 1 \in 1 .. 1 + n /\ at + (x + 1) = (at + 1) + x
          BY <4>2
        <5> QED
          BY <4>1, <5>1
      <4>4. (at + 1) + n <= Len(d) /\ at + 1 \in Nat
        BY <1>2, <4>1, <4>2
      <4>5. \A x \in 1 .. n : d[(at + 1) + x] = encodeVarint[r][x]
        BY <3>1, <4>3 DEF n
      <4> QED
        BY <4>4, <4>5 DEF Holds, n
    <3>3. k > 7 /\ k - 7 \in Nat /\ Pow2[k] = 128 * Pow2[k - 7] /\ Pow2[k - 7] \in Nat
      <4>1. k > 7
        <5>1. k \in 0 .. 7 => Pow2[k] <= 128 /\ Pow2[k] \in Nat
          BY WordIs
        <5>2. q < Pow2[k]
          OBVIOUS
        <5> HIDE DEF Room
        <5> QED
          BY <2>6, <5>1, <5>2
      <4>2. k - 7 \in Nat /\ (k - 7) + 7 = k
        BY <4>1
      <4>3. Pow2[(k - 7) + 7] = 128 * Pow2[k - 7] /\ Pow2[k - 7] \in Nat
        BY <4>2, WordIs
      <4> QED
        BY <4>1, <4>2, <4>3
    <3>4. r < Pow2[k - 7]
      <4> DEFINE p == Pow2[k - 7]
                 x == q % 128
      <4>1. q < 128 * p /\ p \in Nat
        BY <3>3
      <4>2. q = x + 128 * r /\ x \in 0 .. 127
        BY <3>1
      <4>3. r \in Nat
        BY <3>1
      <4> HIDE DEF Room, p, x
      <4>4. r < p
        BY <4>1, <4>2, <4>3
      <4> QED
        BY <4>4 DEF p
    <3>5. Room(k - 7, r, at + 1)
      <4>1. WordBits \in Nat /\ k = WordBits - 7 * (at - i)
        BY WordIs
      <4>2. k - 7 = WordBits - 7 * ((at + 1) - i) /\ k - 7 > 0
        BY <3>3, <4>1
      <4> QED
        BY <3>4, <4>2
    <3>6. Comes(r, at + 1)
      <4>1. r \in P
        BY <1>3, <3>1
      <4>2. k - 7 \in Nat /\ at + 1 \in Nat
        BY <3>3
      <4> HIDE DEF Room, Comes
      <4> QED
        BY <3>2, <3>5, <4>1, <4>2
    <3>7. ~(d[at + 1] < 128) /\ d[at + 1] % 128 = q % 128
      <4> DEFINE x == q % 128
      <4>1. d[at + 1] = 128 + x /\ x \in 0 .. 127
        BY <2>2, <3>1
      <4> HIDE DEF x
      <4>2. ~(128 + x < 128) /\ (128 + x) % 128 = x
        BY <4>1, SMTT(30)
      <4> QED
        BY ONLY <4>1, <4>2 DEF x
    <3>8. /\ m[at].ok = m[at + 1].ok /\ m[at].next = m[at + 1].next
           /\ m[at].value = (d[at + 1] % 128) + 128 * m[at + 1].value
      BY <2>3, <2>4, <3>7 DEF Group
    <3>9. (at + 1) + Len(encodeVarint[r]) = at + (1 + Len(encodeVarint[r]))
      <4> DEFINE n == Len(encodeVarint[r])
      <4>1. n \in Nat
        BY <3>1
      <4> HIDE DEF n
      <4>2. (at + 1) + n = at + (1 + n)
        BY <4>1
      <4> QED
        BY <4>2 DEF n
    <3>10. m[at].ok /\ m[at].next = at + Len(encodeVarint[q])
      BY <3>1, <3>6, <3>8, <3>9, ZenonT(30)
    <3>11. m[at].value = q
      BY <3>1, <3>6, <3>7, <3>8
    <3> QED
      BY <3>10, <3>11
  <2> QED
    BY <2>5, <2>6
<1>4. Nat \subseteq P
  <2> HIDE DEF P
  <2> QED
    BY <1>3, StrongInduction
<1>5. Comes(v, i)
  <2>1. WordBits \in Nat /\ WordBits > 7 /\ v \in Nat /\ v < Pow2[WordBits]
    BY WordIs DEF Word
  <2>2. Room(WordBits, v, i)
    BY <2>1
  <2>3. v \in P
    BY <1>4, <2>1
  <2> HIDE DEF Room, Comes
  <2> QED
    BY <2>1, <2>2, <2>3
<1>6. v % Word = v
  <2>1. \A x, w \in Nat : x < w => x % w = x
    OBVIOUS
  <2>2. v \in Nat /\ Word \in Nat /\ v < Word
    BY WordIs
  <2> QED
    BY <2>1, <2>2
<1>7. m[i].ok = TRUE
  BY <1>1, <1>5 DEF Group
<1> HIDE DEF P
<1> QED
  BY <1>1, <1>5, <1>6, <1>7

\* A varint without its end is none.
LEMMA VarintCut ==
  ASSUME NEW d \in Seq(Byte), NEW i \in 0 .. Len(d), NEW v \in Nat,
         Len(d) < i + Len(encodeVarint[v]),
         \A x \in 1 .. Len(d) - i : d[i + x] = encodeVarint[v][x]
  PROVE  ~Varint(d, i).ok
<1>1. Len(d) \in Nat /\ i \in Nat
  BY LenProperties
<1>2. PICK m : /\ \A at \in Nat : Group(m, d, i, at)
               /\ Varint(d, i) = [ok |-> m[i].ok, value |-> m[i].value % Word, next |-> m[i].next]
  BY <1>1, VarintFields
<1> DEFINE Short(at, q) == /\ Len(d) < at + Len(encodeVarint[q])
                           /\ \A x \in 1 .. Len(d) - at : d[at + x] = encodeVarint[q][x]
           P == {q \in Nat : \A at \in 0 .. Len(d) : Short(at, q) => ~m[at].ok}
<1>3. ASSUME NEW q \in Nat, \A r \in Nat : r < q => r \in P PROVE q \in P
  <2> SUFFICES ASSUME NEW at \in 0 .. Len(d), Short(at, q) PROVE ~m[at].ok
    OBVIOUS
  <2>1. at \in Nat /\ Group(m, d, i, at)
    BY <1>2, <1>1
  <2>2. CASE Over(d, i, at)
    BY <2>1, <2>2 DEF Group
  <2>3. CASE ~Over(d, i, at)
    <3>1. at < Len(d)
      BY <1>1, <2>1, <2>3 DEF Over
    <3>2. d[at + 1] = encodeVarint[q][1]
      <4>1. 1 \in 1 .. Len(d) - at
        BY <1>1, <2>1, <3>1
      <4> QED
        BY <4>1
    <3>3. ~(q < 128)
      <4> SUFFICES ASSUME q < 128 PROVE FALSE
        OBVIOUS
      <4>1. encodeVarint[q] = <<q>>
        BY EncodeIs
      <4>2. Len(encodeVarint[q]) = 1
        BY <4>1
      <4>3. Len(d) < at + 1
        BY <4>2
      <4> QED
        BY <1>1, <2>1, <3>1, <4>3
    <3> DEFINE r == q \div 128
    <3>4. /\ r \in Nat /\ r < q /\ q = (q % 128) + 128 * r /\ q % 128 \in 0 .. 127
          /\ Len(encodeVarint[r]) \in Nat \ {0}
          /\ Len(encodeVarint[q]) = 1 + Len(encodeVarint[r])
          /\ encodeVarint[q][1] = 128 + (q % 128)
          /\ \A x \in 1 .. Len(encodeVarint[r]) : encodeVarint[q][x + 1] = encodeVarint[r][x]
      BY <3>3, EncodeParts, ZenonT(30)
    <3> HIDE DEF r
    <3>5. Short(at + 1, r) /\ at + 1 \in 0 .. Len(d)
      <4> DEFINE n == Len(encodeVarint[r])
                 l == Len(d)
      <4>1. n \in Nat /\ l \in Nat /\ at < l /\ l < at + (1 + n)
        BY <1>1, <2>1, <3>1, <3>4
      <4>2. \A x \in 1 .. l - at : d[at + x] = encodeVarint[q][x]
        OBVIOUS
      <4>3. \A x \in 1 .. n : encodeVarint[q][x + 1] = encodeVarint[r][x]
        BY <3>4
      <4> HIDE DEF n, l, Short
      <4>4. ASSUME NEW x \in 1 .. l - (at + 1) PROVE d[(at + 1) + x] = encodeVarint[r][x]
        <5>1. x + 1 \in 1 .. l - at /\ at + (x + 1) = (at + 1) + x /\ x \in 1 .. n
          BY <2>1, <4>1
        <5>2. d[at + (x + 1)] = encodeVarint[q][x + 1]
          BY <4>2, <5>1
        <5> QED
          BY <4>3, <5>1, <5>2
      <4>5. l < (at + 1) + n /\ at + 1 \in 0 .. l
        BY <2>1, <4>1
      <4> QED
        BY <4>4, <4>5 DEF n, l, Short
    <3>6. ~m[at + 1].ok
      BY <1>3, <3>4, <3>5
    <3>7. ~(d[at + 1] < 128)
      BY <3>2, <3>4
    <3> QED
      BY <2>1, <2>3, <3>6, <3>7 DEF Group
  <2> QED
    BY <2>2, <2>3
<1>4. Nat \subseteq P
  <2> HIDE DEF P
  <2> QED
    BY <1>3, StrongInduction
<1>5. ~m[i].ok
  BY <1>4
<1> HIDE DEF P
<1> QED
  BY <1>2, <1>5

\* A varint that ends is the same wherever its bytes are.
LEMMA VarintSame ==
  ASSUME NEW d \in Seq(Byte), NEW u \in Seq(Byte), NEW k \in Nat, NEW i \in Nat,
         Holds(d, k, u), Varint(u, i).ok
  PROVE  Varint(d, k + i) = [ok |-> TRUE, value |-> Varint(u, i).value, next |-> k + Varint(u, i).next]
<1>1. PICK m : /\ \A at \in Nat : Group(m, u, i, at)
               /\ Varint(u, i) = [ok |-> m[i].ok, value |-> m[i].value % Word, next |-> m[i].next]
  BY VarintFields
<1> DEFINE j == k + i
<1>2. j \in Nat
  OBVIOUS
<1> HIDE DEF j
<1>3. PICK h : /\ \A at \in Nat : Group(h, d, j, at)
               /\ Varint(d, j) = [ok |-> h[j].ok, value |-> h[j].value % Word, next |-> h[j].next]
  BY <1>2, VarintFields
<1>4. Len(d) \in Nat /\ Len(u) \in Nat /\ WordBits \in Nat
  BY LenProperties, WordIs
<1>5. ASSUME NEW at \in Nat, ~Over(u, i, at)
      PROVE  /\ at < Len(u) /\ ~Over(d, j, k + at) /\ d[(k + at) + 1] = u[at + 1]
             /\ Group(h, d, j, k + at)
  <2>1. at < Len(u) /\ ~(7 * (at - i) >= WordBits)
    BY <1>4, <1>5 DEF Over
  <2>2. (k + at) - j = at - i /\ k + at < Len(d)
    BY <1>4, <2>1 DEF Holds, j
  <2>3. ~Over(d, j, k + at)
    BY <1>4, <2>1, <2>2 DEF Over
  <2>4. at + 1 \in 1 .. Len(u) /\ (k + at) + 1 = k + (at + 1)
    BY <1>4, <2>1
  <2>5. d[k + (at + 1)] = u[at + 1]
    BY <2>4 DEF Holds
  <2> QED
    BY <1>3, <2>1, <2>3, <2>4, <2>5
<1> DEFINE Same(at) == h[k + at].ok /\ h[k + at].value = m[at].value /\ h[k + at].next = k + m[at].next
           P == {n \in Nat : \A at \in Nat : at + n = Len(u) /\ m[at].ok => Same(at)}
<1>6. ASSUME NEW n \in Nat, \A l \in Nat : l < n => l \in P PROVE n \in P
  <2> SUFFICES ASSUME NEW at \in Nat, at + n = Len(u), m[at].ok PROVE Same(at)
    OBVIOUS
  <2>1. Group(m, u, i, at)
    BY <1>1
  <2>2. ~Over(u, i, at)
    BY <2>1 DEF Group
  <2>3. /\ at < Len(u) /\ ~Over(d, j, k + at) /\ d[(k + at) + 1] = u[at + 1]
        /\ Group(h, d, j, k + at)
    BY <1>5, <2>2
  <2>4. CASE u[at + 1] < 128
    <3>1. m[at].value = u[at + 1] /\ m[at].next = at + 1
      BY <2>1, <2>2, <2>4 DEF Group
    <3>2. h[k + at].ok /\ h[k + at].value = u[at + 1] /\ h[k + at].next = (k + at) + 1
      BY <2>3, <2>4 DEF Group
    <3>3. (k + at) + 1 = k + (at + 1)
      OBVIOUS
    <3> QED
      BY <3>1, <3>2, <3>3
  <2>5. CASE ~(u[at + 1] < 128)
    <3>1. /\ m[at].ok = m[at + 1].ok /\ m[at].next = m[at + 1].next
          /\ m[at].value = (u[at + 1] % 128) + 128 * m[at + 1].value
      BY <2>1, <2>2, <2>5 DEF Group
    <3>2. /\ h[k + at].ok = h[(k + at) + 1].ok /\ h[k + at].next = h[(k + at) + 1].next
          /\ h[k + at].value = (u[at + 1] % 128) + 128 * h[(k + at) + 1].value
      BY <2>3, <2>5 DEF Group
    <3>3. (k + at) + 1 = k + (at + 1) /\ at + 1 \in Nat
      OBVIOUS
    <3>4. n - 1 \in Nat /\ n - 1 < n /\ (at + 1) + (n - 1) = Len(u)
      BY <1>4, <2>3
    <3>5. n - 1 \in P
      BY <1>6, <3>4
    <3>6. m[at + 1].ok
      BY <3>1
    <3>7. Same(at + 1)
      <4> HIDE DEF Same
      <4> QED
        BY <3>3, <3>4, <3>5, <3>6
    <3> QED
      BY <3>1, <3>2, <3>3, <3>7
  <2> QED
    BY <2>4, <2>5
<1>7. Nat \subseteq P
  <2> HIDE DEF P
  <2> QED
    BY <1>6, StrongInduction
<1>8. m[i].ok /\ Group(m, u, i, i)
  BY <1>1
<1>9. ~Over(u, i, i)
  BY <1>8 DEF Group
<1>10. Same(i)
  <2>1. i < Len(u)
    BY <1>5, <1>9
  <2>2. Len(u) - i \in Nat /\ i + (Len(u) - i) = Len(u)
    BY <1>4, <2>1
  <2> HIDE DEF Same
  <2> QED
    BY <1>7, <1>8, <2>2
<1>11. h[j].ok = TRUE
  BY <1>2, <1>3, <1>10 DEF Group, j
<1> HIDE DEF P
<1> QED
  BY <1>1, <1>3, <1>10, <1>11 DEF j

-----------------------------------------------------------------------------
(* Signed numbers and payloads.                                             *)

\* Whatever is shorter than a slice may be is a word.
LEMMA Lengths ==
  /\ MaxLength \in Nat /\ Word \in Nat /\ MaxLength > 0 /\ Word = 2 * MaxLength
  /\ \A n \in Nat : n < MaxLength => n \in 0 .. MaxLength - 1 /\ n \in 0 .. Word - 1
<1>1. MaxLength \in Nat /\ Word \in Nat /\ MaxLength > 0 /\ Word = 2 * MaxLength
  BY WordIs
<1> QED
  BY <1>1

\* A word as an int.
LEMMA SignedIs ==
  /\ \A x \in Int : Signed(x, WordBits) \in Int
  /\ \A x \in 0 .. MaxLength - 1 : Signed(x, WordBits) = x
  /\ \A x \in 0 .. Word - 1 : Signed(x, WordBits) >= 0 => x < MaxLength /\ Signed(x, WordBits) = x
<1> DEFINE w == Word
           h == MaxLength
<1>1. w \in Nat /\ h \in Nat /\ w = 2 * h /\ h > 0
  BY WordIs
<1>2. \A x : Signed(x, WordBits) = IF x % w < h THEN x % w ELSE (x % w) - w
  BY DEF Signed, Word, MaxLength
<1> HIDE DEF w, h
<1>3. \A x \in Int : x % w \in 0 .. w - 1
  BY <1>1
<1>4. \A x \in 0 .. w - 1 : x % w = x
  BY <1>1
<1>5. \A x \in Int : Signed(x, WordBits) \in Int
  BY <1>1, <1>2, <1>3
<1>6. \A x \in 0 .. w - 1 : Signed(x, WordBits) = IF x < h THEN x ELSE x - w
  BY <1>2, <1>4
<1>7. \A x \in 0 .. h - 1 : x \in 0 .. w - 1
  BY <1>1
<1> QED
  BY <1>1, <1>5, <1>6, <1>7 DEF w, h

\* The number of a field of a type here, and the wire type.
LEMMA TagIs ==
  ASSUME NEW n \in 1 .. 4, NEW wire \in {0, 2}
  PROVE  /\ 8 * n + wire \in 0 .. Word - 1 /\ 8 * n + wire < 128
         /\ FieldNum(8 * n + wire) = n /\ WireType(8 * n + wire) = wire
<1>1. (8 * n + wire) \div 8 = n /\ (8 * n + wire) % 8 = wire /\ 8 * n + wire \in 0 .. 127
  OBVIOUS
<1>2. FieldBits - 1 \in Nat /\ FieldBits - 1 >= 3 /\ FieldBits \in Nat /\ WordBits > 7
  BY WidthAssumption
<1>3. \A k \in Nat : Pow2[k] \in Nat \ {0} /\ Pow2[k + 1] = 2 * Pow2[k]
  BY Pow2Is
<1>4. Pow2[FieldBits - 1] >= 8 /\ Pow2[FieldBits] = 2 * Pow2[FieldBits - 1]
  <2> DEFINE k == FieldBits - 4
  <2>1. k \in Nat /\ (k + 1) + 1 = k + 2 /\ (k + 2) + 1 = k + 3 /\ (k + 3) + 1 = k + 4
        /\ k + 3 = FieldBits - 1 /\ k + 4 = FieldBits
    BY <1>2
  <2> HIDE DEF k
  <2>2. Pow2[k + 1] = 2 * Pow2[k] /\ Pow2[k + 2] = 2 * Pow2[k + 1] /\ Pow2[k + 3] = 2 * Pow2[k + 2]
        /\ Pow2[k + 4] = 2 * Pow2[k + 3] /\ Pow2[k] \in Nat \ {0}
    BY <1>3, <2>1
  <2>3. Pow2[k + 3] >= 8
    BY <2>2
  <2> QED
    BY <2>1, <2>2, <2>3
<1>5. FieldNum(8 * n + wire) = n
  <2> DEFINE h == Pow2[FieldBits - 1]
             w == Pow2[FieldBits]
  <2>1. h \in Nat /\ w \in Nat /\ h >= 8 /\ w = 2 * h
    BY <1>2, <1>3, <1>4
  <2>2. FieldNum(8 * n + wire) = IF n % w < h THEN n % w ELSE (n % w) - w
    BY <1>1 DEF FieldNum, Signed
  <2> HIDE DEF h, w
  <2>3. n % w = n
    BY <2>1
  <2> QED
    BY <2>1, <2>2, <2>3
<1>6. Word >= 128
  <2>1. WordBits - 7 \in Nat /\ (WordBits - 7) + 7 = WordBits
    BY WordIs
  <2>2. Pow2[(WordBits - 7) + 7] = 128 * Pow2[WordBits - 7] /\ Pow2[WordBits - 7] \in Nat \ {0}
    BY <2>1, WordIs
  <2> QED
    BY <2>1, <2>2 DEF Word
<1>7. Word \in Nat
  BY WordIs
<1> QED
  BY <1>1, <1>5, <1>6, <1>7 DEF WireType

\* What is announced lies inside.
LEMMA PayloadType ==
  ASSUME NEW d \in Seq(Byte), NEW i \in Nat, Len(d) < MaxLength, Payload(d, i).ok
  PROVE  /\ Payload(d, i).from \in i + 1 .. Len(d)
         /\ Payload(d, i).to \in Payload(d, i).from .. Len(d)
<1> DEFINE len  == Varint(d, i)
           next == len.next
           int  == Signed(len.value, WordBits)
           end  == Signed(next + int, WordBits)
<1>1. /\ Payload(d, i).from = next /\ Payload(d, i).to = end
      /\ len.ok /\ int >= 0 /\ end >= 0 /\ end <= Len(d)
  BY DEF Payload
<1>2. next \in i + 1 .. Len(d) /\ len.value \in 0 .. Word - 1
  BY <1>1, VarintType
<1>3. int \in 0 .. MaxLength - 1
  <2>1. len.value < MaxLength /\ int = len.value
    BY <1>1, <1>2, SignedIs
  <2>2. len.value \in Nat
    BY <1>2, Lengths
  <2> QED
    BY <2>1, <2>2, Lengths
<1>4. Len(d) \in Nat
  BY LenProperties
<1> HIDE DEF next, int
<1>5. next + int \in 0 .. Word - 1
  BY <1>2, <1>3, <1>4, WordIs
<1>6. end = next + int
  BY <1>1, <1>5, SignedIs
<1> HIDE DEF end
<1> QED
  BY <1>1, <1>2, <1>3, <1>4, <1>6

\* A payload that was written is read.
LEMMA PayloadReads ==
  ASSUME NEW d \in Seq(Byte), NEW i \in Nat, Len(d) < MaxLength, NEW n \in Nat,
         Holds(d, i, encodeVarint[n]), i + Len(encodeVarint[n]) + n <= Len(d)
  PROVE  Payload(d, i) = [ok |-> TRUE, from |-> i + Len(encodeVarint[n]),
                          to |-> i + Len(encodeVarint[n]) + n]
<1> DEFINE next == i + Len(encodeVarint[n])
           end  == next + n
<1>1. Len(d) \in Nat /\ next \in Nat
  BY LenProperties, SizeOfVarint
<1> HIDE DEF next
<1>2. n \in 0 .. MaxLength - 1 /\ end \in 0 .. MaxLength - 1 /\ n \in 0 .. Word - 1 /\ end <= Len(d)
  <2>1. end \in Nat /\ end <= Len(d) /\ n <= end
    BY <1>1 DEF next
  <2> HIDE DEF end
  <2>2. end < MaxLength /\ n < MaxLength
    BY <1>1, <2>1, Lengths
  <2> QED
    BY <2>1, <2>2, Lengths
<1>3. Varint(d, i) = [ok |-> TRUE, value |-> n, next |-> next]
  BY <1>2, VarintReads DEF next
<1>4. Signed(n, WordBits) = n /\ Signed(end, WordBits) = end
  BY <1>2, SignedIs
<1>5. Payload(d, i) = [ok |-> TRUE /\ n >= 0 /\ end >= 0 /\ end <= Len(d), from |-> next, to |-> end]
  BY <1>3, <1>4 DEF Payload
<1>6. n >= 0 /\ end >= 0 /\ end <= Len(d)
  BY <1>2
<1> QED
  BY <1>5, <1>6 DEF next

\* A payload without its end is none.
LEMMA PayloadCut ==
  ASSUME NEW d \in Seq(Byte), NEW i \in 0 .. Len(d), NEW n \in Nat,
         i + Len(encodeVarint[n]) + n < MaxLength,
         Len(d) < i + Len(encodeVarint[n]) + n,
         \A x \in 1 .. Len(d) - i : x <= Len(encodeVarint[n]) => d[i + x] = encodeVarint[n][x]
  PROVE  ~Payload(d, i).ok
<1>1. Len(d) \in Nat /\ i \in Nat /\ Len(encodeVarint[n]) \in Nat
  BY LenProperties, SizeOfVarint
<1>2. CASE Len(d) < i + Len(encodeVarint[n])
  <2>1. \A x \in 1 .. Len(d) - i : d[i + x] = encodeVarint[n][x]
    BY <1>1, <1>2
  <2>2. ~Varint(d, i).ok
    BY <1>2, <2>1, VarintCut
  <2> QED
    BY <2>2 DEF Payload
<1>3. CASE ~(Len(d) < i + Len(encodeVarint[n]))
  <2> DEFINE next == i + Len(encodeVarint[n])
             end  == next + n
  <2>1. next \in Nat
    BY <1>1
  <2>2. Holds(d, i, encodeVarint[n])
    BY <1>1, <1>3 DEF Holds
  <2>3. n \in 0 .. MaxLength - 1 /\ end \in 0 .. MaxLength - 1 /\ n \in 0 .. Word - 1
    <3> HIDE DEF next
    <3>1. next + n < MaxLength
      BY DEF next
    <3>2. end \in Nat /\ end < MaxLength /\ n < MaxLength
      BY <2>1, <3>1, Lengths
    <3> QED
      BY <3>2, Lengths
  <2>4. Varint(d, i) = [ok |-> TRUE, value |-> n, next |-> next]
    BY <1>1, <2>2, <2>3, VarintReads
  <2>5. Len(d) < end
    OBVIOUS
  <2> HIDE DEF next
  <2>6. Signed(n, WordBits) = n /\ Signed(end, WordBits) = end
    BY <2>3, SignedIs
  <2>7. Payload(d, i).ok => end <= Len(d)
    <3>1. Payload(d, i).ok =>
            Signed(Varint(d, i).next + Signed(Varint(d, i).value, WordBits), WordBits) <= Len(d)
      BY DEF Payload
    <3>2. Varint(d, i).next = next /\ Varint(d, i).value = n
      BY <2>4
    <3>3. Signed(Varint(d, i).next + Signed(Varint(d, i).value, WordBits), WordBits) = end
      BY <2>6, <3>2
    <3> HIDE DEF end
    <3> QED
      BY <3>1, <3>3
  <2>8. ~(end <= Len(d))
    <3>1. end \in Nat
      BY <2>1
    <3> HIDE DEF end
    <3> QED
      BY <1>1, <2>5, <3>1
  <2> QED
    BY <2>7, <2>8
<1> QED
  BY <1>2, <1>3

-----------------------------------------------------------------------------
(* Skipping.                                                                *)

\* How a field or a group goes on: the item after index i, and the depth then.
ItemAt(d, i) == SkipItem(d, Varint(d, i))

DepthAfter(d, i, depth) ==
  LET type == WireType(Varint(d, i).value) IN
  IF type = 3 THEN depth + 1 ELSE IF type = 4 THEN depth - 1 ELSE depth

\* Where skipping fails, and where it ends.
SkipFails(d, i, depth) ==
  \/ i >= Len(d) \/ ~Varint(d, i).ok
  \/ ~ItemAt(d, i).ok \/ DepthAfter(d, i, depth) < 0 \/ ItemAt(d, i).n < 0

Skipped == {r \in [ok : BOOLEAN, n : Int] : r.ok => r.n >= 0}

\* The equation of skip.
Skips(f, d) ==
  \A i \in Nat, depth \in Nat :
    f[<<i, depth>>] = IF SkipFails(d, i, depth) THEN Error
                      ELSE IF DepthAfter(d, i, depth) = 0 THEN ItemAt(d, i)
                      ELSE f[<<ItemAt(d, i).n, DepthAfter(d, i, depth)>>]

\* An item ends after it started.
LEMMA ItemType ==
  ASSUME NEW d \in Seq(Byte), Len(d) < MaxLength, NEW i \in Nat, Varint(d, i).ok
  PROVE  /\ ItemAt(d, i) \in [ok : BOOLEAN, n : Int]
         /\ ItemAt(d, i).ok /\ ItemAt(d, i).n >= 0 => ItemAt(d, i).n > i
         /\ \A depth \in Nat : DepthAfter(d, i, depth) \in Int
<1> DEFINE tag  == Varint(d, i)
           type == WireType(tag.value)
           len  == Varint(d, tag.next)
           end  == Signed(len.next + len.value, WordBits)
<1>1. tag.next \in i + 1 .. Len(d) /\ tag.next \in Nat /\ Len(d) \in Nat
  BY VarintType, LenProperties
<1>2. /\ len.ok \in BOOLEAN /\ len.value \in 0 .. Word - 1 /\ len.next \in Nat
      /\ len.ok => len.next \in tag.next + 1 .. Len(d)
  BY <1>1, VarintType
<1>3. end \in Int
  <2>1. len.next + len.value \in Int
    BY <1>2, Lengths
  <2> HIDE DEF len
  <2> QED
    BY <2>1, SignedIs
<1>4. ASSUME len.ok, Signed(len.value, WordBits) >= 0, end >= 0 PROVE end > i
  <2>1. len.value < MaxLength /\ len.value \in Nat
    <3> HIDE DEF len
    <3>1. len.value < MaxLength
      BY <1>2, <1>4, SignedIs
    <3> QED
      BY <1>2, <3>1, Lengths
  <2>2. len.next < MaxLength /\ len.next > i /\ len.next \in Nat
    BY <1>1, <1>2, <1>4, Lengths
  <2>3. len.next + len.value \in 0 .. Word - 1
    BY <2>1, <2>2, Lengths
  <2>4. end = len.next + len.value
    BY <1>4, <2>3, SignedIs
  <2> HIDE DEF end, len
  <2> QED
    BY <2>1, <2>2, <2>4
<1>5. ItemAt(d, i) =
        CASE type = 0        -> [ok |-> len.ok, n |-> len.next]
          [] type = 1        -> [ok |-> TRUE, n |-> tag.next + 8]
          [] type = 2        -> [ok |-> len.ok /\ Signed(len.value, WordBits) >= 0, n  |-> end]
          [] type \in {3, 4} -> [ok |-> TRUE, n |-> tag.next]
          [] type = 5        -> [ok |-> TRUE, n |-> tag.next + 4]
          [] OTHER           -> Error
  BY DEF ItemAt, SkipItem
<1> HIDE DEF tag, type, len, end
<1>6. CASE type = 0
  <2>1. ItemAt(d, i) = [ok |-> len.ok, n |-> len.next]
    BY <1>5, <1>6
  <2>2. \A depth \in Nat : DepthAfter(d, i, depth) \in Int
    BY <1>6 DEF DepthAfter, tag, type
  <2> QED
    BY <1>1, <1>2, <2>1, <2>2
<1>7. CASE type = 2
  <2> DEFINE fine == len.ok /\ Signed(len.value, WordBits) >= 0
  <2>1. ItemAt(d, i) = [ok |-> fine, n |-> end]
    BY <1>5, <1>7
  <2>2. \A depth \in Nat : DepthAfter(d, i, depth) \in Int
    BY <1>7 DEF DepthAfter, tag, type
  <2>3. fine \in BOOLEAN
    OBVIOUS
  <2>4. fine /\ end >= 0 => end > i
    BY <1>4
  <2> HIDE DEF fine
  <2> QED
    BY <1>3, <2>1, <2>2, <2>3, <2>4
<1>8. CASE type \in {1, 3, 4, 5}
  <2>1. PICK e \in {0, 4, 8} : ItemAt(d, i) = [ok |-> TRUE, n |-> tag.next + e]
    <3>1. CASE type = 1
      BY <1>5, <3>1
    <3>2. CASE type \in {3, 4}
      <4>1. tag.next + 0 = tag.next
        BY <1>1
      <4>2. ItemAt(d, i) = [ok |-> TRUE, n |-> tag.next]
        BY <1>5, <3>2
      <4> QED
        BY <4>1, <4>2
    <3>3. CASE type = 5
      BY <1>5, <3>3
    <3> QED
      BY <1>8, <3>1, <3>2, <3>3
  <2>2. \A depth \in Nat : DepthAfter(d, i, depth) \in Int
    BY <1>8 DEF DepthAfter, tag, type
  <2>3. tag.next + e \in Int /\ tag.next + e > i
    BY <1>1
  <2> QED
    BY <2>1, <2>2, <2>3
<1>9. CASE type \notin 0 .. 5
  <2>1. ItemAt(d, i) = Error
    BY <1>5, <1>9
  <2>2. \A depth \in Nat : DepthAfter(d, i, depth) \in Int
    BY <1>9 DEF DepthAfter, tag, type
  <2> QED
    BY <2>1, <2>2 DEF Error
<1> QED
  BY <1>6, <1>7, <1>8, <1>9

\* Skipping is defined by its equation.
LEMMA SkipIs ==
  ASSUME NEW d \in Seq(Byte), Len(d) < MaxLength
  PROVE  \E f \in [Nat \X Nat -> Skipped] : Skips(f, d) /\ skip(d) = f[<<0, 0>>]
<1> DEFINE D  == Nat \X Nat
           mu == [p \in D |-> IF p[1] < Len(d) THEN Len(d) - p[1] ELSE 0]
           B  == {p \in D : SkipFails(d, p[1], p[2]) \/ DepthAfter(d, p[1], p[2]) = 0}
           b  == [p \in D |-> IF SkipFails(d, p[1], p[2]) THEN Error ELSE ItemAt(d, p[1])]
           nx == [p \in D |-> <<ItemAt(d, p[1]).n, DepthAfter(d, p[1], p[2])>>]
           op == [q \in D \X Skipped |-> q[2]]
           Is(f) == f = [p \in D |->
                      IF SkipFails(d, p[1], p[2]) THEN Error
                      ELSE IF DepthAfter(d, p[1], p[2]) = 0 THEN ItemAt(d, p[1])
                      ELSE f[<<ItemAt(d, p[1]).n, DepthAfter(d, p[1], p[2])>>]]
<1>1. Len(d) \in Nat
  BY LenProperties
<1>2. ASSUME NEW i \in Nat, NEW depth \in Nat, ~SkipFails(d, i, depth)
      PROVE  /\ ItemAt(d, i) \in Skipped /\ ItemAt(d, i).n \in Nat
             /\ DepthAfter(d, i, depth) \in Nat
             /\ i < Len(d) /\ ItemAt(d, i).n > i
  <2>1. /\ ~(i >= Len(d)) /\ Varint(d, i).ok /\ ItemAt(d, i).ok
        /\ ~(DepthAfter(d, i, depth) < 0) /\ ~(ItemAt(d, i).n < 0)
    BY <1>2 DEF SkipFails
  <2>2. /\ ItemAt(d, i) \in [ok : BOOLEAN, n : Int] /\ DepthAfter(d, i, depth) \in Int
        /\ ItemAt(d, i).ok /\ ItemAt(d, i).n >= 0 => ItemAt(d, i).n > i
    BY <2>1, ItemType
  <2> QED
    BY <1>1, <2>1, <2>2 DEF Skipped
<1>3. Error \in Skipped
  BY DEF Error, Skipped
<1>4. ASSUME NEW p \in D PROVE b[p] \in Skipped
  <2>1. p[1] \in Nat /\ p[2] \in Nat
    OBVIOUS
  <2>2. b[p] = IF SkipFails(d, p[1], p[2]) THEN Error ELSE ItemAt(d, p[1])
    OBVIOUS
  <2> HIDE DEF b
  <2> QED
    BY <1>2, <1>3, <2>1, <2>2
<1>5. ASSUME NEW p \in D \ B PROVE nx[p] \in D /\ mu[nx[p]] < mu[p]
  <2> DEFINE i == p[1]
             n == ItemAt(d, i).n
             e == DepthAfter(d, i, p[2])
  <2>1. i \in Nat /\ p[2] \in Nat /\ ~SkipFails(d, i, p[2]) /\ p \in D
    OBVIOUS
  <2>2. n \in Nat /\ e \in Nat /\ i < Len(d) /\ n > i
    BY <1>2, <2>1
  <2>3. nx[p] = <<n, e>>
    OBVIOUS
  <2> HIDE DEF n, e, i, nx
  <2>4. mu[p] = IF i < Len(d) THEN Len(d) - i ELSE 0
    BY <2>1 DEF i
  <2>5. <<n, e>> \in D /\ mu[<<n, e>>] = IF n < Len(d) THEN Len(d) - n ELSE 0
    BY <2>2
  <2> HIDE DEF mu
  <2> QED
    BY <1>1, <2>1, <2>2, <2>3, <2>4, <2>5
<1>6. mu \in [D -> Nat]
  <2>1. ASSUME NEW p \in D PROVE (IF p[1] < Len(d) THEN Len(d) - p[1] ELSE 0) \in Nat
    BY <1>1
  <2> QED
    BY <2>1
<1>7. \E f \in [D -> Skipped] : Recurs(f, D, B, b, nx, op)
  <2>1. \A x \in D \ B, r \in Skipped : op[<<x, r>>] \in Skipped
    OBVIOUS
  <2> HIDE DEF b, nx, op, mu, B, D
  <2> QED
    BY <1>4, <1>5, <1>6, <2>1, RecursionExists
<1>8. ASSUME NEW f, \A p \in D : f[p] = IF p \in B THEN b[p] ELSE f[nx[p]], f = [p \in D |-> f[p]]
      PROVE  Is(f)
  <2>1. ASSUME NEW p \in D
        PROVE  f[p] = IF SkipFails(d, p[1], p[2]) THEN Error
                      ELSE IF DepthAfter(d, p[1], p[2]) = 0 THEN ItemAt(d, p[1])
                      ELSE f[<<ItemAt(d, p[1]).n, DepthAfter(d, p[1], p[2])>>]
    <3>1. p \in B <=> SkipFails(d, p[1], p[2]) \/ DepthAfter(d, p[1], p[2]) = 0
      OBVIOUS
    <3>2. b[p] = IF SkipFails(d, p[1], p[2]) THEN Error ELSE ItemAt(d, p[1])
      OBVIOUS
    <3>3. nx[p] = <<ItemAt(d, p[1]).n, DepthAfter(d, p[1], p[2])>>
      OBVIOUS
    <3>4. f[p] = IF p \in B THEN b[p] ELSE f[nx[p]]
      BY <1>8
    <3> HIDE DEF b, nx, B
    <3> QED
      BY <3>1, <3>2, <3>3, <3>4
  <2> HIDE DEF D, B, b, nx
  <2> QED
    BY <1>8, <2>1
<1>9. ASSUME NEW f, Is(f) PROVE f \in [D -> Skipped] /\ Skips(f, d)
  <2>1. f = [p \in D |-> f[p]]
    BY <1>9
  <2>2. ASSUME NEW p \in D
        PROVE  f[p] = IF SkipFails(d, p[1], p[2]) THEN Error
                      ELSE IF DepthAfter(d, p[1], p[2]) = 0 THEN ItemAt(d, p[1])
                      ELSE f[<<ItemAt(d, p[1]).n, DepthAfter(d, p[1], p[2])>>]
    BY <1>9
  <2>3. Skips(f, d)
    <3> HIDE DEF Is
    <3>1. ASSUME NEW i \in Nat, NEW depth \in Nat
          PROVE  f[<<i, depth>>] = IF SkipFails(d, i, depth) THEN Error
                      ELSE IF DepthAfter(d, i, depth) = 0 THEN ItemAt(d, i)
                      ELSE f[<<ItemAt(d, i).n, DepthAfter(d, i, depth)>>]
      <4> DEFINE p == <<i, depth>>
      <4>1. p \in D /\ p[1] = i /\ p[2] = depth
        OBVIOUS
      <4> HIDE DEF p
      <4>2. f[p] = IF SkipFails(d, p[1], p[2]) THEN Error
                      ELSE IF DepthAfter(d, p[1], p[2]) = 0 THEN ItemAt(d, p[1])
                      ELSE f[<<ItemAt(d, p[1]).n, DepthAfter(d, p[1], p[2])>>]
        BY <2>2, <4>1
      <4> QED
        BY <4>1, <4>2 DEF p
    <3> QED
      BY <3>1 DEF Skips
  <2> DEFINE P == {p \in D : f[p] \in Skipped}
  <2>4. ASSUME NEW x \in D, \A y \in D : mu[y] < mu[x] => y \in P PROVE x \in P
    <3>1. CASE x \in B
      <4>1. f[x] = b[x]
        BY <2>2, <3>1
      <4> HIDE DEF b
      <4> QED
        BY <1>4, <4>1
    <3>2. CASE x \notin B
      <4>1. f[x] = f[nx[x]]
        BY <2>2, <3>2
      <4>2. nx[x] \in D /\ mu[nx[x]] < mu[x]
        <5> HIDE DEF nx, mu, B
        <5> QED
          BY <1>5, <3>2
      <4> HIDE DEF nx, mu
      <4> QED
        BY <2>4, <4>1, <4>2
    <3> QED
      BY <3>1, <3>2
  <2>5. D \subseteq P
    <3> HIDE DEF P, mu, D, B, b, nx, op, Is
    <3> QED
      BY <1>6, <2>4, MeasureInduction
  <2>6. \A p \in D : f[p] \in Skipped
    BY <2>5
  <2> HIDE DEF D, Is, P
  <2> QED
    BY <2>1, <2>3, <2>6
<1> DEFINE Is0(f) == f = [p \in Nat \X Nat |->
          IF p[1] >= Len(d) \/ ~Varint(d, p[1]).ok THEN Error
          ELSE IF ~ItemAt(d, p[1]).ok \/ DepthAfter(d, p[1], p[2]) < 0 \/ ItemAt(d, p[1]).n < 0
          THEN Error
          ELSE IF DepthAfter(d, p[1], p[2]) = 0 THEN ItemAt(d, p[1])
          ELSE f[<<ItemAt(d, p[1]).n, DepthAfter(d, p[1], p[2])>>]]
           g == CHOOSE f : Is0(f)
<1>10. skip(d) = g[<<0, 0>>]
  BY DEF skip, ItemAt, DepthAfter
<1>11. ASSUME NEW f PROVE Is0(f) <=> Is(f)
  BY DEF SkipFails
<1>12. \E f : Is(f)
  <2>1. PICK f \in [D -> Skipped] : Recurs(f, D, B, b, nx, op)
    BY <1>7
  <2>2. f = [p \in D |-> f[p]]
    OBVIOUS
  <2>3. ASSUME NEW p \in D PROVE f[p] = IF p \in B THEN b[p] ELSE f[nx[p]]
    <3>1. CASE p \in B
      <4> HIDE DEF D, B, b, nx, op
      <4> QED
        BY <2>1, <3>1 DEF Recurs
    <3>2. CASE p \notin B
      <4>1. nx[p] \in D
        <5> HIDE DEF D, B, nx, mu
        <5> QED
          BY <1>5, <3>2
      <4>2. f[nx[p]] \in Skipped
        <5> HIDE DEF D, nx
        <5> QED
          BY <4>1
      <4>3. op[<<p, f[nx[p]]>>] = f[nx[p]]
        <5> HIDE DEF D, nx
        <5> QED
          BY <4>2
      <4> HIDE DEF D, B, b, nx, op
      <4> QED
        BY <2>1, <3>2, <4>3 DEF Recurs
    <3> QED
      BY <3>1, <3>2
  <2> HIDE DEF D, B, b, nx, Is
  <2>4. Is(f)
    BY <1>8, <2>2, <2>3
  <2> QED
    BY <2>4
<1> HIDE DEF Is, Is0
<1>13. Is(g)
  BY <1>11, <1>12
<1> HIDE DEF g
<1> QED
  BY <1>9, <1>10, <1>13

\* What is skipped ends at an index.
LEMMA SkipType ==
  ASSUME NEW d \in Seq(Byte), Len(d) < MaxLength, skip(d).ok
  PROVE  skip(d).n \in Nat
<1>1. PICK f \in [Nat \X Nat -> Skipped] : Skips(f, d) /\ skip(d) = f[<<0, 0>>]
  BY SkipIs
<1>2. skip(d) \in Skipped
  BY <1>1
<1> QED
  BY <1>2 DEF Skipped

\* An item that ends is the same wherever its bytes are.
LEMMA ItemSame ==
  ASSUME NEW d \in Seq(Byte), NEW u \in Seq(Byte), Holds(d, 0, u), NEW i \in Nat,
         Varint(u, i).ok, ItemAt(u, i).ok
  PROVE  Varint(d, i) = Varint(u, i) /\ ItemAt(d, i) = ItemAt(u, i)
<1>1. ASSUME NEW j \in Nat, Varint(u, j).ok PROVE Varint(d, j) = Varint(u, j)
  <2>1. Varint(d, 0 + j) = [ok |-> TRUE, value |-> Varint(u, j).value, next |-> 0 + Varint(u, j).next]
    BY <1>1, VarintSame
  <2>2. 0 + j = j /\ 0 + Varint(u, j).next = Varint(u, j).next
    BY VarintType
  <2>3. PICK m : Varint(u, j) = [ok |-> m[j].ok, value |-> m[j].value % Word, next |-> m[j].next]
    BY VarintFields
  <2>4. Varint(u, j).ok = TRUE
    BY <1>1, VarintType
  <2> DEFINE a == m[j].ok
             b == m[j].value % Word
             c == m[j].next
  <2>5. Varint(u, j) = [ok |-> a, value |-> b, next |-> c]
    BY <2>3
  <2>6. Varint(d, j) = [ok |-> TRUE, value |-> Varint(u, j).value, next |-> Varint(u, j).next]
    BY <2>1, <2>2
  <2> HIDE DEF a, b, c
  <2> QED
    BY <2>4, <2>5, <2>6
<1> DEFINE tag  == Varint(u, i)
           type == WireType(tag.value)
<1>2. Varint(d, i) = tag /\ tag.next \in Nat
  BY <1>1, VarintType
<1>3. CASE type \in {0, 2}
  <2>1. Varint(u, tag.next).ok
    <3>1. CASE type = 0
      BY <3>1 DEF ItemAt, SkipItem
    <3>2. CASE type = 2
      <4> DEFINE len  == Varint(u, tag.next)
                 fine == len.ok /\ Signed(len.value, WordBits) >= 0
                 end  == Signed(len.next + len.value, WordBits)
      <4>1. ItemAt(u, i) = [ok |-> fine, n |-> end]
        BY <3>2 DEF ItemAt, SkipItem
      <4>2. fine => len.ok
        OBVIOUS
      <4> HIDE DEF fine, end, len
      <4>3. fine
        BY <4>1
      <4> QED
        BY <4>2, <4>3 DEF len
    <3> QED
      BY <1>3, <3>1, <3>2
  <2>2. Varint(d, tag.next) = Varint(u, tag.next)
    BY <1>1, <1>2, <2>1
  <2> QED
    BY <1>2, <2>2 DEF ItemAt, SkipItem
<1>4. CASE type \notin {0, 2}
  <2> HIDE DEF tag, type
  <2>1. ItemAt(u, i) = CASE type = 1   -> [ok |-> TRUE, n |-> tag.next + 8]
          [] type \in {3, 4} -> [ok |-> TRUE, n |-> tag.next]
          [] type = 5        -> [ok |-> TRUE, n |-> tag.next + 4]
          [] OTHER           -> Error
    BY <1>4 DEF ItemAt, SkipItem, tag, type
  <2>2. ItemAt(d, i) = CASE type = 1   -> [ok |-> TRUE, n |-> tag.next + 8]
          [] type \in {3, 4} -> [ok |-> TRUE, n |-> tag.next]
          [] type = 5        -> [ok |-> TRUE, n |-> tag.next + 4]
          [] OTHER           -> Error
    BY <1>2, <1>4 DEF ItemAt, SkipItem, type
  <2> QED
    BY <1>2, <2>1, <2>2 DEF tag
<1> QED
  BY <1>3, <1>4

\* What can be skipped is skipped whatever follows it.
LEMMA SkipSame ==
  ASSUME NEW d \in Seq(Byte), NEW u \in Seq(Byte), Len(d) < MaxLength, Holds(d, 0, u), skip(u).ok
  PROVE  skip(d) = skip(u)
<1>1. Len(d) \in Nat /\ Len(u) \in Nat /\ Len(u) <= Len(d) /\ Len(u) < MaxLength
  <2>1. Len(d) \in Nat /\ Len(u) \in Nat
    BY LenProperties
  <2>2. Len(u) <= Len(d)
    BY <2>1 DEF Holds
  <2> QED
    BY <2>1, <2>2, Lengths
<1>2. PICK f \in [Nat \X Nat -> Skipped] : Skips(f, u) /\ skip(u) = f[<<0, 0>>]
  BY <1>1, SkipIs
<1>3. PICK h \in [Nat \X Nat -> Skipped] : Skips(h, d) /\ skip(d) = h[<<0, 0>>]
  BY SkipIs
<1> DEFINE P == {n \in Nat : \A i, depth \in Nat : (i >= Len(u) \/ i + n = Len(u)) /\ f[<<i, depth>>].ok
                               => h[<<i, depth>>] = f[<<i, depth>>]}
<1>4. ASSUME NEW n \in Nat, \A k \in Nat : k < n => k \in P PROVE n \in P
  <2> SUFFICES ASSUME NEW i \in Nat, NEW depth \in Nat, i >= Len(u) \/ i + n = Len(u),
                      f[<<i, depth>>].ok
               PROVE  h[<<i, depth>>] = f[<<i, depth>>]
    OBVIOUS
  <2>1. f[<<i, depth>>] = IF SkipFails(u, i, depth) THEN Error
                          ELSE IF DepthAfter(u, i, depth) = 0 THEN ItemAt(u, i)
                          ELSE f[<<ItemAt(u, i).n, DepthAfter(u, i, depth)>>]
    BY <1>2 DEF Skips
  <2>2. ~SkipFails(u, i, depth)
    BY <2>1 DEF Error
  <2>3. /\ i < Len(u) /\ Varint(u, i).ok /\ ItemAt(u, i).ok
        /\ ~(DepthAfter(u, i, depth) < 0) /\ ~(ItemAt(u, i).n < 0)
    BY <1>1, <2>2 DEF SkipFails
  <2>4. /\ ItemAt(u, i).n \in Int /\ DepthAfter(u, i, depth) \in Int
        /\ ItemAt(u, i).n >= 0 => ItemAt(u, i).n > i
    BY <1>1, <2>3, ItemType
  <2>5. Varint(d, i) = Varint(u, i) /\ ItemAt(d, i) = ItemAt(u, i)
    BY <2>3, ItemSame
  <2>6. DepthAfter(d, i, depth) = DepthAfter(u, i, depth)
    BY <2>5 DEF DepthAfter
  <2>7. ~SkipFails(d, i, depth)
    BY <1>1, <2>3, <2>5, <2>6 DEF SkipFails
  <2>8. h[<<i, depth>>] = IF DepthAfter(u, i, depth) = 0 THEN ItemAt(u, i)
                          ELSE h[<<ItemAt(u, i).n, DepthAfter(u, i, depth)>>]
    BY <1>3, <2>5, <2>6, <2>7 DEF Skips
  <2>9. CASE DepthAfter(u, i, depth) = 0
    BY <2>1, <2>2, <2>8, <2>9
  <2>10. CASE DepthAfter(u, i, depth) # 0
    <3> DEFINE k == ItemAt(u, i).n
               e == DepthAfter(u, i, depth)
    <3>1. k \in Nat /\ e \in Nat /\ k > i
      BY <2>3, <2>4
    <3>2. f[<<i, depth>>] = f[<<k, e>>] /\ h[<<i, depth>>] = h[<<k, e>>]
      BY <2>1, <2>2, <2>8, <2>10
    <3> HIDE DEF k, e
    <3>3. f[<<k, e>>].ok
      BY <3>2
    <3>4. PICK l \in Nat : l < n /\ (k >= Len(u) \/ k + l = Len(u))
      <4>1. i + n = Len(u) /\ n > 0
        BY <1>1, <2>3
      <4>2. CASE k >= Len(u)
        BY <4>1, <4>2
      <4>3. CASE ~(k >= Len(u))
        <5>1. Len(u) - k \in Nat /\ Len(u) - k < n /\ k + (Len(u) - k) = Len(u)
          BY <1>1, <3>1, <4>1, <4>3
        <5> QED
          BY <5>1
      <4> QED
        BY <4>2, <4>3
    <3>5. l \in P
      BY <1>4, <3>4
    <3>6. h[<<k, e>>] = f[<<k, e>>]
      BY <3>1, <3>3, <3>4, <3>5
    <3> QED
      BY <3>2, <3>6
  <2> QED
    BY <2>9, <2>10
<1>5. Nat \subseteq P
  <2> HIDE DEF P
  <2> QED
    BY <1>4, StrongInduction
<1>6. h[<<0, 0>>] = f[<<0, 0>>]
  <2>1. Len(u) \in P /\ 0 + Len(u) = Len(u)
    <3> HIDE DEF P
    <3> QED
      BY <1>1, <1>5
  <2>2. f[<<0, 0>>].ok
    BY <1>2
  <2> QED
    BY <2>1, <2>2
<1> QED
  BY <1>2, <1>3, <1>6

-----------------------------------------------------------------------------
(* The types, field by field.                                               *)

\* The values of a type: its fields hold any bytes, numbers or values of their types.
CoinValues                   == [denom : Seq(Byte), amount : Seq(Byte)]
MetadataValues               == [base : Seq(Byte), display : Seq(Byte)]
DenomAuthorityMetadataValues == [admin : Seq(Byte)]
ParamsAll == [denomCreationFee : Seq(CoinValues), denomCreationGasConsume : 0 .. Word - 1]
GenesisDenomValues == [denom : Seq(Byte), authorityMetadata : DenomAuthorityMetadataValues]

Values ==
  [Coin |-> CoinValues, Metadata |-> MetadataValues,
   DenomAuthorityMetadata |-> DenomAuthorityMetadataValues, Params |-> ParamsAll,
   GenesisDenom |-> GenesisDenomValues,
   GenesisState |-> [params : ParamsAll, factoryDenoms : Seq(GenesisDenomValues)],
   MsgCreateDenom |-> [sender : Seq(Byte), subdenom : Seq(Byte)],
   MsgCreateDenomResponse |-> [newTokenDenom : Seq(Byte)],
   MsgMint |-> [sender : Seq(Byte), amount : CoinValues, mintToAddress : Seq(Byte)],
   MsgMintResponse |-> {Nothing},
   MsgBurn |-> [sender : Seq(Byte), amount : CoinValues, burnFromAddress : Seq(Byte)],
   MsgBurnResponse |-> {Nothing},
   MsgChangeAdmin |-> [sender : Seq(Byte), denom : Seq(Byte), newAdmin : Seq(Byte)],
   MsgChangeAdminResponse |-> {Nothing},
   MsgSetDenomMetadata |-> [sender : Seq(Byte), metadata : MetadataValues],
   MsgSetDenomMetadataResponse |-> {Nothing},
   MsgForceTransfer |-> [sender : Seq(Byte), amount : CoinValues, transferFromAddress : Seq(Byte),
                         transferToAddress : Seq(Byte)],
   MsgForceTransferResponse |-> {Nothing},
   QueryParamsRequest |-> {Nothing}, QueryParamsResponse |-> [params : ParamsAll],
   QueryDenomAuthorityMetadataRequest |-> [denom : Seq(Byte)],
   QueryDenomAuthorityMetadataResponse |-> [authorityMetadata : DenomAuthorityMetadataValues],
   QueryDenomsFromCreatorRequest |-> [creator : Seq(Byte)],
   QueryDenomsFromCreatorResponse |-> [denoms : Seq(Seq(Byte))]]

\* What Marshal writes of a value of a type, and what its Size is.
Marshal(T, w) ==
  CASE T = "Coin"                   -> MarshalCoin(w)
    [] T = "Metadata"               -> MarshalMetadata(w)
    [] T = "DenomAuthorityMetadata" -> MarshalDenomAuthorityMetadata(w)
    [] T = "Params"                 -> MarshalParams(w)
    [] T = "GenesisDenom"           -> MarshalGenesisDenom(w)
    [] T = "GenesisState"           -> MarshalGenesisState(w)
    [] T = "MsgCreateDenom"         -> MarshalMsgCreateDenom(w)
    [] T = "MsgCreateDenomResponse" -> MarshalMsgCreateDenomResponse(w)
    [] T = "MsgMint"                -> MarshalMsgMint(w)
    [] T = "MsgBurn"                -> MarshalMsgBurn(w)
    [] T = "MsgChangeAdmin"         -> MarshalMsgChangeAdmin(w)
    [] T = "MsgSetDenomMetadata"    -> MarshalMsgSetDenomMetadata(w)
    [] T = "MsgForceTransfer"       -> MarshalMsgForceTransfer(w)
    [] T = "QueryParamsResponse"    -> MarshalQueryParamsResponse(w)
    [] T = "QueryDenomAuthorityMetadataRequest"  -> MarshalQueryDenomAuthorityMetadataRequest(w)
    [] T = "QueryDenomAuthorityMetadataResponse" -> MarshalQueryDenomAuthorityMetadataResponse(w)
    [] T = "QueryDenomsFromCreatorRequest"       -> MarshalQueryDenomsFromCreatorRequest(w)
    [] T = "QueryDenomsFromCreatorResponse"      -> MarshalQueryDenomsFromCreatorResponse(w)
    [] OTHER -> MarshalNothing

SizeOf(T, w) ==
  CASE T = "Coin"                   -> SizeCoin(w)
    [] T = "Metadata"               -> SizeMetadata(w)
    [] T = "DenomAuthorityMetadata" -> SizeDenomAuthorityMetadata(w)
    [] T = "Params"                 -> SizeParams(w)
    [] T = "GenesisDenom"           -> SizeGenesisDenom(w)
    [] T = "GenesisState"           -> SizeGenesisState(w)
    [] T = "MsgCreateDenom"         -> SizeMsgCreateDenom(w)
    [] T = "MsgCreateDenomResponse" -> SizeMsgCreateDenomResponse(w)
    [] T = "MsgMint"                -> SizeMsgMint(w)
    [] T = "MsgBurn"                -> SizeMsgBurn(w)
    [] T = "MsgChangeAdmin"         -> SizeMsgChangeAdmin(w)
    [] T = "MsgSetDenomMetadata"    -> SizeMsgSetDenomMetadata(w)
    [] T = "MsgForceTransfer"       -> SizeMsgForceTransfer(w)
    [] T = "QueryParamsResponse"    -> SizeQueryParamsResponse(w)
    [] T = "QueryDenomAuthorityMetadataRequest"  -> SizeQueryDenomAuthorityMetadataRequest(w)
    [] T = "QueryDenomAuthorityMetadataResponse" -> SizeQueryDenomAuthorityMetadataResponse(w)
    [] T = "QueryDenomsFromCreatorRequest"       -> SizeQueryDenomsFromCreatorRequest(w)
    [] T = "QueryDenomsFromCreatorResponse"      -> SizeQueryDenomsFromCreatorResponse(w)
    [] OTHER -> SizeNothing

\* A coin's amount is always written; other strings are left out when they are
\* empty, and numbers when they are zero.
LeftOut(T, n, x) ==
  LET c == Cases[T][n] IN
  \/ c.kind = "text" /\ x = <<>> /\ ~(T = "Coin" /\ n = 2)
  \/ c.kind = "number" /\ x = 0

\* What is written of a field that holds x, one payload after the other.
Payloads(T, n, x) ==
  LET c == Cases[T][n] IN
  CASE LeftOut(T, n, x)     -> <<>>
    [] c.kind = "message"   -> <<Marshal(c.type, x)>>
    [] c.kind = "texts"     -> x
    [] c.kind = "messages"  -> [i \in DOMAIN x |-> Marshal(c.type, x[i])]
    [] OTHER                -> <<x>>

\* A payload with its tag, and with its length unless it is a number.
Piece(T, n, p) ==
  IF Cases[T][n].kind = "number" THEN <<8 * n>> \o encodeVarint[p] ELSE Field(8 * n + 2, p)

Pieces(T, n, x) == [i \in DOMAIN Payloads(T, n, x) |-> Piece(T, n, Payloads(T, n, x)[i])]

\* What is written of one field, and of all.
FieldBytes(T, n, w) ==
  IF n \in DOMAIN Cases[T] THEN FlattenSeq(Pieces(T, n, w[Cases[T][n].name])) ELSE <<>>

Row(a, b, c, d) == a \o (b \o (c \o d))

BytesOf(T, w) ==
  Row(FieldBytes(T, 1, w), FieldBytes(T, 2, w), FieldBytes(T, 3, w), FieldBytes(T, 4, w))

\* What the field that a case sets may hold, and its zero value.
FieldSet(c) ==
  CASE c.kind = "text"    -> Seq(Byte)
    [] c.kind = "number"  -> 0 .. Word - 1
    [] c.kind = "message" -> Values[c.type]
    [] c.kind = "texts"   -> Seq(Seq(Byte))
    [] OTHER              -> Seq(Values[c.type])

ZeroOf(c) ==
  CASE c.kind = "number"  -> 0
    [] c.kind = "message" -> Types[c.type]
    [] OTHER              -> <<>>

\* How deep the messages of a type may be embedded.
Level(T) ==
  CASE T \in {"Coin", "Metadata", "DenomAuthorityMetadata"} -> 0
    [] T \in {"Params", "GenesisDenom"} -> 1
    [] OTHER -> 2

\* A type without embedded messages.
Flat(T) == \A n \in DOMAIN Cases[T] : Cases[T][n].kind # "message"

\* A case says what it is: its wire type, its type, the field it sets and the
\* zero value of that.
FieldShape(T, n) ==
  LET c == Cases[T][n] IN
  /\ c.kind \in {"text", "number", "message", "texts", "messages"}
  /\ c.wire = IF c.kind = "number" THEN 0 ELSE 2
  /\ c.kind \in {"message", "messages"} => c.type \in DOMAIN Types /\ Level(c.type) < Level(T)
  /\ c.kind = "message" => Flat(c.type)
  /\ c.name \in DOMAIN Types[T]
  /\ ~(T = "Coin" /\ n = 2) => Types[T][c.name] = ZeroOf(c)
  /\ T = "Coin" /\ n = 2 => c.kind = "text"
  /\ \A w \in Values[T] :
       /\ w[c.name] \in FieldSet(c)
       /\ \A x \in FieldSet(c) : [w EXCEPT ![c.name] = x] \in Values[T]

\* So do all cases of a type, and no two set the same field.
Shape(T) ==
  /\ DOMAIN Cases[T] \subseteq 1 .. 4
  /\ \A n \in DOMAIN Cases[T] : FieldShape(T, n)
  /\ \A n, k \in DOMAIN Cases[T] : Cases[T][n].name = Cases[T][k].name => n = k
  /\ Types[T] \in Values[T]
  /\ \A w \in Values[T] : w = [f \in DOMAIN Types[T] |-> w[f]]
  /\ \/ /\ DOMAIN Types[T] = {Cases[T][n].name : n \in DOMAIN Cases[T]}
        /\ "none" \notin DOMAIN Types[T]
     \/ DOMAIN Cases[T] = {} /\ Values[T] = {Nothing}

\* The five kinds of cases.
LEMMA TextShape ==
  ASSUME NEW T, NEW n, NEW name, Cases[T][n] = Str(name), name \in DOMAIN Types[T],
         ~(T = "Coin" /\ n = 2) => Types[T][name] = <<>>,
         \A w \in Values[T] : /\ w[name] \in Seq(Byte)
                              /\ \A x \in Seq(Byte) : [w EXCEPT ![name] = x] \in Values[T]
  PROVE  FieldShape(T, n)
<1> DEFINE c == Cases[T][n]
<1>1. c.kind = "text" /\ c.name = name /\ c.wire = 2
  BY DEF Str
<1>2. FieldSet(c) = Seq(Byte) /\ ZeroOf(c) = <<>>
  BY <1>1 DEF FieldSet, ZeroOf
<1> HIDE DEF c
<1> QED
  BY <1>1, <1>2 DEF FieldShape, c

\* A list of strings may be any list of strings, and is empty at first.
LEMMA TextsShape ==
  ASSUME NEW T, NEW n, NEW name, Cases[T][n] = Strs(name), name \in DOMAIN Types[T], T # "Coin",
         Types[T][name] = <<>>,
         \A w \in Values[T] : /\ w[name] \in Seq(Seq(Byte))
                              /\ \A x \in Seq(Seq(Byte)) : [w EXCEPT ![name] = x] \in Values[T]
  PROVE  FieldShape(T, n)
<1> DEFINE c == Cases[T][n]
<1>1. c.kind = "texts" /\ c.name = name /\ c.wire = 2
  BY DEF Strs
<1>2. FieldSet(c) = Seq(Seq(Byte)) /\ ZeroOf(c) = <<>>
  BY <1>1 DEF FieldSet, ZeroOf
<1> HIDE DEF c
<1> QED
  BY <1>1, <1>2 DEF FieldShape, c

\* A number may be any word, and is zero at first.
LEMMA NumberShape ==
  ASSUME NEW T, NEW n, NEW name, Cases[T][n] = Uint(name), name \in DOMAIN Types[T], T # "Coin",
         Types[T][name] = 0,
         \A w \in Values[T] : /\ w[name] \in 0 .. Word - 1
                              /\ \A x \in 0 .. Word - 1 : [w EXCEPT ![name] = x] \in Values[T]
  PROVE  FieldShape(T, n)
<1> DEFINE c == Cases[T][n]
<1>1. c.kind = "number" /\ c.name = name /\ c.wire = 0
  BY DEF Uint
<1>2. FieldSet(c) = 0 .. Word - 1 /\ ZeroOf(c) = 0
  BY <1>1 DEF FieldSet, ZeroOf
<1> HIDE DEF c
<1> QED
  BY <1>1, <1>2 DEF FieldShape, c

\* An embedded message may be any value of a simpler type, and is that type's
\* zero value at first.
LEMMA MessageShape ==
  ASSUME NEW T, NEW n, NEW name, NEW U \in DOMAIN Types,
         Cases[T][n] = Embedded(name, U), name \in DOMAIN Types[T], T # "Coin",
         Level(U) < Level(T), Flat(U), Types[T][name] = Types[U],
         \A w \in Values[T] : /\ w[name] \in Values[U]
                              /\ \A x \in Values[U] : [w EXCEPT ![name] = x] \in Values[T]
  PROVE  FieldShape(T, n)
<1> DEFINE c == Cases[T][n]
<1>1. c.kind = "message" /\ c.name = name /\ c.wire = 2 /\ c.type = U
  BY DEF Embedded
<1>2. FieldSet(c) = Values[U] /\ ZeroOf(c) = Types[U]
  BY <1>1 DEF FieldSet, ZeroOf
<1> HIDE DEF c
<1> QED
  BY <1>1, <1>2 DEF FieldShape, c

\* A list of messages may be any list of values of a simpler type, and is empty
\* at first.
LEMMA MessagesShape ==
  ASSUME NEW T, NEW n, NEW name, NEW U \in DOMAIN Types,
         Cases[T][n] = Repeated(name, U), name \in DOMAIN Types[T], T # "Coin",
         Level(U) < Level(T), Types[T][name] = <<>>,
         \A w \in Values[T] : /\ w[name] \in Seq(Values[U])
                              /\ \A x \in Seq(Values[U]) : [w EXCEPT ![name] = x] \in Values[T]
  PROVE  FieldShape(T, n)
<1> DEFINE c == Cases[T][n]
<1>1. c.kind = "messages" /\ c.name = name /\ c.wire = 2 /\ c.type = U
  BY DEF Repeated
<1>2. FieldSet(c) = Seq(Values[U]) /\ ZeroOf(c) = <<>>
  BY <1>1 DEF FieldSet, ZeroOf
<1> HIDE DEF c
<1> QED
  BY <1>1, <1>2 DEF FieldShape, c

\* The fields of Coin.
LEMMA CoinIs ==
  /\ DOMAIN Cases["Coin"] = {1, 2}
  /\ Cases["Coin"][1] = Str("denom")
  /\ Cases["Coin"][2] = Str("amount")
  /\ Types["Coin"] = Coin /\ Values["Coin"] = CoinValues
<1>1. /\ DOMAIN Cases["Coin"] = {1, 2}
      /\ Cases["Coin"][1] = Str("denom")
      /\ Cases["Coin"][2] = Str("amount")
  BY DEF Cases, CoinCases
<1>2. Types["Coin"] = Coin /\ Values["Coin"] = CoinValues
  BY DEF Types, Values
<1> QED
  BY <1>1, <1>2

\* Its values are what its fields may hold.
LEMMA ShapeCoin == Shape("Coin")
<1> DEFINE T == "Coin"
<1>1. /\ DOMAIN Cases[T] = {1, 2}
      /\ Cases[T][1] = Str("denom")
      /\ Cases[T][2] = Str("amount")
  BY CoinIs
<1>2. Types[T] = Coin /\ Values[T] = CoinValues
  BY CoinIs
<1>3. FieldShape(T, 1)
  <2>1. \A w \in Values[T] : /\ w["denom"] \in Seq(Byte)
                              /\ \A x \in Seq(Byte) : [w EXCEPT !["denom"] = x] \in Values[T]
    BY <1>2 DEF CoinValues
  <2>2. "denom" \in DOMAIN Types[T] /\ Types[T]["denom"] = <<>>
    BY <1>2 DEF Coin
  <2> QED
    BY <1>1, <2>1, <2>2, TextShape
<1>4. FieldShape(T, 2)
  <2>1. \A w \in Values[T] : /\ w["amount"] \in Seq(Byte)
                              /\ \A x \in Seq(Byte) : [w EXCEPT !["amount"] = x] \in Values[T]
    BY <1>2 DEF CoinValues
  <2>2. "amount" \in DOMAIN Types[T]
    BY <1>2 DEF Coin
  <2> QED
    BY <1>1, <2>1, <2>2, TextShape
<1>5. Types[T] \in Values[T] /\ \A w \in Values[T] : w = [f \in DOMAIN Types[T] |-> w[f]]
  BY <1>2 DEF Byte, Coin, CoinValues, Zero
<1>6. /\ \A n, k \in DOMAIN Cases[T] : Cases[T][n].name = Cases[T][k].name => n = k
      /\ DOMAIN Types[T] = {Cases[T][n].name : n \in DOMAIN Cases[T]}
      /\ "none" \notin DOMAIN Types[T]
  BY <1>1, <1>2 DEF Coin, Str
<1> HIDE DEF T
<1>7. DOMAIN Cases[T] \subseteq 1 .. 4
  BY <1>1
<1>8. \A n \in DOMAIN Cases[T] : FieldShape(T, n)
  BY <1>1, <1>3, <1>4
<1>9. Shape(T)
  BY <1>5, <1>6, <1>7, <1>8 DEF Shape
<1> QED
  BY <1>9 DEF T

\* The fields of Metadata.
LEMMA MetadataIs ==
  /\ DOMAIN Cases["Metadata"] = {3, 4}
  /\ Cases["Metadata"][3] = Str("base")
  /\ Cases["Metadata"][4] = Str("display")
  /\ Types["Metadata"] = Metadata /\ Values["Metadata"] = MetadataValues
<1>1. /\ DOMAIN Cases["Metadata"] = {3, 4}
      /\ Cases["Metadata"][3] = Str("base")
      /\ Cases["Metadata"][4] = Str("display")
  BY DEF Cases, MetadataCases
<1>2. Types["Metadata"] = Metadata /\ Values["Metadata"] = MetadataValues
  BY DEF Types, Values
<1> QED
  BY <1>1, <1>2

\* Its values are what its fields may hold.
LEMMA ShapeMetadata == Shape("Metadata")
<1> DEFINE T == "Metadata"
<1>1. /\ DOMAIN Cases[T] = {3, 4}
      /\ Cases[T][3] = Str("base")
      /\ Cases[T][4] = Str("display")
  BY MetadataIs
<1>2. Types[T] = Metadata /\ Values[T] = MetadataValues
  BY MetadataIs
<1>3. FieldShape(T, 3)
  <2>1. \A w \in Values[T] : /\ w["base"] \in Seq(Byte)
                              /\ \A x \in Seq(Byte) : [w EXCEPT !["base"] = x] \in Values[T]
    BY <1>2, SMTT(30) DEF MetadataValues
  <2>2. "base" \in DOMAIN Types[T] /\ Types[T]["base"] = <<>>
    BY <1>2 DEF Metadata
  <2> QED
    BY <1>1, <2>1, <2>2, TextShape
<1>4. FieldShape(T, 4)
  <2>1. \A w \in Values[T] : /\ w["display"] \in Seq(Byte)
                              /\ \A x \in Seq(Byte) : [w EXCEPT !["display"] = x] \in Values[T]
    BY <1>2, SMTT(30) DEF MetadataValues
  <2>2. "display" \in DOMAIN Types[T] /\ Types[T]["display"] = <<>>
    BY <1>2 DEF Metadata
  <2> QED
    BY <1>1, <2>1, <2>2, TextShape
<1>5. Types[T] \in Values[T] /\ \A w \in Values[T] : w = [f \in DOMAIN Types[T] |-> w[f]]
  BY <1>2 DEF Metadata, MetadataValues
<1>6. /\ \A n, k \in DOMAIN Cases[T] : Cases[T][n].name = Cases[T][k].name => n = k
      /\ DOMAIN Types[T] = {Cases[T][n].name : n \in DOMAIN Cases[T]}
      /\ "none" \notin DOMAIN Types[T]
  BY <1>1, <1>2 DEF Metadata, Str
<1> HIDE DEF T
<1>7. DOMAIN Cases[T] \subseteq 1 .. 4
  BY <1>1
<1>8. \A n \in DOMAIN Cases[T] : FieldShape(T, n)
  BY <1>1, <1>3, <1>4
<1>9. Shape(T)
  BY <1>5, <1>6, <1>7, <1>8 DEF Shape
<1> QED
  BY <1>9 DEF T

\* The fields of DenomAuthorityMetadata.
LEMMA DenomAuthorityMetadataIs ==
  /\ DOMAIN Cases["DenomAuthorityMetadata"] = {1}
  /\ Cases["DenomAuthorityMetadata"][1] = Str("admin")
  /\ Types["DenomAuthorityMetadata"] = DenomAuthorityMetadata
  /\ Values["DenomAuthorityMetadata"] = DenomAuthorityMetadataValues
<1>1. /\ DOMAIN Cases["DenomAuthorityMetadata"] = {1}
      /\ Cases["DenomAuthorityMetadata"][1] = Str("admin")
  BY DEF Cases, DenomAuthorityMetadataCases
<1>2. /\ Types["DenomAuthorityMetadata"] = DenomAuthorityMetadata
      /\ Values["DenomAuthorityMetadata"] = DenomAuthorityMetadataValues
  BY DEF Types, Values
<1> QED
  BY <1>1, <1>2

\* Its values are what its fields may hold.
LEMMA ShapeDenomAuthorityMetadata == Shape("DenomAuthorityMetadata")
<1> DEFINE T == "DenomAuthorityMetadata"
<1>1. /\ DOMAIN Cases[T] = {1}
      /\ Cases[T][1] = Str("admin")
  BY DenomAuthorityMetadataIs
<1>2. Types[T] = DenomAuthorityMetadata /\ Values[T] = DenomAuthorityMetadataValues
  BY DenomAuthorityMetadataIs
<1>3. FieldShape(T, 1)
  <2>1. \A w \in Values[T] : /\ w["admin"] \in Seq(Byte)
                              /\ \A x \in Seq(Byte) : [w EXCEPT !["admin"] = x] \in Values[T]
    BY <1>2 DEF DenomAuthorityMetadataValues
  <2>2. "admin" \in DOMAIN Types[T] /\ Types[T]["admin"] = <<>>
    BY <1>2 DEF DenomAuthorityMetadata
  <2> QED
    BY <1>1, <2>1, <2>2, TextShape
<1>4. Types[T] \in Values[T] /\ \A w \in Values[T] : w = [f \in DOMAIN Types[T] |-> w[f]]
  BY <1>2 DEF DenomAuthorityMetadata, DenomAuthorityMetadataValues
<1>5. /\ \A n, k \in DOMAIN Cases[T] : Cases[T][n].name = Cases[T][k].name => n = k
      /\ DOMAIN Types[T] = {Cases[T][n].name : n \in DOMAIN Cases[T]}
      /\ "none" \notin DOMAIN Types[T]
  BY <1>1, <1>2 DEF DenomAuthorityMetadata, Str
<1> HIDE DEF T
<1>6. DOMAIN Cases[T] \subseteq 1 .. 4
  BY <1>1
<1>7. \A n \in DOMAIN Cases[T] : FieldShape(T, n)
  BY <1>1, <1>3
<1>8. Shape(T)
  BY <1>4, <1>5, <1>6, <1>7 DEF Shape
<1> QED
  BY <1>8 DEF T

\* The fields of Params.
LEMMA ParamsIs ==
  /\ DOMAIN Cases["Params"] = {1, 2}
  /\ Cases["Params"][1] = Repeated("denomCreationFee", "Coin")
  /\ Cases["Params"][2] = Uint("denomCreationGasConsume")
  /\ Types["Params"] = Params /\ Values["Params"] = ParamsAll
<1>1. /\ DOMAIN Cases["Params"] = {1, 2}
      /\ Cases["Params"][1] = Repeated("denomCreationFee", "Coin")
      /\ Cases["Params"][2] = Uint("denomCreationGasConsume")
  BY DEF Cases, ParamsCases
<1>2. Types["Params"] = Params /\ Values["Params"] = ParamsAll
  BY DEF Types, Values
<1> QED
  BY <1>1, <1>2

\* Its values are what its fields may hold.
LEMMA ShapeParams == Shape("Params")
<1> DEFINE T == "Params"
<1>1. /\ DOMAIN Cases[T] = {1, 2}
      /\ Cases[T][1] = Repeated("denomCreationFee", "Coin")
      /\ Cases[T][2] = Uint("denomCreationGasConsume")
  BY ParamsIs
<1>2. Types[T] = Params /\ Values[T] = ParamsAll
  BY ParamsIs
<1>3. "Coin" \in DOMAIN Types /\ Values["Coin"] = CoinValues /\ Types["Coin"] = Coin
  BY DEF Types, Values
<1>4. Level("Coin") < Level(T)
  BY DEF Level
<1>5. FieldShape(T, 1)
  <2>1. \A w \in Values[T] : /\ w["denomCreationFee"] \in Seq(CoinValues)
                              /\ \A x \in Seq(CoinValues) : [w EXCEPT !["denomCreationFee"] = x] \in Values[T]
    BY <1>2 DEF ParamsAll
  <2>2. "denomCreationFee" \in DOMAIN Types[T] /\ Types[T]["denomCreationFee"] = <<>>
    BY <1>2, <1>3 DEF Params
  <2> QED
    BY <1>1, <2>1, <2>2, <1>3, <1>4, MessagesShape
<1>6. FieldShape(T, 2)
  <2>1. \A w \in Values[T] : /\ w["denomCreationGasConsume"] \in 0 .. Word - 1
                              /\ \A x \in 0 .. Word - 1 : [w EXCEPT !["denomCreationGasConsume"] = x] \in Values[T]
    BY <1>2 DEF ParamsAll
  <2>2. "denomCreationGasConsume" \in DOMAIN Types[T] /\ Types[T]["denomCreationGasConsume"] = 0
    BY <1>2, <1>3 DEF Params
  <2> QED
    BY <1>1, <2>1, <2>2, <1>3, <1>4, NumberShape
<1>7. Types[T] \in Values[T] /\ \A w \in Values[T] : w = [f \in DOMAIN Types[T] |-> w[f]]
  BY <1>2, Lengths DEF Params, ParamsAll
<1>8. /\ \A n, k \in DOMAIN Cases[T] : Cases[T][n].name = Cases[T][k].name => n = k
      /\ DOMAIN Types[T] = {Cases[T][n].name : n \in DOMAIN Cases[T]}
      /\ "none" \notin DOMAIN Types[T]
  BY <1>1, <1>2 DEF Params, Repeated, Uint
<1> HIDE DEF T
<1>9. DOMAIN Cases[T] \subseteq 1 .. 4
  BY <1>1
<1>10. \A n \in DOMAIN Cases[T] : FieldShape(T, n)
  BY <1>1, <1>5, <1>6
<1>11. Shape(T)
  BY <1>7, <1>8, <1>9, <1>10 DEF Shape
<1> QED
  BY <1>11 DEF T

\* The fields of GenesisDenom.
LEMMA GenesisDenomIs ==
  /\ DOMAIN Cases["GenesisDenom"] = {1, 2}
  /\ Cases["GenesisDenom"][1] = Str("denom")
  /\ Cases["GenesisDenom"][2] = Embedded("authorityMetadata", "DenomAuthorityMetadata")
  /\ Types["GenesisDenom"] = GenesisDenom /\ Values["GenesisDenom"] = GenesisDenomValues
<1>1. /\ DOMAIN Cases["GenesisDenom"] = {1, 2}
      /\ Cases["GenesisDenom"][1] = Str("denom")
      /\ Cases["GenesisDenom"][2] = Embedded("authorityMetadata", "DenomAuthorityMetadata")
  BY DEF Cases, GenesisDenomCases
<1>2. Types["GenesisDenom"] = GenesisDenom /\ Values["GenesisDenom"] = GenesisDenomValues
  BY DEF Types, Values
<1> QED
  BY <1>1, <1>2

\* Its values are what its fields may hold.
LEMMA ShapeGenesisDenom == Shape("GenesisDenom")
<1> DEFINE T == "GenesisDenom"
<1>1. /\ DOMAIN Cases[T] = {1, 2}
      /\ Cases[T][1] = Str("denom")
      /\ Cases[T][2] = Embedded("authorityMetadata", "DenomAuthorityMetadata")
  BY GenesisDenomIs
<1>2. Types[T] = GenesisDenom /\ Values[T] = GenesisDenomValues
  BY GenesisDenomIs
<1>3. /\ "DenomAuthorityMetadata" \in DOMAIN Types
      /\ Values["DenomAuthorityMetadata"] = DenomAuthorityMetadataValues
      /\ Types["DenomAuthorityMetadata"] = DenomAuthorityMetadata
  BY DEF Types, Values
<1>4. Level("DenomAuthorityMetadata") < Level(T)
  BY DEF Level
<1>5. Flat("DenomAuthorityMetadata")
  BY DEF Flat, Cases, DenomAuthorityMetadataCases, Str
<1>6. FieldShape(T, 1)
  <2>1. \A w \in Values[T] : /\ w["denom"] \in Seq(Byte)
                              /\ \A x \in Seq(Byte) : [w EXCEPT !["denom"] = x] \in Values[T]
    BY <1>2 DEF GenesisDenomValues
  <2>2. "denom" \in DOMAIN Types[T] /\ Types[T]["denom"] = <<>>
    BY <1>2, <1>3 DEF GenesisDenom
  <2> QED
    BY <1>1, <2>1, <2>2, <1>3, <1>4, TextShape
<1>7. FieldShape(T, 2)
  <2>1. \A w \in Values[T] : /\ w["authorityMetadata"] \in DenomAuthorityMetadataValues
                              /\ \A x \in DenomAuthorityMetadataValues : [w EXCEPT !["authorityMetadata"] = x] \in Values[T]
    BY <1>2 DEF GenesisDenomValues
  <2>2. /\ "authorityMetadata" \in DOMAIN Types[T]
        /\ Types[T]["authorityMetadata"] = Types["DenomAuthorityMetadata"]
    BY <1>2, <1>3 DEF GenesisDenom
  <2> QED
    BY <1>1, <2>1, <2>2, <1>3, <1>4, <1>5, MessageShape
<1>8. Types[T] \in Values[T] /\ \A w \in Values[T] : w = [f \in DOMAIN Types[T] |-> w[f]]
  BY <1>2 DEF DenomAuthorityMetadata, DenomAuthorityMetadataValues, GenesisDenom, GenesisDenomValues
<1>9. /\ \A n, k \in DOMAIN Cases[T] : Cases[T][n].name = Cases[T][k].name => n = k
      /\ DOMAIN Types[T] = {Cases[T][n].name : n \in DOMAIN Cases[T]}
      /\ "none" \notin DOMAIN Types[T]
  BY <1>1, <1>2 DEF GenesisDenom, Embedded, Str
<1> HIDE DEF T
<1>10. DOMAIN Cases[T] \subseteq 1 .. 4
  BY <1>1
<1>11. \A n \in DOMAIN Cases[T] : FieldShape(T, n)
  BY <1>1, <1>6, <1>7
<1>12. Shape(T)
  BY <1>8, <1>9, <1>10, <1>11 DEF Shape
<1> QED
  BY <1>12 DEF T

\* The fields of GenesisState.
LEMMA GenesisStateIs ==
  /\ DOMAIN Cases["GenesisState"] = {1, 2}
  /\ Cases["GenesisState"][1] = Embedded("params", "Params")
  /\ Cases["GenesisState"][2] = Repeated("factoryDenoms", "GenesisDenom")
  /\ Types["GenesisState"] = GenesisState
  /\ Values["GenesisState"] = [params : ParamsAll, factoryDenoms : Seq(GenesisDenomValues)]
<1>1. /\ DOMAIN Cases["GenesisState"] = {1, 2}
      /\ Cases["GenesisState"][1] = Embedded("params", "Params")
      /\ Cases["GenesisState"][2] = Repeated("factoryDenoms", "GenesisDenom")
  BY DEF Cases, GenesisStateCases
<1>2. /\ Types["GenesisState"] = GenesisState
      /\ Values["GenesisState"] = [params : ParamsAll, factoryDenoms : Seq(GenesisDenomValues)]
  BY DEF Types, Values
<1> QED
  BY <1>1, <1>2

\* Its values are what its fields may hold.
LEMMA ShapeGenesisState == Shape("GenesisState")
<1> DEFINE T == "GenesisState"
<1>1. /\ DOMAIN Cases[T] = {1, 2}
      /\ Cases[T][1] = Embedded("params", "Params")
      /\ Cases[T][2] = Repeated("factoryDenoms", "GenesisDenom")
  BY GenesisStateIs
<1>2. /\ Types[T] = GenesisState
      /\ Values[T] = [params : ParamsAll, factoryDenoms : Seq(GenesisDenomValues)]
  BY GenesisStateIs
<1>3. /\ "GenesisDenom" \in DOMAIN Types /\ Values["GenesisDenom"] = GenesisDenomValues
      /\ Types["GenesisDenom"] = GenesisDenom /\ "Params" \in DOMAIN Types
      /\ Values["Params"] = ParamsAll /\ Types["Params"] = Params
  BY DEF Types, Values
<1>4. Level("GenesisDenom") < Level(T) /\ Level("Params") < Level(T)
  BY DEF Level
<1>5. Flat("Params")
  BY DEF Flat, Cases, ParamsCases, Repeated, Uint
<1>6. FieldShape(T, 1)
  <2>1. \A w \in Values[T] : /\ w["params"] \in ParamsAll
                              /\ \A x \in ParamsAll : [w EXCEPT !["params"] = x] \in Values[T]
    BY <1>2
  <2>2. "params" \in DOMAIN Types[T] /\ Types[T]["params"] = Types["Params"]
    BY <1>2, <1>3 DEF GenesisState
  <2> QED
    BY <1>1, <2>1, <2>2, <1>3, <1>4, <1>5, MessageShape
<1>7. FieldShape(T, 2)
  <2>1. \A w \in Values[T] : /\ w["factoryDenoms"] \in Seq(GenesisDenomValues)
                              /\ \A x \in Seq(GenesisDenomValues) : [w EXCEPT !["factoryDenoms"] = x] \in Values[T]
    BY <1>2
  <2>2. "factoryDenoms" \in DOMAIN Types[T] /\ Types[T]["factoryDenoms"] = <<>>
    BY <1>2, <1>3 DEF GenesisState
  <2> QED
    BY <1>1, <2>1, <2>2, <1>3, <1>4, MessagesShape
<1>8. Types[T] \in Values[T] /\ \A w \in Values[T] : w = [f \in DOMAIN Types[T] |-> w[f]]
  BY <1>2, Lengths DEF GenesisState, Params, ParamsAll
<1>9. /\ \A n, k \in DOMAIN Cases[T] : Cases[T][n].name = Cases[T][k].name => n = k
      /\ DOMAIN Types[T] = {Cases[T][n].name : n \in DOMAIN Cases[T]}
      /\ "none" \notin DOMAIN Types[T]
  BY <1>1, <1>2 DEF GenesisState, Embedded, Repeated
<1> HIDE DEF T
<1>10. DOMAIN Cases[T] \subseteq 1 .. 4
  BY <1>1
<1>11. \A n \in DOMAIN Cases[T] : FieldShape(T, n)
  BY <1>1, <1>6, <1>7
<1>12. Shape(T)
  BY <1>8, <1>9, <1>10, <1>11 DEF Shape
<1> QED
  BY <1>12 DEF T

\* The fields of MsgCreateDenom.
LEMMA MsgCreateDenomIs ==
  /\ DOMAIN Cases["MsgCreateDenom"] = {1, 2}
  /\ Cases["MsgCreateDenom"][1] = Str("sender")
  /\ Cases["MsgCreateDenom"][2] = Str("subdenom")
  /\ Types["MsgCreateDenom"] = MsgCreateDenom
  /\ Values["MsgCreateDenom"] = [sender : Seq(Byte), subdenom : Seq(Byte)]
<1>1. /\ DOMAIN Cases["MsgCreateDenom"] = {1, 2}
      /\ Cases["MsgCreateDenom"][1] = Str("sender")
      /\ Cases["MsgCreateDenom"][2] = Str("subdenom")
  BY DEF Cases, MsgCreateDenomCases
<1>2. /\ Types["MsgCreateDenom"] = MsgCreateDenom
      /\ Values["MsgCreateDenom"] = [sender : Seq(Byte), subdenom : Seq(Byte)]
  BY DEF Types, Values
<1> QED
  BY <1>1, <1>2

\* Its values are what its fields may hold.
LEMMA ShapeMsgCreateDenom == Shape("MsgCreateDenom")
<1> DEFINE T == "MsgCreateDenom"
<1>1. /\ DOMAIN Cases[T] = {1, 2}
      /\ Cases[T][1] = Str("sender")
      /\ Cases[T][2] = Str("subdenom")
  BY MsgCreateDenomIs
<1>2. Types[T] = MsgCreateDenom /\ Values[T] = [sender : Seq(Byte), subdenom : Seq(Byte)]
  BY MsgCreateDenomIs
<1>3. FieldShape(T, 1)
  <2>1. \A w \in Values[T] : /\ w["sender"] \in Seq(Byte)
                              /\ \A x \in Seq(Byte) : [w EXCEPT !["sender"] = x] \in Values[T]
    BY <1>2, SMTT(30)
  <2>2. "sender" \in DOMAIN Types[T] /\ Types[T]["sender"] = <<>>
    BY <1>2 DEF MsgCreateDenom
  <2> QED
    BY <1>1, <2>1, <2>2, TextShape
<1>4. FieldShape(T, 2)
  <2>1. \A w \in Values[T] : /\ w["subdenom"] \in Seq(Byte)
                              /\ \A x \in Seq(Byte) : [w EXCEPT !["subdenom"] = x] \in Values[T]
    BY <1>2, SMTT(30)
  <2>2. "subdenom" \in DOMAIN Types[T] /\ Types[T]["subdenom"] = <<>>
    BY <1>2 DEF MsgCreateDenom
  <2> QED
    BY <1>1, <2>1, <2>2, TextShape
<1>5. Types[T] \in Values[T] /\ \A w \in Values[T] : w = [f \in DOMAIN Types[T] |-> w[f]]
  BY <1>2 DEF MsgCreateDenom
<1>6. /\ \A n, k \in DOMAIN Cases[T] : Cases[T][n].name = Cases[T][k].name => n = k
      /\ DOMAIN Types[T] = {Cases[T][n].name : n \in DOMAIN Cases[T]}
      /\ "none" \notin DOMAIN Types[T]
  BY <1>1, <1>2 DEF MsgCreateDenom, Str
<1> HIDE DEF T
<1>7. DOMAIN Cases[T] \subseteq 1 .. 4
  BY <1>1
<1>8. \A n \in DOMAIN Cases[T] : FieldShape(T, n)
  BY <1>1, <1>3, <1>4
<1>9. Shape(T)
  BY <1>5, <1>6, <1>7, <1>8 DEF Shape
<1> QED
  BY <1>9 DEF T

\* The fields of MsgCreateDenomResponse.
LEMMA MsgCreateDenomResponseIs ==
  /\ DOMAIN Cases["MsgCreateDenomResponse"] = {1}
  /\ Cases["MsgCreateDenomResponse"][1] = Str("newTokenDenom")
  /\ Types["MsgCreateDenomResponse"] = MsgCreateDenomResponse
  /\ Values["MsgCreateDenomResponse"] = [newTokenDenom : Seq(Byte)]
<1>1. /\ DOMAIN Cases["MsgCreateDenomResponse"] = {1}
      /\ Cases["MsgCreateDenomResponse"][1] = Str("newTokenDenom")
  BY DEF Cases, MsgCreateDenomResponseCases
<1>2. /\ Types["MsgCreateDenomResponse"] = MsgCreateDenomResponse
      /\ Values["MsgCreateDenomResponse"] = [newTokenDenom : Seq(Byte)]
  BY DEF Types, Values
<1> QED
  BY <1>1, <1>2

\* Its values are what its fields may hold.
LEMMA ShapeMsgCreateDenomResponse == Shape("MsgCreateDenomResponse")
<1> DEFINE T == "MsgCreateDenomResponse"
<1>1. /\ DOMAIN Cases[T] = {1}
      /\ Cases[T][1] = Str("newTokenDenom")
  BY MsgCreateDenomResponseIs
<1>2. Types[T] = MsgCreateDenomResponse /\ Values[T] = [newTokenDenom : Seq(Byte)]
  BY MsgCreateDenomResponseIs
<1>3. FieldShape(T, 1)
  <2>1. \A w \in Values[T] : /\ w["newTokenDenom"] \in Seq(Byte)
                              /\ \A x \in Seq(Byte) : [w EXCEPT !["newTokenDenom"] = x] \in Values[T]
    BY <1>2
  <2>2. "newTokenDenom" \in DOMAIN Types[T] /\ Types[T]["newTokenDenom"] = <<>>
    BY <1>2 DEF MsgCreateDenomResponse
  <2> QED
    BY <1>1, <2>1, <2>2, TextShape
<1>4. Types[T] \in Values[T] /\ \A w \in Values[T] : w = [f \in DOMAIN Types[T] |-> w[f]]
  BY <1>2 DEF MsgCreateDenomResponse
<1>5. /\ \A n, k \in DOMAIN Cases[T] : Cases[T][n].name = Cases[T][k].name => n = k
      /\ DOMAIN Types[T] = {Cases[T][n].name : n \in DOMAIN Cases[T]}
      /\ "none" \notin DOMAIN Types[T]
  BY <1>1, <1>2 DEF MsgCreateDenomResponse, Str
<1> HIDE DEF T
<1>6. DOMAIN Cases[T] \subseteq 1 .. 4
  BY <1>1
<1>7. \A n \in DOMAIN Cases[T] : FieldShape(T, n)
  BY <1>1, <1>3
<1>8. Shape(T)
  BY <1>4, <1>5, <1>6, <1>7 DEF Shape
<1> QED
  BY <1>8 DEF T

\* The fields of MsgMint.
LEMMA MsgMintIs ==
  /\ DOMAIN Cases["MsgMint"] = {1, 2, 3}
  /\ Cases["MsgMint"][1] = Str("sender")
  /\ Cases["MsgMint"][2] = Embedded("amount", "Coin")
  /\ Cases["MsgMint"][3] = Str("mintToAddress")
  /\ Types["MsgMint"] = MsgMint
  /\ Values["MsgMint"] = [sender : Seq(Byte), amount : CoinValues, mintToAddress : Seq(Byte)]
<1>1. /\ DOMAIN Cases["MsgMint"] = {1, 2, 3}
      /\ Cases["MsgMint"][1] = Str("sender")
      /\ Cases["MsgMint"][2] = Embedded("amount", "Coin")
      /\ Cases["MsgMint"][3] = Str("mintToAddress")
  BY DEF Cases, MsgMintCases
<1>2. /\ Types["MsgMint"] = MsgMint
      /\ Values["MsgMint"] = [sender : Seq(Byte), amount : CoinValues, mintToAddress : Seq(Byte)]
  BY DEF Types, Values
<1> QED
  BY <1>1, <1>2

\* Its values are what its fields may hold.
LEMMA ShapeMsgMint == Shape("MsgMint")
<1> DEFINE T == "MsgMint"
<1>1. /\ DOMAIN Cases[T] = {1, 2, 3}
      /\ Cases[T][1] = Str("sender")
      /\ Cases[T][2] = Embedded("amount", "Coin")
      /\ Cases[T][3] = Str("mintToAddress")
  BY MsgMintIs
<1>2. /\ Types[T] = MsgMint
      /\ Values[T] = [sender : Seq(Byte), amount : CoinValues, mintToAddress : Seq(Byte)]
  BY MsgMintIs
<1>3. "Coin" \in DOMAIN Types /\ Values["Coin"] = CoinValues /\ Types["Coin"] = Coin
  BY DEF Types, Values
<1>4. Level("Coin") < Level(T)
  BY DEF Level
<1>5. Flat("Coin")
  BY DEF Flat, Cases, CoinCases, Str
<1>6. FieldShape(T, 1)
  <2>1. \A w \in Values[T] : /\ w["sender"] \in Seq(Byte)
                              /\ \A x \in Seq(Byte) : [w EXCEPT !["sender"] = x] \in Values[T]
    BY <1>2
  <2>2. "sender" \in DOMAIN Types[T] /\ Types[T]["sender"] = <<>>
    BY <1>2, <1>3 DEF MsgMint
  <2> QED
    BY <1>1, <2>1, <2>2, <1>3, <1>4, TextShape
<1>7. FieldShape(T, 2)
  <2>1. \A w \in Values[T] : /\ w["amount"] \in CoinValues
                              /\ \A x \in CoinValues : [w EXCEPT !["amount"] = x] \in Values[T]
    BY <1>2
  <2>2. "amount" \in DOMAIN Types[T] /\ Types[T]["amount"] = Types["Coin"]
    BY <1>2, <1>3 DEF MsgMint
  <2> QED
    BY <1>1, <2>1, <2>2, <1>3, <1>4, <1>5, MessageShape
<1>8. FieldShape(T, 3)
  <2>1. \A w \in Values[T] : /\ w["mintToAddress"] \in Seq(Byte)
                              /\ \A x \in Seq(Byte) : [w EXCEPT !["mintToAddress"] = x] \in Values[T]
    BY <1>2
  <2>2. "mintToAddress" \in DOMAIN Types[T] /\ Types[T]["mintToAddress"] = <<>>
    BY <1>2, <1>3 DEF MsgMint
  <2> QED
    BY <1>1, <2>1, <2>2, <1>3, <1>4, TextShape
<1>9. Types[T] \in Values[T] /\ \A w \in Values[T] : w = [f \in DOMAIN Types[T] |-> w[f]]
  BY <1>2 DEF Byte, Coin, CoinValues, MsgMint, Zero
<1>10. /\ \A n, k \in DOMAIN Cases[T] : Cases[T][n].name = Cases[T][k].name => n = k
      /\ DOMAIN Types[T] = {Cases[T][n].name : n \in DOMAIN Cases[T]}
      /\ "none" \notin DOMAIN Types[T]
  BY <1>1, <1>2 DEF MsgMint, Embedded, Str
<1> HIDE DEF T
<1>11. DOMAIN Cases[T] \subseteq 1 .. 4
  BY <1>1
<1>12. \A n \in DOMAIN Cases[T] : FieldShape(T, n)
  BY <1>1, <1>6, <1>7, <1>8
<1>13. Shape(T)
  BY <1>9, <1>10, <1>11, <1>12 DEF Shape
<1> QED
  BY <1>13 DEF T

\* The fields of MsgBurn.
LEMMA MsgBurnIs ==
  /\ DOMAIN Cases["MsgBurn"] = {1, 2, 3}
  /\ Cases["MsgBurn"][1] = Str("sender")
  /\ Cases["MsgBurn"][2] = Embedded("amount", "Coin")
  /\ Cases["MsgBurn"][3] = Str("burnFromAddress")
  /\ Types["MsgBurn"] = MsgBurn
  /\ Values["MsgBurn"] = [sender : Seq(Byte), amount : CoinValues, burnFromAddress : Seq(Byte)]
<1>1. /\ DOMAIN Cases["MsgBurn"] = {1, 2, 3}
      /\ Cases["MsgBurn"][1] = Str("sender")
      /\ Cases["MsgBurn"][2] = Embedded("amount", "Coin")
      /\ Cases["MsgBurn"][3] = Str("burnFromAddress")
  BY DEF Cases, MsgBurnCases
<1>2. /\ Types["MsgBurn"] = MsgBurn
      /\ Values["MsgBurn"] = [sender : Seq(Byte), amount : CoinValues, burnFromAddress : Seq(Byte)]
  BY DEF Types, Values
<1> QED
  BY <1>1, <1>2

\* Its values are what its fields may hold.
LEMMA ShapeMsgBurn == Shape("MsgBurn")
<1> DEFINE T == "MsgBurn"
<1>1. /\ DOMAIN Cases[T] = {1, 2, 3}
      /\ Cases[T][1] = Str("sender")
      /\ Cases[T][2] = Embedded("amount", "Coin")
      /\ Cases[T][3] = Str("burnFromAddress")
  BY MsgBurnIs
<1>2. /\ Types[T] = MsgBurn
      /\ Values[T] = [sender : Seq(Byte), amount : CoinValues, burnFromAddress : Seq(Byte)]
  BY MsgBurnIs
<1>3. "Coin" \in DOMAIN Types /\ Values["Coin"] = CoinValues /\ Types["Coin"] = Coin
  BY DEF Types, Values
<1>4. Level("Coin") < Level(T)
  BY DEF Level
<1>5. Flat("Coin")
  BY DEF Flat, Cases, CoinCases, Str
<1>6. FieldShape(T, 1)
  <2>1. \A w \in Values[T] : /\ w["sender"] \in Seq(Byte)
                              /\ \A x \in Seq(Byte) : [w EXCEPT !["sender"] = x] \in Values[T]
    BY <1>2
  <2>2. "sender" \in DOMAIN Types[T] /\ Types[T]["sender"] = <<>>
    BY <1>2, <1>3 DEF MsgBurn
  <2> QED
    BY <1>1, <2>1, <2>2, <1>3, <1>4, TextShape
<1>7. FieldShape(T, 2)
  <2>1. \A w \in Values[T] : /\ w["amount"] \in CoinValues
                              /\ \A x \in CoinValues : [w EXCEPT !["amount"] = x] \in Values[T]
    BY <1>2
  <2>2. "amount" \in DOMAIN Types[T] /\ Types[T]["amount"] = Types["Coin"]
    BY <1>2, <1>3 DEF MsgBurn
  <2> QED
    BY <1>1, <2>1, <2>2, <1>3, <1>4, <1>5, MessageShape
<1>8. FieldShape(T, 3)
  <2>1. \A w \in Values[T] : /\ w["burnFromAddress"] \in Seq(Byte)
                              /\ \A x \in Seq(Byte) : [w EXCEPT !["burnFromAddress"] = x] \in Values[T]
    BY <1>2
  <2>2. "burnFromAddress" \in DOMAIN Types[T] /\ Types[T]["burnFromAddress"] = <<>>
    BY <1>2, <1>3 DEF MsgBurn
  <2> QED
    BY <1>1, <2>1, <2>2, <1>3, <1>4, TextShape
<1>9. Types[T] \in Values[T] /\ \A w \in Values[T] : w = [f \in DOMAIN Types[T] |-> w[f]]
  BY <1>2 DEF Byte, Coin, CoinValues, MsgBurn, Zero
<1>10. /\ \A n, k \in DOMAIN Cases[T] : Cases[T][n].name = Cases[T][k].name => n = k
      /\ DOMAIN Types[T] = {Cases[T][n].name : n \in DOMAIN Cases[T]}
      /\ "none" \notin DOMAIN Types[T]
  BY <1>1, <1>2 DEF MsgBurn, Embedded, Str
<1> HIDE DEF T
<1>11. DOMAIN Cases[T] \subseteq 1 .. 4
  BY <1>1
<1>12. \A n \in DOMAIN Cases[T] : FieldShape(T, n)
  BY <1>1, <1>6, <1>7, <1>8
<1>13. Shape(T)
  BY <1>9, <1>10, <1>11, <1>12 DEF Shape
<1> QED
  BY <1>13 DEF T

\* The fields of MsgChangeAdmin.
LEMMA MsgChangeAdminIs ==
  /\ DOMAIN Cases["MsgChangeAdmin"] = {1, 2, 3}
  /\ Cases["MsgChangeAdmin"][1] = Str("sender")
  /\ Cases["MsgChangeAdmin"][2] = Str("denom")
  /\ Cases["MsgChangeAdmin"][3] = Str("newAdmin")
  /\ Types["MsgChangeAdmin"] = MsgChangeAdmin
  /\ Values["MsgChangeAdmin"] = [sender : Seq(Byte), denom : Seq(Byte), newAdmin : Seq(Byte)]
<1>1. /\ DOMAIN Cases["MsgChangeAdmin"] = {1, 2, 3}
      /\ Cases["MsgChangeAdmin"][1] = Str("sender")
      /\ Cases["MsgChangeAdmin"][2] = Str("denom")
      /\ Cases["MsgChangeAdmin"][3] = Str("newAdmin")
  BY DEF Cases, MsgChangeAdminCases
<1>2. /\ Types["MsgChangeAdmin"] = MsgChangeAdmin
      /\ Values["MsgChangeAdmin"] = [sender : Seq(Byte), denom : Seq(Byte), newAdmin : Seq(Byte)]
  BY DEF Types, Values
<1> QED
  BY <1>1, <1>2

\* Its values are what its fields may hold.
LEMMA ShapeMsgChangeAdmin == Shape("MsgChangeAdmin")
<1> DEFINE T == "MsgChangeAdmin"
<1>1. /\ DOMAIN Cases[T] = {1, 2, 3}
      /\ Cases[T][1] = Str("sender")
      /\ Cases[T][2] = Str("denom")
      /\ Cases[T][3] = Str("newAdmin")
  BY MsgChangeAdminIs
<1>2. /\ Types[T] = MsgChangeAdmin
      /\ Values[T] = [sender : Seq(Byte), denom : Seq(Byte), newAdmin : Seq(Byte)]
  BY MsgChangeAdminIs
<1>3. FieldShape(T, 1)
  <2>1. \A w \in Values[T] : /\ w["sender"] \in Seq(Byte)
                              /\ \A x \in Seq(Byte) : [w EXCEPT !["sender"] = x] \in Values[T]
    BY <1>2
  <2>2. "sender" \in DOMAIN Types[T] /\ Types[T]["sender"] = <<>>
    BY <1>2 DEF MsgChangeAdmin
  <2> QED
    BY <1>1, <2>1, <2>2, TextShape
<1>4. FieldShape(T, 2)
  <2>1. \A w \in Values[T] : /\ w["denom"] \in Seq(Byte)
                              /\ \A x \in Seq(Byte) : [w EXCEPT !["denom"] = x] \in Values[T]
    BY <1>2
  <2>2. "denom" \in DOMAIN Types[T] /\ Types[T]["denom"] = <<>>
    BY <1>2 DEF MsgChangeAdmin
  <2> QED
    BY <1>1, <2>1, <2>2, TextShape
<1>5. FieldShape(T, 3)
  <2>1. \A w \in Values[T] : /\ w["newAdmin"] \in Seq(Byte)
                              /\ \A x \in Seq(Byte) : [w EXCEPT !["newAdmin"] = x] \in Values[T]
    BY <1>2
  <2>2. "newAdmin" \in DOMAIN Types[T] /\ Types[T]["newAdmin"] = <<>>
    BY <1>2 DEF MsgChangeAdmin
  <2> QED
    BY <1>1, <2>1, <2>2, TextShape
<1>6. Types[T] \in Values[T] /\ \A w \in Values[T] : w = [f \in DOMAIN Types[T] |-> w[f]]
  BY <1>2 DEF MsgChangeAdmin
<1>7. /\ \A n, k \in DOMAIN Cases[T] : Cases[T][n].name = Cases[T][k].name => n = k
      /\ DOMAIN Types[T] = {Cases[T][n].name : n \in DOMAIN Cases[T]}
      /\ "none" \notin DOMAIN Types[T]
  BY <1>1, <1>2 DEF MsgChangeAdmin, Str
<1> HIDE DEF T
<1>8. DOMAIN Cases[T] \subseteq 1 .. 4
  BY <1>1
<1>9. \A n \in DOMAIN Cases[T] : FieldShape(T, n)
  BY <1>1, <1>3, <1>4, <1>5
<1>10. Shape(T)
  BY <1>6, <1>7, <1>8, <1>9 DEF Shape
<1> QED
  BY <1>10 DEF T

\* The fields of MsgSetDenomMetadata.
LEMMA MsgSetDenomMetadataIs ==
  /\ DOMAIN Cases["MsgSetDenomMetadata"] = {1, 2}
  /\ Cases["MsgSetDenomMetadata"][1] = Str("sender")
  /\ Cases["MsgSetDenomMetadata"][2] = Embedded("metadata", "Metadata")
  /\ Types["MsgSetDenomMetadata"] = MsgSetDenomMetadata
  /\ Values["MsgSetDenomMetadata"] = [sender : Seq(Byte), metadata : MetadataValues]
<1>1. /\ DOMAIN Cases["MsgSetDenomMetadata"] = {1, 2}
      /\ Cases["MsgSetDenomMetadata"][1] = Str("sender")
      /\ Cases["MsgSetDenomMetadata"][2] = Embedded("metadata", "Metadata")
  BY DEF Cases, MsgSetDenomMetadataCases
<1>2. /\ Types["MsgSetDenomMetadata"] = MsgSetDenomMetadata
      /\ Values["MsgSetDenomMetadata"] = [sender : Seq(Byte), metadata : MetadataValues]
  BY DEF Types, Values
<1> QED
  BY <1>1, <1>2

\* Its values are what its fields may hold.
LEMMA ShapeMsgSetDenomMetadata == Shape("MsgSetDenomMetadata")
<1> DEFINE T == "MsgSetDenomMetadata"
<1>1. /\ DOMAIN Cases[T] = {1, 2}
      /\ Cases[T][1] = Str("sender")
      /\ Cases[T][2] = Embedded("metadata", "Metadata")
  BY MsgSetDenomMetadataIs
<1>2. Types[T] = MsgSetDenomMetadata /\ Values[T] = [sender : Seq(Byte), metadata : MetadataValues]
  BY MsgSetDenomMetadataIs
<1>3. "Metadata" \in DOMAIN Types /\ Values["Metadata"] = MetadataValues /\ Types["Metadata"] = Metadata
  BY DEF Types, Values
<1>4. Level("Metadata") < Level(T)
  BY DEF Level
<1>5. Flat("Metadata")
  BY DEF Flat, Cases, MetadataCases, Str
<1>6. FieldShape(T, 1)
  <2>1. \A w \in Values[T] : /\ w["sender"] \in Seq(Byte)
                              /\ \A x \in Seq(Byte) : [w EXCEPT !["sender"] = x] \in Values[T]
    BY <1>2
  <2>2. "sender" \in DOMAIN Types[T] /\ Types[T]["sender"] = <<>>
    BY <1>2, <1>3 DEF MsgSetDenomMetadata
  <2> QED
    BY <1>1, <2>1, <2>2, <1>3, <1>4, TextShape
<1>7. FieldShape(T, 2)
  <2>1. \A w \in Values[T] : /\ w["metadata"] \in MetadataValues
                              /\ \A x \in MetadataValues : [w EXCEPT !["metadata"] = x] \in Values[T]
    BY <1>2
  <2>2. "metadata" \in DOMAIN Types[T] /\ Types[T]["metadata"] = Types["Metadata"]
    BY <1>2, <1>3 DEF MsgSetDenomMetadata
  <2> QED
    BY <1>1, <2>1, <2>2, <1>3, <1>4, <1>5, MessageShape
<1>8. Types[T] \in Values[T] /\ \A w \in Values[T] : w = [f \in DOMAIN Types[T] |-> w[f]]
  BY <1>2 DEF Metadata, MetadataValues, MsgSetDenomMetadata
<1>9. /\ \A n, k \in DOMAIN Cases[T] : Cases[T][n].name = Cases[T][k].name => n = k
      /\ DOMAIN Types[T] = {Cases[T][n].name : n \in DOMAIN Cases[T]}
      /\ "none" \notin DOMAIN Types[T]
  BY <1>1, <1>2 DEF MsgSetDenomMetadata, Embedded, Str
<1> HIDE DEF T
<1>10. DOMAIN Cases[T] \subseteq 1 .. 4
  BY <1>1
<1>11. \A n \in DOMAIN Cases[T] : FieldShape(T, n)
  BY <1>1, <1>6, <1>7
<1>12. Shape(T)
  BY <1>8, <1>9, <1>10, <1>11 DEF Shape
<1> QED
  BY <1>12 DEF T

\* The fields of MsgForceTransfer.
LEMMA MsgForceTransferIs ==
  /\ DOMAIN Cases["MsgForceTransfer"] = {1, 2, 3, 4}
  /\ Cases["MsgForceTransfer"][1] = Str("sender")
  /\ Cases["MsgForceTransfer"][2] = Embedded("amount", "Coin")
  /\ Cases["MsgForceTransfer"][3] = Str("transferFromAddress")
  /\ Cases["MsgForceTransfer"][4] = Str("transferToAddress")
  /\ Types["MsgForceTransfer"] = MsgForceTransfer
  /\ Values["MsgForceTransfer"] =
       [sender : Seq(Byte), amount : CoinValues, transferFromAddress : Seq(Byte),
        transferToAddress : Seq(Byte)]
<1>1. /\ DOMAIN Cases["MsgForceTransfer"] = {1, 2, 3, 4}
      /\ Cases["MsgForceTransfer"][1] = Str("sender")
      /\ Cases["MsgForceTransfer"][2] = Embedded("amount", "Coin")
      /\ Cases["MsgForceTransfer"][3] = Str("transferFromAddress")
      /\ Cases["MsgForceTransfer"][4] = Str("transferToAddress")
  BY DEF Cases, MsgForceTransferCases
<1>2. /\ Types["MsgForceTransfer"] = MsgForceTransfer
      /\ Values["MsgForceTransfer"] =
           [sender : Seq(Byte), amount : CoinValues, transferFromAddress : Seq(Byte),
            transferToAddress : Seq(Byte)]
  BY DEF Types, Values
<1> QED
  BY <1>1, <1>2

\* Its values are what its fields may hold.
LEMMA ShapeMsgForceTransfer == Shape("MsgForceTransfer")
<1> DEFINE T == "MsgForceTransfer"
<1>1. /\ DOMAIN Cases[T] = {1, 2, 3, 4}
      /\ Cases[T][1] = Str("sender")
      /\ Cases[T][2] = Embedded("amount", "Coin")
      /\ Cases[T][3] = Str("transferFromAddress")
      /\ Cases[T][4] = Str("transferToAddress")
  BY MsgForceTransferIs
<1>2. /\ Types[T] = MsgForceTransfer
      /\ Values[T] =
           [sender : Seq(Byte), amount : CoinValues, transferFromAddress : Seq(Byte),
            transferToAddress : Seq(Byte)]
  BY MsgForceTransferIs
<1>3. "Coin" \in DOMAIN Types /\ Values["Coin"] = CoinValues /\ Types["Coin"] = Coin
  BY DEF Types, Values
<1>4. Level("Coin") < Level(T)
  BY DEF Level
<1>5. Flat("Coin")
  BY DEF Flat, Cases, CoinCases, Str
<1>6. FieldShape(T, 1)
  <2>1. \A w \in Values[T] : /\ w["sender"] \in Seq(Byte)
                              /\ \A x \in Seq(Byte) : [w EXCEPT !["sender"] = x] \in Values[T]
    BY <1>2, SMTT(60)
  <2>2. "sender" \in DOMAIN Types[T] /\ Types[T]["sender"] = <<>>
    BY <1>2, <1>3 DEF MsgForceTransfer
  <2> QED
    BY <1>1, <2>1, <2>2, <1>3, <1>4, TextShape
<1>7. FieldShape(T, 2)
  <2>1. \A w \in Values[T] : /\ w["amount"] \in CoinValues
                              /\ \A x \in CoinValues : [w EXCEPT !["amount"] = x] \in Values[T]
    BY <1>2, SMTT(30)
  <2>2. "amount" \in DOMAIN Types[T] /\ Types[T]["amount"] = Types["Coin"]
    BY <1>2, <1>3 DEF MsgForceTransfer
  <2> QED
    BY <1>1, <2>1, <2>2, <1>3, <1>4, <1>5, MessageShape
<1>8. FieldShape(T, 3)
  <2>1. \A w \in Values[T] : /\ w["transferFromAddress"] \in Seq(Byte)
                              /\ \A x \in Seq(Byte) : [w EXCEPT !["transferFromAddress"] = x] \in Values[T]
    BY <1>2, SMTT(60)
  <2>2. "transferFromAddress" \in DOMAIN Types[T] /\ Types[T]["transferFromAddress"] = <<>>
    BY <1>2, <1>3 DEF MsgForceTransfer
  <2> QED
    BY <1>1, <2>1, <2>2, <1>3, <1>4, TextShape
<1>9. FieldShape(T, 4)
  <2>1. \A w \in Values[T] : /\ w["transferToAddress"] \in Seq(Byte)
                              /\ \A x \in Seq(Byte) : [w EXCEPT !["transferToAddress"] = x] \in Values[T]
    BY <1>2, SMTT(60)
  <2>2. "transferToAddress" \in DOMAIN Types[T] /\ Types[T]["transferToAddress"] = <<>>
    BY <1>2, <1>3 DEF MsgForceTransfer
  <2> QED
    BY <1>1, <2>1, <2>2, <1>3, <1>4, TextShape
<1>10. Types[T] \in Values[T] /\ \A w \in Values[T] : w = [f \in DOMAIN Types[T] |-> w[f]]
  BY <1>2 DEF Byte, Coin, CoinValues, MsgForceTransfer, Zero
<1>11. /\ \A n, k \in DOMAIN Cases[T] : Cases[T][n].name = Cases[T][k].name => n = k
      /\ DOMAIN Types[T] = {Cases[T][n].name : n \in DOMAIN Cases[T]}
      /\ "none" \notin DOMAIN Types[T]
  BY <1>1, <1>2 DEF MsgForceTransfer, Embedded, Str
<1> HIDE DEF T
<1>12. DOMAIN Cases[T] \subseteq 1 .. 4
  BY <1>1
<1>13. \A n \in DOMAIN Cases[T] : FieldShape(T, n)
  BY <1>1, <1>6, <1>7, <1>8, <1>9
<1>14. Shape(T)
  BY <1>10, <1>11, <1>12, <1>13 DEF Shape
<1> QED
  BY <1>14 DEF T

\* The fields of QueryParamsResponse.
LEMMA QueryParamsResponseIs ==
  /\ DOMAIN Cases["QueryParamsResponse"] = {1}
  /\ Cases["QueryParamsResponse"][1] = Embedded("params", "Params")
  /\ Types["QueryParamsResponse"] = QueryParamsResponse
  /\ Values["QueryParamsResponse"] = [params : ParamsAll]
<1>1. /\ DOMAIN Cases["QueryParamsResponse"] = {1}
      /\ Cases["QueryParamsResponse"][1] = Embedded("params", "Params")
  BY DEF Cases, QueryParamsResponseCases
<1>2. /\ Types["QueryParamsResponse"] = QueryParamsResponse
      /\ Values["QueryParamsResponse"] = [params : ParamsAll]
  BY DEF Types, Values
<1> QED
  BY <1>1, <1>2

\* Its values are what its fields may hold.
LEMMA ShapeQueryParamsResponse == Shape("QueryParamsResponse")
<1> DEFINE T == "QueryParamsResponse"
<1>1. /\ DOMAIN Cases[T] = {1}
      /\ Cases[T][1] = Embedded("params", "Params")
  BY QueryParamsResponseIs
<1>2. Types[T] = QueryParamsResponse /\ Values[T] = [params : ParamsAll]
  BY QueryParamsResponseIs
<1>3. "Params" \in DOMAIN Types /\ Values["Params"] = ParamsAll /\ Types["Params"] = Params
  BY DEF Types, Values
<1>4. Level("Params") < Level(T)
  BY DEF Level
<1>5. Flat("Params")
  BY DEF Flat, Cases, ParamsCases, Repeated, Uint
<1>6. FieldShape(T, 1)
  <2>1. \A w \in Values[T] : /\ w["params"] \in ParamsAll
                              /\ \A x \in ParamsAll : [w EXCEPT !["params"] = x] \in Values[T]
    BY <1>2
  <2>2. "params" \in DOMAIN Types[T] /\ Types[T]["params"] = Types["Params"]
    BY <1>2, <1>3 DEF QueryParamsResponse
  <2> QED
    BY <1>1, <2>1, <2>2, <1>3, <1>4, <1>5, MessageShape
<1>7. Types[T] \in Values[T] /\ \A w \in Values[T] : w = [f \in DOMAIN Types[T] |-> w[f]]
  BY <1>2, Lengths DEF Params, ParamsAll, QueryParamsResponse
<1>8. /\ \A n, k \in DOMAIN Cases[T] : Cases[T][n].name = Cases[T][k].name => n = k
      /\ DOMAIN Types[T] = {Cases[T][n].name : n \in DOMAIN Cases[T]}
      /\ "none" \notin DOMAIN Types[T]
  BY <1>1, <1>2 DEF QueryParamsResponse, Embedded
<1> HIDE DEF T
<1>9. DOMAIN Cases[T] \subseteq 1 .. 4
  BY <1>1
<1>10. \A n \in DOMAIN Cases[T] : FieldShape(T, n)
  BY <1>1, <1>6
<1>11. Shape(T)
  BY <1>7, <1>8, <1>9, <1>10 DEF Shape
<1> QED
  BY <1>11 DEF T

\* The fields of QueryDenomAuthorityMetadataRequest.
LEMMA QueryDenomAuthorityMetadataRequestIs ==
  /\ DOMAIN Cases["QueryDenomAuthorityMetadataRequest"] = {1}
  /\ Cases["QueryDenomAuthorityMetadataRequest"][1] = Str("denom")
  /\ Types["QueryDenomAuthorityMetadataRequest"] = QueryDenomAuthorityMetadataRequest
  /\ Values["QueryDenomAuthorityMetadataRequest"] = [denom : Seq(Byte)]
<1>1. /\ DOMAIN Cases["QueryDenomAuthorityMetadataRequest"] = {1}
      /\ Cases["QueryDenomAuthorityMetadataRequest"][1] = Str("denom")
  BY DEF Cases, QueryDenomAuthorityMetadataRequestCases
<1>2. /\ Types["QueryDenomAuthorityMetadataRequest"] = QueryDenomAuthorityMetadataRequest
      /\ Values["QueryDenomAuthorityMetadataRequest"] = [denom : Seq(Byte)]
  BY DEF Types, Values
<1> QED
  BY <1>1, <1>2

\* Its values are what its fields may hold.
LEMMA ShapeQueryDenomAuthorityMetadataRequest == Shape("QueryDenomAuthorityMetadataRequest")
<1> DEFINE T == "QueryDenomAuthorityMetadataRequest"
<1>1. /\ DOMAIN Cases[T] = {1}
      /\ Cases[T][1] = Str("denom")
  BY QueryDenomAuthorityMetadataRequestIs
<1>2. Types[T] = QueryDenomAuthorityMetadataRequest /\ Values[T] = [denom : Seq(Byte)]
  BY QueryDenomAuthorityMetadataRequestIs
<1>3. FieldShape(T, 1)
  <2>1. \A w \in Values[T] : /\ w["denom"] \in Seq(Byte)
                              /\ \A x \in Seq(Byte) : [w EXCEPT !["denom"] = x] \in Values[T]
    BY <1>2
  <2>2. "denom" \in DOMAIN Types[T] /\ Types[T]["denom"] = <<>>
    BY <1>2 DEF QueryDenomAuthorityMetadataRequest
  <2> QED
    BY <1>1, <2>1, <2>2, TextShape
<1>4. Types[T] \in Values[T] /\ \A w \in Values[T] : w = [f \in DOMAIN Types[T] |-> w[f]]
  BY <1>2 DEF QueryDenomAuthorityMetadataRequest
<1>5. /\ \A n, k \in DOMAIN Cases[T] : Cases[T][n].name = Cases[T][k].name => n = k
      /\ DOMAIN Types[T] = {Cases[T][n].name : n \in DOMAIN Cases[T]}
      /\ "none" \notin DOMAIN Types[T]
  BY <1>1, <1>2 DEF QueryDenomAuthorityMetadataRequest, Str
<1> HIDE DEF T
<1>6. DOMAIN Cases[T] \subseteq 1 .. 4
  BY <1>1
<1>7. \A n \in DOMAIN Cases[T] : FieldShape(T, n)
  BY <1>1, <1>3
<1>8. Shape(T)
  BY <1>4, <1>5, <1>6, <1>7 DEF Shape
<1> QED
  BY <1>8 DEF T

\* The fields of QueryDenomAuthorityMetadataResponse.
LEMMA QueryDenomAuthorityMetadataResponseIs ==
  /\ DOMAIN Cases["QueryDenomAuthorityMetadataResponse"] = {1}
  /\ Cases["QueryDenomAuthorityMetadataResponse"][1] = Embedded("authorityMetadata", "DenomAuthorityMetadata")
  /\ Types["QueryDenomAuthorityMetadataResponse"] = QueryDenomAuthorityMetadataResponse
  /\ Values["QueryDenomAuthorityMetadataResponse"] = [authorityMetadata : DenomAuthorityMetadataValues]
<1>1. /\ DOMAIN Cases["QueryDenomAuthorityMetadataResponse"] = {1}
      /\ Cases["QueryDenomAuthorityMetadataResponse"][1] =
           Embedded("authorityMetadata", "DenomAuthorityMetadata")
  BY DEF Cases, QueryDenomAuthorityMetadataResponseCases
<1>2. /\ Types["QueryDenomAuthorityMetadataResponse"] = QueryDenomAuthorityMetadataResponse
      /\ Values["QueryDenomAuthorityMetadataResponse"] =
           [authorityMetadata : DenomAuthorityMetadataValues]
  BY DEF Types, Values
<1> QED
  BY <1>1, <1>2

\* Its values are what its fields may hold.
LEMMA ShapeQueryDenomAuthorityMetadataResponse == Shape("QueryDenomAuthorityMetadataResponse")
<1> DEFINE T == "QueryDenomAuthorityMetadataResponse"
<1>1. /\ DOMAIN Cases[T] = {1}
      /\ Cases[T][1] = Embedded("authorityMetadata", "DenomAuthorityMetadata")
  BY QueryDenomAuthorityMetadataResponseIs
<1>2. /\ Types[T] = QueryDenomAuthorityMetadataResponse
      /\ Values[T] = [authorityMetadata : DenomAuthorityMetadataValues]
  BY QueryDenomAuthorityMetadataResponseIs
<1>3. /\ "DenomAuthorityMetadata" \in DOMAIN Types
      /\ Values["DenomAuthorityMetadata"] = DenomAuthorityMetadataValues
      /\ Types["DenomAuthorityMetadata"] = DenomAuthorityMetadata
  BY DEF Types, Values
<1>4. Level("DenomAuthorityMetadata") < Level(T)
  BY DEF Level
<1>5. Flat("DenomAuthorityMetadata")
  BY DEF Flat, Cases, DenomAuthorityMetadataCases, Str
<1>6. FieldShape(T, 1)
  <2>1. \A w \in Values[T] : /\ w["authorityMetadata"] \in DenomAuthorityMetadataValues
                              /\ \A x \in DenomAuthorityMetadataValues : [w EXCEPT !["authorityMetadata"] = x] \in Values[T]
    BY <1>2
  <2>2. /\ "authorityMetadata" \in DOMAIN Types[T]
        /\ Types[T]["authorityMetadata"] = Types["DenomAuthorityMetadata"]
    BY <1>2, <1>3 DEF QueryDenomAuthorityMetadataResponse
  <2> QED
    BY <1>1, <2>1, <2>2, <1>3, <1>4, <1>5, MessageShape
<1>7. Types[T] \in Values[T] /\ \A w \in Values[T] : w = [f \in DOMAIN Types[T] |-> w[f]]
  BY <1>2 DEF DenomAuthorityMetadata, DenomAuthorityMetadataValues, QueryDenomAuthorityMetadataResponse
<1>8. /\ \A n, k \in DOMAIN Cases[T] : Cases[T][n].name = Cases[T][k].name => n = k
      /\ DOMAIN Types[T] = {Cases[T][n].name : n \in DOMAIN Cases[T]}
      /\ "none" \notin DOMAIN Types[T]
  BY <1>1, <1>2 DEF QueryDenomAuthorityMetadataResponse, Embedded
<1> HIDE DEF T
<1>9. DOMAIN Cases[T] \subseteq 1 .. 4
  BY <1>1
<1>10. \A n \in DOMAIN Cases[T] : FieldShape(T, n)
  BY <1>1, <1>6
<1>11. Shape(T)
  BY <1>7, <1>8, <1>9, <1>10 DEF Shape
<1> QED
  BY <1>11 DEF T

\* The fields of QueryDenomsFromCreatorRequest.
LEMMA QueryDenomsFromCreatorRequestIs ==
  /\ DOMAIN Cases["QueryDenomsFromCreatorRequest"] = {1}
  /\ Cases["QueryDenomsFromCreatorRequest"][1] = Str("creator")
  /\ Types["QueryDenomsFromCreatorRequest"] = QueryDenomsFromCreatorRequest
  /\ Values["QueryDenomsFromCreatorRequest"] = [creator : Seq(Byte)]
<1>1. /\ DOMAIN Cases["QueryDenomsFromCreatorRequest"] = {1}
      /\ Cases["QueryDenomsFromCreatorRequest"][1] = Str("creator")
  BY DEF Cases, QueryDenomsFromCreatorRequestCases
<1>2. /\ Types["QueryDenomsFromCreatorRequest"] = QueryDenomsFromCreatorRequest
      /\ Values["QueryDenomsFromCreatorRequest"] = [creator : Seq(Byte)]
  BY DEF Types, Values
<1> QED
  BY <1>1, <1>2

\* Its values are what its fields may hold.
LEMMA ShapeQueryDenomsFromCreatorRequest == Shape("QueryDenomsFromCreatorRequest")
<1> DEFINE T == "QueryDenomsFromCreatorRequest"
<1>1. /\ DOMAIN Cases[T] = {1}
      /\ Cases[T][1] = Str("creator")
  BY QueryDenomsFromCreatorRequestIs
<1>2. Types[T] = QueryDenomsFromCreatorRequest /\ Values[T] = [creator : Seq(Byte)]
  BY QueryDenomsFromCreatorRequestIs
<1>3. FieldShape(T, 1)
  <2>1. \A w \in Values[T] : /\ w["creator"] \in Seq(Byte)
                              /\ \A x \in Seq(Byte) : [w EXCEPT !["creator"] = x] \in Values[T]
    BY <1>2
  <2>2. "creator" \in DOMAIN Types[T] /\ Types[T]["creator"] = <<>>
    BY <1>2 DEF QueryDenomsFromCreatorRequest
  <2> QED
    BY <1>1, <2>1, <2>2, TextShape
<1>4. Types[T] \in Values[T] /\ \A w \in Values[T] : w = [f \in DOMAIN Types[T] |-> w[f]]
  BY <1>2 DEF QueryDenomsFromCreatorRequest
<1>5. /\ \A n, k \in DOMAIN Cases[T] : Cases[T][n].name = Cases[T][k].name => n = k
      /\ DOMAIN Types[T] = {Cases[T][n].name : n \in DOMAIN Cases[T]}
      /\ "none" \notin DOMAIN Types[T]
  BY <1>1, <1>2 DEF QueryDenomsFromCreatorRequest, Str
<1> HIDE DEF T
<1>6. DOMAIN Cases[T] \subseteq 1 .. 4
  BY <1>1
<1>7. \A n \in DOMAIN Cases[T] : FieldShape(T, n)
  BY <1>1, <1>3
<1>8. Shape(T)
  BY <1>4, <1>5, <1>6, <1>7 DEF Shape
<1> QED
  BY <1>8 DEF T

\* The fields of QueryDenomsFromCreatorResponse.
LEMMA QueryDenomsFromCreatorResponseIs ==
  /\ DOMAIN Cases["QueryDenomsFromCreatorResponse"] = {1}
  /\ Cases["QueryDenomsFromCreatorResponse"][1] = Strs("denoms")
  /\ Types["QueryDenomsFromCreatorResponse"] = QueryDenomsFromCreatorResponse
  /\ Values["QueryDenomsFromCreatorResponse"] = [denoms : Seq(Seq(Byte))]
<1>1. /\ DOMAIN Cases["QueryDenomsFromCreatorResponse"] = {1}
      /\ Cases["QueryDenomsFromCreatorResponse"][1] = Strs("denoms")
  BY DEF Cases, QueryDenomsFromCreatorResponseCases
<1>2. /\ Types["QueryDenomsFromCreatorResponse"] = QueryDenomsFromCreatorResponse
      /\ Values["QueryDenomsFromCreatorResponse"] = [denoms : Seq(Seq(Byte))]
  BY DEF Types, Values
<1> QED
  BY <1>1, <1>2

\* Its values are what its fields may hold.
LEMMA ShapeQueryDenomsFromCreatorResponse == Shape("QueryDenomsFromCreatorResponse")
<1> DEFINE T == "QueryDenomsFromCreatorResponse"
<1>1. /\ DOMAIN Cases[T] = {1}
      /\ Cases[T][1] = Strs("denoms")
  BY QueryDenomsFromCreatorResponseIs
<1>2. Types[T] = QueryDenomsFromCreatorResponse /\ Values[T] = [denoms : Seq(Seq(Byte))]
  BY QueryDenomsFromCreatorResponseIs
<1>3. FieldShape(T, 1)
  <2>1. \A w \in Values[T] : /\ w["denoms"] \in Seq(Seq(Byte))
                              /\ \A x \in Seq(Seq(Byte)) : [w EXCEPT !["denoms"] = x] \in Values[T]
    BY <1>2
  <2>2. "denoms" \in DOMAIN Types[T] /\ Types[T]["denoms"] = <<>>
    BY <1>2 DEF QueryDenomsFromCreatorResponse
  <2> QED
    BY <1>1, <2>1, <2>2, TextsShape
<1>4. Types[T] \in Values[T] /\ \A w \in Values[T] : w = [f \in DOMAIN Types[T] |-> w[f]]
  BY <1>2 DEF QueryDenomsFromCreatorResponse
<1>5. /\ \A n, k \in DOMAIN Cases[T] : Cases[T][n].name = Cases[T][k].name => n = k
      /\ DOMAIN Types[T] = {Cases[T][n].name : n \in DOMAIN Cases[T]}
      /\ "none" \notin DOMAIN Types[T]
  BY <1>1, <1>2 DEF QueryDenomsFromCreatorResponse, Strs
<1> HIDE DEF T
<1>6. DOMAIN Cases[T] \subseteq 1 .. 4
  BY <1>1
<1>7. \A n \in DOMAIN Cases[T] : FieldShape(T, n)
  BY <1>1, <1>3
<1>8. Shape(T)
  BY <1>4, <1>5, <1>6, <1>7 DEF Shape
<1> QED
  BY <1>8 DEF T

\* The types without fields.
LEMMA ShapeNothing ==
  ASSUME NEW T \in {"MsgMintResponse", "MsgBurnResponse", "MsgChangeAdminResponse",
                    "MsgSetDenomMetadataResponse", "MsgForceTransferResponse", "QueryParamsRequest"}
  PROVE  Shape(T)
<1>1. DOMAIN Cases[T] = {} /\ Types[T] = Nothing /\ Values[T] = {Nothing}
  BY DEF Cases, Types, Values, MsgMintResponseCases, MsgBurnResponseCases, MsgChangeAdminResponseCases,
     MsgSetDenomMetadataResponseCases, MsgForceTransferResponseCases, QueryParamsRequestCases
<1>2. Nothing = [f \in DOMAIN Nothing |-> Nothing[f]]
  BY DEF Nothing
<1> QED
  BY <1>1, <1>2 DEF Shape

\* Every type is so.
LEMMA Shapes == \A T \in DOMAIN Types : Shape(T)
<1>1. DOMAIN Types =
        {"Coin", "Metadata", "DenomAuthorityMetadata", "Params", "GenesisDenom", "GenesisState",
        "MsgCreateDenom", "MsgCreateDenomResponse", "MsgMint", "MsgBurn", "MsgChangeAdmin",
        "MsgSetDenomMetadata", "MsgForceTransfer", "QueryParamsResponse", "QueryDenomAuthorityMetadataRequest",
        "QueryDenomAuthorityMetadataResponse", "QueryDenomsFromCreatorRequest",
        "QueryDenomsFromCreatorResponse"}
                     \cup {"MsgMintResponse", "MsgBurnResponse", "MsgChangeAdminResponse",
                           "MsgSetDenomMetadataResponse", "MsgForceTransferResponse", "QueryParamsRequest"}
  BY DEF Types
<1> QED
  BY <1>1, ShapeCoin, ShapeMetadata, ShapeDenomAuthorityMetadata, ShapeParams, ShapeGenesisDenom,
     ShapeGenesisState, ShapeMsgCreateDenom, ShapeMsgCreateDenomResponse, ShapeMsgMint, ShapeMsgBurn,
     ShapeMsgChangeAdmin, ShapeMsgSetDenomMetadata, ShapeMsgForceTransfer, ShapeQueryParamsResponse,
     ShapeQueryDenomAuthorityMetadataRequest, ShapeQueryDenomAuthorityMetadataResponse,
     ShapeQueryDenomsFromCreatorRequest, ShapeQueryDenomsFromCreatorResponse, ShapeNothing

-----------------------------------------------------------------------------
(* What a field is written as, and how long that is.                        *)

\* A tag, a length and a payload.
LEMMA FieldIs ==
  ASSUME NEW tag \in Byte, NEW p \in Seq(Byte)
  PROVE  Field(tag, p) \in Seq(Byte) /\ Len(Field(tag, p)) = FieldSize(Len(p))
<1>1. Len(p) \in Nat
  BY LenProperties
<1> DEFINE e == encodeVarint[Len(p)]
           h == <<tag>>
           size == sov(Len(p))
<1>2. e \in Seq(Byte) /\ Len(e) \in Nat /\ size = Len(e)
  BY <1>1, EncodeIs, SizeOfVarint
<1>3. h \in Seq(Byte) /\ Len(h) = 1
  OBVIOUS
<1>4. Field(tag, p) = (h \o e) \o p
  BY DEF Field
<1>5. FieldSize(Len(p)) = 1 + Len(p) + size
  BY DEF FieldSize
<1> HIDE DEF e, h, size
<1>6. h \o e \in Seq(Byte) /\ Len(h \o e) = 1 + Len(e)
  BY <1>2, <1>3, ConcatProperties, ZenonT(60)
<1>7. (h \o e) \o p \in Seq(Byte) /\ Len((h \o e) \o p) = Len(h \o e) + Len(p)
  BY <1>6, ConcatProperties
<1> QED
  BY <1>1, <1>2, <1>4, <1>6, <1>7, <1>5

\* A tag and a number.
LEMMA NumberIs ==
  ASSUME NEW tag \in Byte, NEW v \in Nat
  PROVE  <<tag>> \o encodeVarint[v] \in Seq(Byte) /\ Len(<<tag>> \o encodeVarint[v]) = 1 + sov(v)
<1> DEFINE e == encodeVarint[v]
           h == <<tag>>
<1>1. e \in Seq(Byte) /\ Len(e) \in Nat /\ sov(v) = Len(e)
  BY EncodeIs, SizeOfVarint
<1>2. h \in Seq(Byte) /\ Len(h) = 1
  OBVIOUS
<1> HIDE DEF e, h
<1>3. h \o e \in Seq(Byte) /\ Len(h \o e) = 1 + Len(e)
  BY <1>1, <1>2, ConcatProperties, ZenonT(60)
<1> QED
  BY <1>1, <1>3 DEF e, h

\* The tags are bytes.
LEMMA TagBytes == \A n \in 1 .. 4 : 8 * n \in Byte /\ 8 * n + 2 \in Byte
BY DEF Byte

\* The lengths of pieces in a row add up.
LEMMA LengthsAddUp ==
  ASSUME NEW s \in Seq(Seq(Byte)),
         NEW z, DOMAIN z = DOMAIN s, \A i \in DOMAIN s : z[i] = Len(s[i]),
         z = [i \in DOMAIN s |-> z[i]]
  PROVE  Len(FlattenSeq(s)) = SumFunction(z)
<1> DEFINE N == Len(s)
           Sum(S) == SumFunctionOnSet(z, S)
           Pre(j) == FlattenSeq(SubSeq(s, 1, j))
<1>1. N \in Nat /\ DOMAIN s = 1 .. N
      /\ (\A i \in 1 .. N : s[i] \in Seq(Byte) /\ z[i] = Len(s[i]) /\ z[i] \in Nat)
  BY LenProperties
<1>2. SumFunction(z) = Sum(1 .. N)
  BY <1>1 DEF SumFunction
<1>3. ASSUME NEW j \in Nat
      PROVE  IsFiniteSet(1 .. j)
  <2>1. 1 \in Int /\ j \in Int
    OBVIOUS
  <2> QED
    BY ONLY <2>1, FS_Interval
<1>4. <<>> \in Seq(Byte) /\ <<>> \in Seq(Seq(Byte)) /\ Len(<<>>) = 0
  BY EmptySeq
<1>5. Len(Pre(0)) = Sum(1 .. 0)
  <2>1. SubSeq(s, 1, 0) = <<>>
    BY SubSeqEmpty
  <2>2. FlattenSeq(<<>>) = <<>>
    BY <1>4, FlattenAppend
  <2>3. 1 .. 0 = {} /\ IsFiniteSet({})
    BY FS_EmptySet
  <2>4. Sum({}) = 0
    BY <2>3, SumStep
  <2> QED
    BY <1>4, <2>1, <2>2, <2>3, <2>4
<1>6. ASSUME NEW j \in 0 .. N - 1, Len(Pre(j)) = Sum(1 .. j)
      PROVE  Len(Pre(j + 1)) = Sum(1 .. j + 1)
  <2>1. j \in Nat /\ j + 1 \in 1 .. N /\ s[j + 1] \in Seq(Byte) /\ z[j + 1] = Len(s[j + 1])
    BY <1>1
  <2>2. SubSeq(s, 1, j) \in Seq(Seq(Byte)) /\ SubSeq(s, 1, j + 1) = Append(SubSeq(s, 1, j), s[j + 1])
    <3>1. SubSeq(s, 1, j) \in Seq(Seq(Byte)) /\ SubSeq(s, 1, j + 1) \in Seq(Seq(Byte))
          /\ Len(SubSeq(s, 1, j)) = j /\ Len(SubSeq(s, 1, j + 1)) = j + 1
          /\ (\A i \in 1 .. j : SubSeq(s, 1, j)[i] = s[i])
          /\ (\A i \in 1 .. j + 1 : SubSeq(s, 1, j + 1)[i] = s[i])
      BY <1>1, <2>1, SubSeqProperties, SMTT(30)
    <3>2. Append(SubSeq(s, 1, j), s[j + 1]) \in Seq(Seq(Byte))
          /\ Len(Append(SubSeq(s, 1, j), s[j + 1])) = j + 1
          /\ (\A i \in 1 .. j : Append(SubSeq(s, 1, j), s[j + 1])[i] = s[i])
          /\ Append(SubSeq(s, 1, j), s[j + 1])[j + 1] = s[j + 1]
      BY <2>1, <3>1, AppendProperties, SMTT(30)
    <3>3. \A i \in 1 .. j + 1 : Append(SubSeq(s, 1, j), s[j + 1])[i] = SubSeq(s, 1, j + 1)[i]
      BY <2>1, <3>1, <3>2, SMTT(30)
    <3> QED
      BY <3>1, <3>2, <3>3, SeqEqual, SMTT(30)
  <2>3. Pre(j) \in Seq(Byte) /\ Pre(j + 1) = Pre(j) \o s[j + 1]
    BY <2>1, <2>2, FlattenAppend
  <2>4. Len(Pre(j + 1)) = Len(Pre(j)) + Len(s[j + 1])
    <3> HIDE DEF Pre, N
    <3> QED
      BY <2>1, <2>3, ConcatProperties
  <2>5. Sum(1 .. j + 1) = z[j + 1] + Sum((1 .. j + 1) \ {j + 1})
    <3>1. IsFiniteSet(1 .. j + 1) /\ (\A x \in 1 .. j + 1 : z[x] \in Int) /\ j + 1 \in 1 .. j + 1
      BY <1>1, <1>3, <2>1
    <3> QED
      BY <3>1, SumRemove
  <2>6. (1 .. j + 1) \ {j + 1} = 1 .. j
    BY <2>1
  <2>7. Sum(1 .. j) \in Int
    <3>1. IsFiniteSet(1 .. j) /\ (\A x \in 1 .. j : z[x] \in Int)
      BY <1>1, <1>3, <2>1
    <3> QED
      BY <3>1, SumType
  <2>8. Len(s[j + 1]) \in Int
    BY <2>1, LenProperties
  <2>9. Sum(1 .. j + 1) = Len(s[j + 1]) + Sum(1 .. j)
    BY <2>1, <2>5, <2>6
  <2>10. Len(Pre(j + 1)) = Sum(1 .. j) + Len(s[j + 1])
    BY <1>6, <2>4
  <2> DEFINE a == Sum(1 .. j)
             b == Len(s[j + 1])
  <2>11. a + b = b + a
    <3> HIDE DEF a, b
    <3> QED
      BY <2>7, <2>8 DEF a, b
  <2> HIDE DEF Pre
  <2> QED
    BY <2>9, <2>10, <2>11
<1> DEFINE P == {n \in Nat : n <= N => Len(Pre(n)) = Sum(1 .. n)}
<1>7. Nat \subseteq P
  <2> SUFFICES ASSUME NEW n \in Nat, \A m \in Nat : m < n => m \in P
               PROVE  n \in P
    <3> HIDE DEF P
    <3> QED
      BY StrongInduction
  <2>1. CASE n = 0
    BY <1>5, <2>1
  <2>2. CASE n # 0
    <3>1. n - 1 \in Nat /\ n - 1 < n /\ (n - 1) + 1 = n
      BY <2>2
    <3>2. n - 1 \in P
      BY <3>1
    <3>3. CASE n <= N
      <4>1. n - 1 \in 0 .. N - 1
        BY <1>1, <3>1, <3>3
      <4>2. Len(Pre(n - 1)) = Sum(1 .. n - 1)
        BY <3>2, <1>1, <4>1
      <4>3. Len(Pre((n - 1) + 1)) = Sum(1 .. (n - 1) + 1)
        <5> HIDE DEF Sum, Pre, N
        <5> QED
          BY <1>6, <4>1, <4>2
      <4> QED
        BY <3>1, <4>3
    <3> QED
      BY <3>3
  <2> QED
    BY <2>1, <2>2
<1>8. Len(Pre(N)) = Sum(1 .. N)
  <2>1. N \in P
    <3> HIDE DEF P
    <3> QED
      BY <1>1, <1>7
  <2> QED
    BY <1>1, <2>1
<1>9. SubSeq(s, 1, N) = s
  BY SubSeqFull
<1> QED
  BY <1>2, <1>8, <1>9

\* None or one payload.
LEMMA PiecesOf ==
  ASSUME NEW T, NEW n, NEW x
  PROVE  /\ Payloads(T, n, x) = <<>> => Pieces(T, n, x) = <<>> /\ FlattenSeq(Pieces(T, n, x)) = <<>>
         /\ \A p : Payloads(T, n, x) = <<p>> => Pieces(T, n, x) = <<Piece(T, n, p)>>
<1>1. Payloads(T, n, x) = <<>> => Pieces(T, n, x) = <<>>
  BY DEF Pieces
<1>2. FlattenSeq(<<>>) = <<>>
  <2>1. <<>> \in Seq(Byte) /\ <<>> \in Seq(Seq(Byte))
    BY EmptySeq
  <2> QED
    BY <2>1, FlattenAppend
<1>3. ASSUME NEW p, Payloads(T, n, x) = <<p>>
      PROVE  Pieces(T, n, x) = <<Piece(T, n, p)>>
  BY <1>3 DEF Pieces
<1> QED
  BY <1>1, <1>2, <1>3

\* What is written of a string, and what Size counts for it.
LEMMA TextBytes ==
  ASSUME NEW T, NEW n \in 1 .. 4, n \in DOMAIN Cases[T], NEW name, Cases[T][n] = Str(name),
         NEW w, w[name] \in Seq(Byte), ~(T = "Coin" /\ n = 2)
  PROVE  /\ FieldBytes(T, n, w) = Text(8 * n + 2, w[name])
         /\ FieldBytes(T, n, w) \in Seq(Byte) /\ Len(FieldBytes(T, n, w)) = TextSize(w[name])
<1> DEFINE c == Cases[T][n]
           x == w[name]
<1>1. c.kind = "text" /\ c.name = name
  BY DEF Str
<1>2. FieldBytes(T, n, w) = FlattenSeq(Pieces(T, n, x))
  BY <1>1 DEF FieldBytes
<1>3. LeftOut(T, n, x) <=> x = <<>>
  BY <1>1 DEF LeftOut
<1>4. CASE x = <<>>
  <2>1. Payloads(T, n, x) = <<>>
    BY <1>1, <1>3, <1>4 DEF Payloads
  <2>2. Text(8 * n + 2, x) = <<>> /\ TextSize(x) = 0
    BY <1>4 DEF Text, TextSize
  <2>3. <<>> \in Seq(Byte) /\ Len(<<>>) = 0
    BY EmptySeq
  <2> QED
    BY <1>2, <2>1, <2>2, <2>3, PiecesOf, ZenonT(30)
<1>5. CASE x # <<>>
  <2>1. Payloads(T, n, x) = <<x>>
    BY <1>1, <1>3, <1>5 DEF Payloads
  <2>2. Pieces(T, n, x) = <<Field(8 * n + 2, x)>>
    BY <1>1, <2>1, PiecesOf, ZenonT(60) DEF Piece
  <2>3. Field(8 * n + 2, x) \in Seq(Byte) /\ Len(Field(8 * n + 2, x)) = FieldSize(Len(x))
    BY TagBytes, FieldIs
  <2>4. FlattenSeq(<<Field(8 * n + 2, x)>>) = Field(8 * n + 2, x)
    BY <2>3, FlattenOne
  <2>5. Text(8 * n + 2, x) = Field(8 * n + 2, x) /\ TextSize(x) = FieldSize(Len(x))
    BY <1>5 DEF Text, TextSize
  <2> QED
    BY <1>2, <2>2, <2>3, <2>4, <2>5
<1> QED
  BY <1>4, <1>5

\* What is written of the amount of a coin: it is written even when it is empty.
LEMMA AmountBytes ==
  ASSUME NEW w \in Values["Coin"]
  PROVE  /\ FieldBytes("Coin", 2, w) = Field(18, w.amount)
         /\ FieldBytes("Coin", 2, w) \in Seq(Byte)
         /\ Len(FieldBytes("Coin", 2, w)) = FieldSize(Len(w.amount))
<1> DEFINE c == Cases["Coin"][2]
           x == w.amount
<1>1. c.kind = "text" /\ c.name = "amount" /\ 2 \in DOMAIN Cases["Coin"]
  BY CoinIs DEF Str
<1>2. FieldBytes("Coin", 2, w) = FlattenSeq(Pieces("Coin", 2, x)) /\ x \in Seq(Byte)
  BY <1>1, CoinIs DEF FieldBytes, CoinValues
<1>3. ~LeftOut("Coin", 2, x)
  BY <1>1 DEF LeftOut
<1>4. Payloads("Coin", 2, x) = <<x>>
  BY <1>1, <1>3 DEF Payloads
<1>5. Pieces("Coin", 2, x) = <<Field(18, x)>>
  <2>1. Pieces("Coin", 2, x) = <<Piece("Coin", 2, x)>>
    BY <1>4, PiecesOf
  <2>2. 8 * 2 + 2 = 18
    OBVIOUS
  <2> QED
    BY <1>1, <2>1, <2>2 DEF Piece
<1>6. Field(18, x) \in Seq(Byte) /\ Len(Field(18, x)) = FieldSize(Len(x))
  <2>1. 18 \in Byte
    BY DEF Byte
  <2> QED
    BY <1>2, <2>1, FieldIs
<1>7. FlattenSeq(<<Field(18, x)>>) = Field(18, x)
  BY <1>6, FlattenOne
<1> QED
  BY <1>2, <1>5, <1>6, <1>7

\* What is written of a number.
LEMMA NumberBytes ==
  ASSUME NEW T, NEW n \in 1 .. 4, n \in DOMAIN Cases[T], NEW name, Cases[T][n] = Uint(name),
         NEW w, w[name] \in 0 .. Word - 1
  PROVE  /\ FieldBytes(T, n, w) = Number(8 * n, w[name])
         /\ FieldBytes(T, n, w) \in Seq(Byte) /\ Len(FieldBytes(T, n, w)) = NumberSize(w[name])
<1> DEFINE c == Cases[T][n]
           x == w[name]
           r == <<8 * n>> \o encodeVarint[x]
<1>1. c.kind = "number" /\ c.name = name
  BY DEF Uint
<1>2. FieldBytes(T, n, w) = FlattenSeq(Pieces(T, n, x))
  BY <1>1 DEF FieldBytes
<1>3. LeftOut(T, n, x) <=> x = 0
  BY <1>1 DEF LeftOut
<1>4. CASE x = 0
  <2>1. Payloads(T, n, x) = <<>>
    BY <1>1, <1>3, <1>4 DEF Payloads
  <2>2. Number(8 * n, x) = <<>> /\ NumberSize(x) = 0
    BY <1>4 DEF Number, NumberSize
  <2>3. <<>> \in Seq(Byte) /\ Len(<<>>) = 0
    BY EmptySeq
  <2> QED
    BY <1>2, <2>1, <2>2, <2>3, PiecesOf
<1>5. CASE x # 0
  <2>1. Payloads(T, n, x) = <<x>>
    BY <1>1, <1>3, <1>5 DEF Payloads
  <2>2. Pieces(T, n, x) = <<r>>
    BY <1>1, <2>1, PiecesOf DEF Piece
  <2>3. r \in Seq(Byte) /\ Len(r) = 1 + sov(x)
    <3>1. x \in Nat
      OBVIOUS
    <3> QED
      BY <3>1, TagBytes, NumberIs
  <2>4. FlattenSeq(<<r>>) = r
    BY <2>3, FlattenOne
  <2>5. Number(8 * n, x) = r /\ NumberSize(x) = 1 + sov(x)
    BY <1>5 DEF Number, NumberSize
  <2> QED
    BY <1>2, <2>2, <2>3, <2>4, <2>5
<1> QED
  BY <1>4, <1>5

\* Marshal, Size and the cases of a type agree on a value: its fields are written
\* in the order of their numbers, and Size is the length of what is written.
Agrees(T, w) ==
  /\ Marshal(T, w) = BytesOf(T, w)
  /\ Marshal(T, w) \in Seq(Byte)
  /\ SizeOf(T, w) = Len(Marshal(T, w))
  /\ \A n \in 1 .. 4 : FieldBytes(T, n, w) \in Seq(Byte)

Marshalled(T) == \A w \in Values[T] : Agrees(T, w)

\* What is written of an embedded message, of a type that agrees with itself.
LEMMA MessageBytes ==
  ASSUME NEW T, NEW n \in 1 .. 4, n \in DOMAIN Cases[T], NEW name, NEW U, Marshalled(U),
         Cases[T][n] = Embedded(name, U), NEW w, w[name] \in Values[U]
  PROVE  /\ FieldBytes(T, n, w) = Field(8 * n + 2, Marshal(U, w[name]))
         /\ FieldBytes(T, n, w) \in Seq(Byte)
         /\ Len(FieldBytes(T, n, w)) = FieldSize(SizeOf(U, w[name]))
<1> DEFINE c == Cases[T][n]
           x == w[name]
           p == Marshal(U, x)
           r == Field(8 * n + 2, p)
<1>1. c.kind = "message" /\ c.name = name /\ c.type = U
  BY DEF Embedded
<1>2. FieldBytes(T, n, w) = FlattenSeq(Pieces(T, n, x))
  BY <1>1 DEF FieldBytes
<1>3. ~LeftOut(T, n, x)
  BY <1>1 DEF LeftOut
<1>4. Payloads(T, n, x) = <<p>>
  BY <1>1, <1>3 DEF Payloads
<1>5. Pieces(T, n, x) = <<r>>
  BY <1>1, <1>4, PiecesOf, ZenonT(60) DEF Piece
<1>6. p \in Seq(Byte) /\ SizeOf(U, x) = Len(p)
  BY DEF Marshalled, Agrees
<1>7. r \in Seq(Byte) /\ Len(r) = FieldSize(Len(p))
  <2> HIDE DEF p
  <2> QED
    BY <1>6, TagBytes, FieldIs
<1>8. FlattenSeq(<<r>>) = r
  BY <1>7, FlattenOne
<1> QED
  BY <1>2, <1>5, <1>6, <1>7, <1>8

\* Repeated fields.
LEMMA EachBytes ==
  ASSUME NEW tag \in Byte, NEW s \in Seq(Seq(Byte))
  PROVE  /\ Each(tag, s) \in Seq(Byte)
         /\ Len(Each(tag, s)) = EachSize([i \in DOMAIN s |-> Len(s[i])])
         /\ [i \in DOMAIN s |-> Field(tag, s[i])] \in Seq(Seq(Byte))
<1> DEFINE t == [i \in DOMAIN s |-> Field(tag, s[i])]
           z == [i \in DOMAIN s |-> FieldSize(Len(s[i]))]
           l == [i \in DOMAIN s |-> Len(s[i])]
<1>1. Len(s) \in Nat /\ DOMAIN s = 1 .. Len(s) /\ \A i \in DOMAIN s : s[i] \in Seq(Byte)
  BY LenProperties
<1>2. \A i \in DOMAIN s : t[i] \in Seq(Byte) /\ Len(t[i]) = z[i]
  BY <1>1, FieldIs
<1>3. t \in Seq(Seq(Byte)) /\ DOMAIN t = DOMAIN s
  BY <1>1, <1>2
<1>4. Len(FlattenSeq(t)) = SumFunction(z)
  <2> HIDE DEF t
  <2>1. z = [i \in DOMAIN t |-> z[i]] /\ DOMAIN z = DOMAIN t /\ \A i \in DOMAIN t : z[i] = Len(t[i])
    BY <1>2, <1>3
  <2> HIDE DEF z
  <2> QED
    BY <1>3, <2>1, LengthsAddUp
<1>5. EachSize(l) = SumFunction(z)
  <2>1. [i \in DOMAIN l |-> FieldSize(l[i])] = z
    OBVIOUS
  <2> QED
    BY <2>1 DEF EachSize
<1>6. FlattenSeq(t) \in Seq(Byte)
  <2>1. <<>> \in Seq(Byte)
    BY EmptySeq
  <2> HIDE DEF t
  <2> QED
    BY <1>3, <2>1, FlattenAppend
<1> QED
  BY <1>3, <1>4, <1>5, <1>6 DEF Each

\* What is written of a list of strings.
LEMMA TextsBytes ==
  ASSUME NEW T, NEW n \in 1 .. 4, n \in DOMAIN Cases[T], NEW name, Cases[T][n] = Strs(name),
         NEW w, w[name] \in Seq(Seq(Byte))
  PROVE  FieldBytes(T, n, w) = Each(8 * n + 2, w[name])
<1> DEFINE c == Cases[T][n]
           x == w[name]
<1>1. c.kind = "texts" /\ c.name = name
  BY DEF Strs
<1>2. FieldBytes(T, n, w) = FlattenSeq(Pieces(T, n, x))
  BY <1>1 DEF FieldBytes
<1>3. ~LeftOut(T, n, x)
  BY <1>1 DEF LeftOut
<1>4. Payloads(T, n, x) = x
  BY <1>1, <1>3 DEF Payloads
<1>5. Pieces(T, n, x) = [i \in DOMAIN x |-> Field(8 * n + 2, x[i])]
  BY <1>1, <1>4 DEF Pieces, Piece
<1>6. FieldBytes(T, n, w) = Each(8 * n + 2, x)
  BY <1>2, <1>5 DEF Each
<1> QED
  BY <1>6

\* A function on 1 .. n is a sequence.
LEMMA Listed ==
  ASSUME NEW B, NEW n \in Nat, NEW f \in [1 .. n -> B]
  PROVE  f \in Seq(B) /\ Len(f) = n /\ DOMAIN f = 1 .. n
OBVIOUS

\* What is written of a list of messages, of a type that agrees with itself.
LEMMA MessagesBytes ==
  ASSUME NEW T, NEW n \in 1 .. 4, n \in DOMAIN Cases[T], NEW name, NEW U, Marshalled(U),
         Cases[T][n] = Repeated(name, U), NEW w, w[name] \in Seq(Values[U])
  PROVE  /\ FieldBytes(T, n, w) = Each(8 * n + 2, [i \in DOMAIN w[name] |-> Marshal(U, w[name][i])])
         /\ FieldBytes(T, n, w) \in Seq(Byte)
         /\ Len(FieldBytes(T, n, w)) = EachSize([i \in DOMAIN w[name] |-> SizeOf(U, w[name][i])])
<1> DEFINE c == Cases[T][n]
           x == w[name]
           s == [i \in DOMAIN x |-> Marshal(U, x[i])]
<1>1. c.kind = "messages" /\ c.name = name /\ c.type = U
  BY DEF Repeated
<1>2. FieldBytes(T, n, w) = FlattenSeq(Pieces(T, n, x))
  BY <1>1 DEF FieldBytes
<1>3. ~LeftOut(T, n, x)
  BY <1>1 DEF LeftOut
<1>4. Payloads(T, n, x) = s
  BY <1>1, <1>3 DEF Payloads
<1>5. Pieces(T, n, x) = [i \in DOMAIN s |-> Field(8 * n + 2, s[i])]
  <2> HIDE DEF s
  <2> QED
    BY <1>1, <1>4 DEF Pieces, Piece
<1>6. FieldBytes(T, n, w) = Each(8 * n + 2, s)
  <2> HIDE DEF s
  <2> QED
    BY <1>2, <1>5 DEF Each
<1>7. s \in Seq(Seq(Byte)) /\ DOMAIN s = DOMAIN x
      /\ (\A i \in DOMAIN x : Len(s[i]) = SizeOf(U, x[i]))
  <2>1. Len(x) \in Nat /\ DOMAIN x = 1 .. Len(x) /\ \A i \in DOMAIN x : x[i] \in Values[U]
    BY LenProperties
  <2>2. \A i \in DOMAIN x : s[i] \in Seq(Byte) /\ Len(s[i]) = SizeOf(U, x[i])
    BY <2>1 DEF Marshalled, Agrees
  <2>3. DOMAIN s = DOMAIN x
    OBVIOUS
  <2>4. s = [i \in 1 .. Len(x) |-> s[i]]
    BY <2>1, <2>3
  <2> HIDE DEF s
  <2>5. s \in [1 .. Len(x) -> Seq(Byte)]
    BY <2>1, <2>2, <2>4
  <2>6. s \in Seq(Seq(Byte))
    BY <2>1, <2>5, Listed
  <2> QED
    BY <2>2, <2>3, <2>6
<1>8. [i \in DOMAIN s |-> Len(s[i])] = [i \in DOMAIN x |-> SizeOf(U, x[i])]
  <2> HIDE DEF s
  <2> QED
    BY <1>7
<1>9. /\ Each(8 * n + 2, s) \in Seq(Byte)
      /\ Len(Each(8 * n + 2, s)) = EachSize([i \in DOMAIN s |-> Len(s[i])])
  <2> HIDE DEF s
  <2> QED
    BY <1>7, TagBytes, EachBytes
<1> QED
  BY <1>6, <1>8, <1>9

\* Up to four fields in a row.
LEMMA RowType ==
  ASSUME NEW a \in Seq(Byte), NEW b \in Seq(Byte), NEW c \in Seq(Byte), NEW d \in Seq(Byte)
  PROVE  /\ Row(a, b, c, d) \in Seq(Byte)
         /\ Len(Row(a, b, c, d)) = Len(a) + Len(b) + Len(c) + Len(d)
<1>1. c \o d \in Seq(Byte) /\ Len(c \o d) = Len(c) + Len(d)
  BY ConcatProperties
<1>2. /\ b \o (c \o d) \in Seq(Byte) /\ Len(b \o (c \o d)) = Len(b) + Len(c \o d)
  BY <1>1, ConcatProperties
<1>3. a \o (b \o (c \o d)) \in Seq(Byte) /\ Len(a \o (b \o (c \o d))) = Len(a) + Len(b \o (c \o d))
  BY <1>2, ConcatProperties
<1>4. Len(a) \in Nat /\ Len(b) \in Nat /\ Len(c) \in Nat /\ Len(d) \in Nat
  BY LenProperties
<1>5. Len(a \o (b \o (c \o d))) = Len(a) + Len(b) + Len(c) + Len(d)
  BY <1>1, <1>2, <1>3, <1>4
<1> QED
  BY <1>3, <1>5 DEF Row

\* A field that a type does not have.
LEMMA NoBytes ==
  ASSUME NEW T, NEW n, n \notin DOMAIN Cases[T]
  PROVE  \A w : FieldBytes(T, n, w) = <<>> /\ FieldBytes(T, n, w) \in Seq(Byte)
                /\ Len(FieldBytes(T, n, w)) = 0
<1>1. <<>> \in Seq(Byte) /\ Len(<<>>) = 0
  BY EmptySeq
<1> QED
  BY <1>1 DEF FieldBytes

\* What is written of one field, or of the last two.
LEMMA RowOne ==
  ASSUME NEW a \in Seq(Byte)
  PROVE  a = Row(a, <<>>, <<>>, <<>>) /\ \A b \in Seq(Byte) : a \o b = Row(<<>>, <<>>, a, b)
<1>1. <<>> \o <<>> = <<>> /\ a \o <<>> = a
  BY EmptySeq, ConcatEmptySeq
<1>2. ASSUME NEW b \in Seq(Byte)
      PROVE  a \o b = <<>> \o (<<>> \o (a \o b))
  <2>1. a \o b \in Seq(Byte)
    BY ConcatProperties
  <2> QED
    BY <2>1, ConcatEmptySeq
<1> QED
  BY <1>1, <1>2 DEF Row

\* What is written of the first two fields, of the first three, and of all four.
LEMMA RowTwo ==
  ASSUME NEW a \in Seq(Byte), NEW b \in Seq(Byte)
  PROVE  a \o b = Row(a, b, <<>>, <<>>)
<1>1. <<>> \o <<>> = <<>> /\ b \o <<>> = b
  BY EmptySeq, ConcatEmptySeq
<1> QED
  BY <1>1 DEF Row

\* Of the first three fields.
LEMMA RowThree ==
  ASSUME NEW a \in Seq(Byte), NEW b \in Seq(Byte), NEW c \in Seq(Byte)
  PROVE  (a \o b) \o c = Row(a, b, c, <<>>)
<1>1. c \o <<>> = c
  BY ConcatEmptySeq
<1>2. (a \o b) \o c = a \o (b \o c)
  BY ConcatAssociative
<1> QED
  BY <1>1, <1>2 DEF Row

\* Of all four.
LEMMA RowFour ==
  ASSUME NEW a \in Seq(Byte), NEW b \in Seq(Byte), NEW c \in Seq(Byte), NEW d \in Seq(Byte)
  PROVE  ((a \o b) \o c) \o d = Row(a, b, c, d)
<1>1. a \o b \in Seq(Byte) /\ c \o d \in Seq(Byte)
  BY ConcatProperties
<1>2. ((a \o b) \o c) \o d = (a \o b) \o (c \o d)
  BY <1>1, ConcatAssociative, SMTT(30)
<1>3. (a \o b) \o (c \o d) = a \o (b \o (c \o d))
  BY <1>1, ConcatAssociative, SMTT(30)
<1> QED
  BY <1>2, <1>3 DEF Row

\* Four parts, written last to first.
LEMMA BackwardsFour ==
  ASSUME NEW a \in Seq(Byte), NEW b \in Seq(Byte), NEW c \in Seq(Byte), NEW d \in Seq(Byte)
  PROVE  Backwards(<<d, c, b, a>>) = Row(a, b, c, d)
<1>1. ASSUME NEW s \in Seq(Seq(Byte)), NEW e \in Seq(Byte)
      PROVE  FlattenSeq(Append(s, e)) = FlattenSeq(s) \o e /\ Append(s, e) \in Seq(Seq(Byte))
  BY FlattenAppend, AppendProperties
<1>2. Reverse(<<d, c, b, a>>) = Append(Append(Append(<<a>>, b), c), d)
  BY DEF Reverse
<1>3. <<a>> \in Seq(Seq(Byte)) /\ FlattenSeq(<<a>>) = a
  BY FlattenOne
<1>4. FlattenSeq(Append(<<a>>, b)) = a \o b /\ Append(<<a>>, b) \in Seq(Seq(Byte))
  BY <1>1, <1>3
<1>5. /\ FlattenSeq(Append(Append(<<a>>, b), c)) = (a \o b) \o c
      /\ Append(Append(<<a>>, b), c) \in Seq(Seq(Byte))
  BY <1>1, <1>4
<1>6. FlattenSeq(Append(Append(Append(<<a>>, b), c), d)) = ((a \o b) \o c) \o d
  BY <1>1, <1>5
<1>7. Backwards(<<d, c, b, a>>) = ((a \o b) \o c) \o d
  BY <1>2, <1>6 DEF Backwards
<1> QED
  BY <1>7, RowFour, ZenonT(30)

-----------------------------------------------------------------------------
(* A type agrees with itself when its Marshal writes what its cases read.    *)

\* A value of which these four parts are written, of which Size is the length.
LEMMA AgreesIf ==
  ASSUME NEW T, NEW w, NEW a \in Seq(Byte), NEW b \in Seq(Byte), NEW c \in Seq(Byte), NEW d \in Seq(Byte),
         FieldBytes(T, 1, w) = a, FieldBytes(T, 2, w) = b, FieldBytes(T, 3, w) = c, FieldBytes(T, 4, w) = d,
         Marshal(T, w) = Row(a, b, c, d), SizeOf(T, w) = Len(a) + Len(b) + Len(c) + Len(d)
  PROVE  Agrees(T, w)
<1>1. BytesOf(T, w) = Row(a, b, c, d)
  BY DEF BytesOf
<1>2. Row(a, b, c, d) \in Seq(Byte) /\ Len(Row(a, b, c, d)) = SizeOf(T, w)
  BY RowType, SMTT(30)
<1>3. ASSUME NEW n \in 1 .. 4
      PROVE  FieldBytes(T, n, w) \in Seq(Byte)
  <2>1. n = 1 \/ n = 2 \/ n = 3 \/ n = 4
    OBVIOUS
  <2> QED
    BY <2>1
<1> QED
  BY <1>1, <1>2, <1>3 DEF Agrees

\* A type of one field.
LEMMA OneAgrees ==
  ASSUME NEW T, NEW w, DOMAIN Cases[T] = {1}, NEW a,
         FieldBytes(T, 1, w) = a, a \in Seq(Byte),
         Marshal(T, w) = a, SizeOf(T, w) = Len(a)
  PROVE  Agrees(T, w)
<1>1. <<>> \in Seq(Byte) /\ Len(<<>>) = 0 /\ Len(a) \in Nat
  BY EmptySeq, LenProperties
<1>2. FieldBytes(T, 2, w) = <<>> /\ FieldBytes(T, 3, w) = <<>> /\ FieldBytes(T, 4, w) = <<>>
  <2>1. 2 \notin DOMAIN Cases[T] /\ 3 \notin DOMAIN Cases[T] /\ 4 \notin DOMAIN Cases[T]
    OBVIOUS
  <2> QED
    BY <2>1, NoBytes
<1>3. a = Row(a, <<>>, <<>>, <<>>)
  BY RowOne
<1>4. SizeOf(T, w) = Len(a) + Len(<<>>) + Len(<<>>) + Len(<<>>)
  BY <1>1
<1> QED
  BY <1>1, <1>2, <1>3, <1>4, AgreesIf

\* A type of two, numbered one and two.
LEMMA TwoAgree ==
  ASSUME NEW T, NEW w, DOMAIN Cases[T] = {1, 2}, NEW a, NEW b,
         FieldBytes(T, 1, w) = a, FieldBytes(T, 2, w) = b, a \in Seq(Byte), b \in Seq(Byte),
         Marshal(T, w) = Backwards(<<b, a>>), SizeOf(T, w) = Len(a) + Len(b)
  PROVE  Agrees(T, w)
<1>1. <<>> \in Seq(Byte) /\ Len(<<>>) = 0 /\ Len(a) \in Nat /\ Len(b) \in Nat
  BY EmptySeq, LenProperties
<1>2. FieldBytes(T, 3, w) = <<>> /\ FieldBytes(T, 4, w) = <<>>
  <2>1. 3 \notin DOMAIN Cases[T] /\ 4 \notin DOMAIN Cases[T]
    OBVIOUS
  <2> QED
    BY <2>1, NoBytes
<1>3. Marshal(T, w) = a \o b
  BY BackwardsIs
<1>4. Marshal(T, w) = Row(a, b, <<>>, <<>>)
  BY <1>3, RowTwo
<1>5. SizeOf(T, w) = Len(a) + Len(b) + Len(<<>>) + Len(<<>>)
  BY <1>1
<1> QED
  BY <1>1, <1>2, <1>4, <1>5, AgreesIf

\* A type of two, numbered three and four.
LEMMA LastAgree ==
  ASSUME NEW T, NEW w, DOMAIN Cases[T] = {3, 4}, NEW a, NEW b,
         FieldBytes(T, 3, w) = a, FieldBytes(T, 4, w) = b, a \in Seq(Byte), b \in Seq(Byte),
         Marshal(T, w) = Backwards(<<b, a>>), SizeOf(T, w) = Len(a) + Len(b)
  PROVE  Agrees(T, w)
<1>1. <<>> \in Seq(Byte) /\ Len(<<>>) = 0 /\ Len(a) \in Nat /\ Len(b) \in Nat
  BY EmptySeq, LenProperties
<1>2. FieldBytes(T, 1, w) = <<>> /\ FieldBytes(T, 2, w) = <<>>
  <2>1. 1 \notin DOMAIN Cases[T] /\ 2 \notin DOMAIN Cases[T]
    OBVIOUS
  <2> QED
    BY <2>1, NoBytes
<1>3. Marshal(T, w) = a \o b
  BY BackwardsIs
<1>4. Marshal(T, w) = Row(<<>>, <<>>, a, b)
  BY <1>3, RowOne
<1>5. SizeOf(T, w) = Len(<<>>) + Len(<<>>) + Len(a) + Len(b)
  BY <1>1
<1> QED
  BY <1>1, <1>2, <1>4, <1>5, AgreesIf

\* A type of three.
LEMMA ThreeAgree ==
  ASSUME NEW T, NEW w, DOMAIN Cases[T] = {1, 2, 3}, NEW a, NEW b, NEW c,
         FieldBytes(T, 1, w) = a, FieldBytes(T, 2, w) = b, FieldBytes(T, 3, w) = c,
         a \in Seq(Byte), b \in Seq(Byte), c \in Seq(Byte),
         Marshal(T, w) = Backwards(<<c, b, a>>), SizeOf(T, w) = Len(a) + Len(b) + Len(c)
  PROVE  Agrees(T, w)
<1>1. <<>> \in Seq(Byte) /\ Len(<<>>) = 0 /\ Len(a) \in Nat /\ Len(b) \in Nat /\ Len(c) \in Nat
  BY EmptySeq, LenProperties
<1>2. FieldBytes(T, 4, w) = <<>>
  <2>1. 4 \notin DOMAIN Cases[T]
    OBVIOUS
  <2> QED
    BY <2>1, NoBytes
<1>3. Marshal(T, w) = (a \o b) \o c
  BY BackwardsIs, ZenonT(30)
<1>4. Marshal(T, w) = Row(a, b, c, <<>>)
  BY <1>3, RowThree
<1>5. SizeOf(T, w) = Len(a) + Len(b) + Len(c) + Len(<<>>)
  BY <1>1
<1> QED
  BY <1>1, <1>2, <1>4, <1>5, AgreesIf

\* A type of four.
LEMMA FourAgree ==
  ASSUME NEW T, NEW w, NEW a \in Seq(Byte), NEW b \in Seq(Byte), NEW c \in Seq(Byte), NEW d \in Seq(Byte),
         FieldBytes(T, 1, w) = a, FieldBytes(T, 2, w) = b, FieldBytes(T, 3, w) = c, FieldBytes(T, 4, w) = d,
         Marshal(T, w) = Backwards(<<d, c, b, a>>), SizeOf(T, w) = Len(a) + Len(b) + Len(c) + Len(d)
  PROVE  Agrees(T, w)
<1>1. Backwards(<<d, c, b, a>>) = Row(a, b, c, d)
  BY BackwardsFour
<1> QED
  BY <1>1, AgreesIf

-----------------------------------------------------------------------------
(* Each type agrees with itself.                                            *)

\* The code of Coin.
LEMMA CoinNamed ==
  \A w : Marshal("Coin", w) = MarshalCoin(w) /\ SizeOf("Coin", w) = SizeCoin(w)
BY DEF Marshal, SizeOf

\* What it writes and sizes is what its cases read.
LEMMA MarshalsCoin == Marshalled("Coin")
<1> SUFFICES ASSUME NEW w \in Values["Coin"]
             PROVE  Agrees("Coin", w)
  BY DEF Marshalled
<1> DEFINE T == "Coin"
           a == Text(10, w.denom)
           b == Field(18, w.amount)
<1>1. /\ w.denom \in Seq(Byte)
      /\ w.amount \in Seq(Byte)
  BY CoinIs DEF CoinValues
<1>2. FieldBytes(T, 1, w) = a /\ a \in Seq(Byte) /\ Len(a) = TextSize(w.denom)
  <2>1. 1 \in DOMAIN Cases[T] /\ Cases[T][1] = Str("denom") /\ 1 \in 1 .. 4 /\ 8 * 1 + 2 = 10
    BY CoinIs
  <2> QED
    BY <1>1, <2>1, TextBytes
<1>3. FieldBytes(T, 2, w) = b /\ b \in Seq(Byte) /\ Len(b) = FieldSize(Len(w.amount))
  BY AmountBytes
<1>4. Marshal(T, w) = Backwards(<<b, a>>)
  BY CoinNamed DEF MarshalCoin
<1>5. SizeOf(T, w) = Len(a) + Len(b)
  BY <1>2, <1>3, CoinNamed DEF SizeCoin
<1>6. DOMAIN Cases[T] = {1, 2}
  BY CoinIs
<1> HIDE DEF T, a, b
<1>7. Agrees(T, w)
  BY <1>2, <1>3, <1>4, <1>5, <1>6, TwoAgree
<1> QED
  BY <1>7 DEF T

\* The code of Metadata.
LEMMA MetadataNamed ==
  \A w : Marshal("Metadata", w) = MarshalMetadata(w) /\ SizeOf("Metadata", w) = SizeMetadata(w)
BY DEF Marshal, SizeOf

\* What it writes and sizes is what its cases read.
LEMMA MarshalsMetadata == Marshalled("Metadata")
<1> SUFFICES ASSUME NEW w \in Values["Metadata"]
             PROVE  Agrees("Metadata", w)
  BY DEF Marshalled
<1> DEFINE T == "Metadata"
           a == Text(26, w.base)
           b == Text(34, w.display)
<1>1. /\ w.base \in Seq(Byte)
      /\ w.display \in Seq(Byte)
  BY MetadataIs DEF MetadataValues
<1>2. FieldBytes(T, 3, w) = a /\ a \in Seq(Byte) /\ Len(a) = TextSize(w.base)
  <2>1. 3 \in DOMAIN Cases[T] /\ Cases[T][3] = Str("base") /\ 3 \in 1 .. 4 /\ 8 * 3 + 2 = 26
    BY MetadataIs
  <2> QED
    BY <1>1, <2>1, TextBytes
<1>3. FieldBytes(T, 4, w) = b /\ b \in Seq(Byte) /\ Len(b) = TextSize(w.display)
  <2>1. 4 \in DOMAIN Cases[T] /\ Cases[T][4] = Str("display") /\ 4 \in 1 .. 4 /\ 8 * 4 + 2 = 34
    BY MetadataIs
  <2> QED
    BY <1>1, <2>1, TextBytes
<1>4. Marshal(T, w) = Backwards(<<b, a>>)
  BY MetadataNamed DEF MarshalMetadata
<1>5. SizeOf(T, w) = Len(a) + Len(b)
  BY <1>2, <1>3, MetadataNamed DEF SizeMetadata
<1>6. DOMAIN Cases[T] = {3, 4}
  BY MetadataIs
<1> HIDE DEF T, a, b
<1>7. Agrees(T, w)
  BY <1>2, <1>3, <1>4, <1>5, <1>6, LastAgree
<1> QED
  BY <1>7 DEF T

\* The code of DenomAuthorityMetadata.
LEMMA DenomAuthorityMetadataNamed ==
  \A w : /\ Marshal("DenomAuthorityMetadata", w) = MarshalDenomAuthorityMetadata(w)
         /\ SizeOf("DenomAuthorityMetadata", w) = SizeDenomAuthorityMetadata(w)
BY DEF Marshal, SizeOf

\* What it writes and sizes is what its cases read.
LEMMA MarshalsDenomAuthorityMetadata == Marshalled("DenomAuthorityMetadata")
<1> SUFFICES ASSUME NEW w \in Values["DenomAuthorityMetadata"]
             PROVE  Agrees("DenomAuthorityMetadata", w)
  BY DEF Marshalled
<1> DEFINE T == "DenomAuthorityMetadata"
           a == Text(10, w.admin)
<1>1. w.admin \in Seq(Byte)
  BY DenomAuthorityMetadataIs DEF DenomAuthorityMetadataValues
<1>2. FieldBytes(T, 1, w) = a /\ a \in Seq(Byte) /\ Len(a) = TextSize(w.admin)
  <2>1. 1 \in DOMAIN Cases[T] /\ Cases[T][1] = Str("admin") /\ 1 \in 1 .. 4 /\ 8 * 1 + 2 = 10
    BY DenomAuthorityMetadataIs
  <2> QED
    BY <1>1, <2>1, TextBytes
<1>3. Marshal(T, w) = a
  BY DenomAuthorityMetadataNamed DEF MarshalDenomAuthorityMetadata
<1>4. SizeOf(T, w) = Len(a)
  BY <1>2, DenomAuthorityMetadataNamed DEF SizeDenomAuthorityMetadata
<1>5. DOMAIN Cases[T] = {1}
  BY DenomAuthorityMetadataIs
<1> HIDE DEF T, a
<1>6. Agrees(T, w)
  BY <1>2, <1>3, <1>4, <1>5, OneAgrees
<1> QED
  BY <1>6 DEF T

\* The code of Params.
LEMMA ParamsNamed ==
  \A w : Marshal("Params", w) = MarshalParams(w) /\ SizeOf("Params", w) = SizeParams(w)
BY DEF Marshal, SizeOf

\* What it writes and sizes is what its cases read.
LEMMA MarshalsParams == Marshalled("Params")
<1> SUFFICES ASSUME NEW w \in Values["Params"]
             PROVE  Agrees("Params", w)
  BY DEF Marshalled
<1> DEFINE T == "Params"
           a == Each(10, [i \in DOMAIN w.denomCreationFee |-> MarshalCoin(w.denomCreationFee[i])])
           b == Number(16, w.denomCreationGasConsume)
<1>1. /\ w.denomCreationFee \in Seq(CoinValues)
      /\ w.denomCreationGasConsume \in 0 .. Word - 1
  BY ParamsIs DEF ParamsAll
<1>2. /\ FieldBytes(T, 1, w) = a /\ a \in Seq(Byte)
      /\ Len(a) = EachSize([i \in DOMAIN w.denomCreationFee |-> SizeCoin(w.denomCreationFee[i])])
  <2>1. /\ 1 \in DOMAIN Cases[T] /\ Cases[T][1] = Repeated("denomCreationFee", "Coin")
        /\ 1 \in 1 .. 4 /\ 8 * 1 + 2 = 10
    BY ParamsIs
  <2>2. w["denomCreationFee"] \in Seq(Values["Coin"])
    BY <1>1, CoinIs
  <2> HIDE DEF T
  <2>3. /\ FieldBytes(T, 1, w) =
             Each(8 * 1 + 2, [i \in DOMAIN w.denomCreationFee |-> Marshal("Coin", w.denomCreationFee[i])])
        /\ FieldBytes(T, 1, w) \in Seq(Byte)
        /\ Len(FieldBytes(T, 1, w)) =
             EachSize([i \in DOMAIN w.denomCreationFee |-> SizeOf("Coin", w.denomCreationFee[i])])
    BY <2>1, <2>2, MarshalsCoin, MessagesBytes
  <2> QED
    BY <2>1, <2>3, CoinNamed
<1>3. FieldBytes(T, 2, w) = b /\ b \in Seq(Byte) /\ Len(b) = NumberSize(w.denomCreationGasConsume)
  <2>1. /\ 2 \in DOMAIN Cases[T] /\ Cases[T][2] = Uint("denomCreationGasConsume") /\ 2 \in 1 .. 4
        /\ 8 * 2 = 16
    BY ParamsIs
  <2> QED
    BY <1>1, <2>1, NumberBytes
<1>4. Marshal(T, w) = Backwards(<<b, a>>)
  BY ParamsNamed DEF MarshalParams
<1>5. SizeOf(T, w) = Len(a) + Len(b)
  BY <1>2, <1>3, ParamsNamed DEF SizeParams
<1>6. DOMAIN Cases[T] = {1, 2}
  BY ParamsIs
<1> HIDE DEF T, a, b
<1>7. Agrees(T, w)
  BY <1>2, <1>3, <1>4, <1>5, <1>6, TwoAgree
<1> QED
  BY <1>7 DEF T

\* The code of GenesisDenom.
LEMMA GenesisDenomNamed ==
  \A w : /\ Marshal("GenesisDenom", w) = MarshalGenesisDenom(w)
         /\ SizeOf("GenesisDenom", w) = SizeGenesisDenom(w)
BY DEF Marshal, SizeOf

\* What it writes and sizes is what its cases read.
LEMMA MarshalsGenesisDenom == Marshalled("GenesisDenom")
<1> SUFFICES ASSUME NEW w \in Values["GenesisDenom"]
             PROVE  Agrees("GenesisDenom", w)
  BY DEF Marshalled
<1> DEFINE T == "GenesisDenom"
           a == Text(10, w.denom)
           b == Field(18, MarshalDenomAuthorityMetadata(w.authorityMetadata))
<1>1. /\ w.denom \in Seq(Byte)
      /\ w.authorityMetadata \in DenomAuthorityMetadataValues
  BY GenesisDenomIs DEF GenesisDenomValues
<1>2. FieldBytes(T, 1, w) = a /\ a \in Seq(Byte) /\ Len(a) = TextSize(w.denom)
  <2>1. 1 \in DOMAIN Cases[T] /\ Cases[T][1] = Str("denom") /\ 1 \in 1 .. 4 /\ 8 * 1 + 2 = 10
    BY GenesisDenomIs
  <2> QED
    BY <1>1, <2>1, TextBytes
<1>3. /\ FieldBytes(T, 2, w) = b /\ b \in Seq(Byte)
      /\ Len(b) = FieldSize(SizeDenomAuthorityMetadata(w.authorityMetadata))
  <2>1. /\ 2 \in DOMAIN Cases[T]
        /\ Cases[T][2] = Embedded("authorityMetadata", "DenomAuthorityMetadata") /\ 2 \in 1 .. 4
        /\ 8 * 2 + 2 = 18
    BY GenesisDenomIs
  <2>2. w["authorityMetadata"] \in Values["DenomAuthorityMetadata"]
    BY <1>1, DenomAuthorityMetadataIs
  <2> HIDE DEF T
  <2> QED
    BY <2>1, <2>2, MarshalsDenomAuthorityMetadata, DenomAuthorityMetadataNamed, MessageBytes
<1>4. Marshal(T, w) = Backwards(<<b, a>>)
  BY GenesisDenomNamed DEF MarshalGenesisDenom
<1>5. SizeOf(T, w) = Len(a) + Len(b)
  BY <1>2, <1>3, GenesisDenomNamed DEF SizeGenesisDenom
<1>6. DOMAIN Cases[T] = {1, 2}
  BY GenesisDenomIs
<1> HIDE DEF T, a, b
<1>7. Agrees(T, w)
  BY <1>2, <1>3, <1>4, <1>5, <1>6, TwoAgree
<1> QED
  BY <1>7 DEF T

\* The code of GenesisState.
LEMMA GenesisStateNamed ==
  \A w : /\ Marshal("GenesisState", w) = MarshalGenesisState(w)
         /\ SizeOf("GenesisState", w) = SizeGenesisState(w)
BY DEF Marshal, SizeOf

\* What it writes and sizes is what its cases read.
LEMMA MarshalsGenesisState == Marshalled("GenesisState")
<1> SUFFICES ASSUME NEW w \in Values["GenesisState"]
             PROVE  Agrees("GenesisState", w)
  BY DEF Marshalled
<1> DEFINE T == "GenesisState"
           a == Field(10, MarshalParams(w.params))
           b == Each(18, [i \in DOMAIN w.factoryDenoms |-> MarshalGenesisDenom(w.factoryDenoms[i])])
<1>1. /\ w.params \in ParamsAll
      /\ w.factoryDenoms \in Seq(GenesisDenomValues)
  BY GenesisStateIs
<1>2. FieldBytes(T, 1, w) = a /\ a \in Seq(Byte) /\ Len(a) = FieldSize(SizeParams(w.params))
  <2>1. /\ 1 \in DOMAIN Cases[T] /\ Cases[T][1] = Embedded("params", "Params") /\ 1 \in 1 .. 4
        /\ 8 * 1 + 2 = 10
    BY GenesisStateIs
  <2>2. w["params"] \in Values["Params"]
    BY <1>1, ParamsIs
  <2> HIDE DEF T
  <2> QED
    BY <2>1, <2>2, MarshalsParams, ParamsNamed, MessageBytes
<1>3. /\ FieldBytes(T, 2, w) = b /\ b \in Seq(Byte)
      /\ Len(b) = EachSize([i \in DOMAIN w.factoryDenoms |-> SizeGenesisDenom(w.factoryDenoms[i])])
  <2>1. /\ 2 \in DOMAIN Cases[T] /\ Cases[T][2] = Repeated("factoryDenoms", "GenesisDenom")
        /\ 2 \in 1 .. 4 /\ 8 * 2 + 2 = 18
    BY GenesisStateIs
  <2>2. w["factoryDenoms"] \in Seq(Values["GenesisDenom"])
    BY <1>1, GenesisDenomIs
  <2> HIDE DEF T
  <2>3. /\ FieldBytes(T, 2, w) =
             Each(8 * 2 + 2, [i \in DOMAIN w.factoryDenoms |-> Marshal("GenesisDenom", w.factoryDenoms[i])])
        /\ FieldBytes(T, 2, w) \in Seq(Byte)
        /\ Len(FieldBytes(T, 2, w)) =
             EachSize([i \in DOMAIN w.factoryDenoms |-> SizeOf("GenesisDenom", w.factoryDenoms[i])])
    BY <2>1, <2>2, MarshalsGenesisDenom, MessagesBytes
  <2> QED
    BY <2>1, <2>3, GenesisDenomNamed
<1>4. Marshal(T, w) = Backwards(<<b, a>>)
  BY GenesisStateNamed DEF MarshalGenesisState
<1>5. SizeOf(T, w) = Len(a) + Len(b)
  BY <1>2, <1>3, GenesisStateNamed DEF SizeGenesisState
<1>6. DOMAIN Cases[T] = {1, 2}
  BY GenesisStateIs
<1> HIDE DEF T, a, b
<1>7. Agrees(T, w)
  BY <1>2, <1>3, <1>4, <1>5, <1>6, TwoAgree
<1> QED
  BY <1>7 DEF T

\* The code of MsgCreateDenom.
LEMMA MsgCreateDenomNamed ==
  \A w : /\ Marshal("MsgCreateDenom", w) = MarshalMsgCreateDenom(w)
         /\ SizeOf("MsgCreateDenom", w) = SizeMsgCreateDenom(w)
BY DEF Marshal, SizeOf

\* What it writes and sizes is what its cases read.
LEMMA MarshalsMsgCreateDenom == Marshalled("MsgCreateDenom")
<1> SUFFICES ASSUME NEW w \in Values["MsgCreateDenom"]
             PROVE  Agrees("MsgCreateDenom", w)
  BY DEF Marshalled
<1> DEFINE T == "MsgCreateDenom"
           a == Text(10, w.sender)
           b == Text(18, w.subdenom)
<1>1. /\ w.sender \in Seq(Byte)
      /\ w.subdenom \in Seq(Byte)
  BY MsgCreateDenomIs
<1>2. FieldBytes(T, 1, w) = a /\ a \in Seq(Byte) /\ Len(a) = TextSize(w.sender)
  <2>1. 1 \in DOMAIN Cases[T] /\ Cases[T][1] = Str("sender") /\ 1 \in 1 .. 4 /\ 8 * 1 + 2 = 10
    BY MsgCreateDenomIs
  <2> QED
    BY <1>1, <2>1, TextBytes
<1>3. FieldBytes(T, 2, w) = b /\ b \in Seq(Byte) /\ Len(b) = TextSize(w.subdenom)
  <2>1. 2 \in DOMAIN Cases[T] /\ Cases[T][2] = Str("subdenom") /\ 2 \in 1 .. 4 /\ 8 * 2 + 2 = 18
    BY MsgCreateDenomIs
  <2> QED
    BY <1>1, <2>1, TextBytes
<1>4. Marshal(T, w) = Backwards(<<b, a>>)
  BY MsgCreateDenomNamed DEF MarshalMsgCreateDenom
<1>5. SizeOf(T, w) = Len(a) + Len(b)
  BY <1>2, <1>3, MsgCreateDenomNamed DEF SizeMsgCreateDenom
<1>6. DOMAIN Cases[T] = {1, 2}
  BY MsgCreateDenomIs
<1> HIDE DEF T, a, b
<1>7. Agrees(T, w)
  BY <1>2, <1>3, <1>4, <1>5, <1>6, TwoAgree
<1> QED
  BY <1>7 DEF T

\* The code of MsgCreateDenomResponse.
LEMMA MsgCreateDenomResponseNamed ==
  \A w : /\ Marshal("MsgCreateDenomResponse", w) = MarshalMsgCreateDenomResponse(w)
         /\ SizeOf("MsgCreateDenomResponse", w) = SizeMsgCreateDenomResponse(w)
BY DEF Marshal, SizeOf

\* What it writes and sizes is what its cases read.
LEMMA MarshalsMsgCreateDenomResponse == Marshalled("MsgCreateDenomResponse")
<1> SUFFICES ASSUME NEW w \in Values["MsgCreateDenomResponse"]
             PROVE  Agrees("MsgCreateDenomResponse", w)
  BY DEF Marshalled
<1> DEFINE T == "MsgCreateDenomResponse"
           a == Text(10, w.newTokenDenom)
<1>1. w.newTokenDenom \in Seq(Byte)
  BY MsgCreateDenomResponseIs
<1>2. FieldBytes(T, 1, w) = a /\ a \in Seq(Byte) /\ Len(a) = TextSize(w.newTokenDenom)
  <2>1. 1 \in DOMAIN Cases[T] /\ Cases[T][1] = Str("newTokenDenom") /\ 1 \in 1 .. 4 /\ 8 * 1 + 2 = 10
    BY MsgCreateDenomResponseIs
  <2> QED
    BY <1>1, <2>1, TextBytes
<1>3. Marshal(T, w) = a
  BY MsgCreateDenomResponseNamed DEF MarshalMsgCreateDenomResponse
<1>4. SizeOf(T, w) = Len(a)
  BY <1>2, MsgCreateDenomResponseNamed DEF SizeMsgCreateDenomResponse
<1>5. DOMAIN Cases[T] = {1}
  BY MsgCreateDenomResponseIs
<1> HIDE DEF T, a
<1>6. Agrees(T, w)
  BY <1>2, <1>3, <1>4, <1>5, OneAgrees
<1> QED
  BY <1>6 DEF T

\* The code of MsgMint.
LEMMA MsgMintNamed ==
  \A w : Marshal("MsgMint", w) = MarshalMsgMint(w) /\ SizeOf("MsgMint", w) = SizeMsgMint(w)
BY DEF Marshal, SizeOf

\* What it writes and sizes is what its cases read.
LEMMA MarshalsMsgMint == Marshalled("MsgMint")
<1> SUFFICES ASSUME NEW w \in Values["MsgMint"]
             PROVE  Agrees("MsgMint", w)
  BY DEF Marshalled
<1> DEFINE T == "MsgMint"
           a == Text(10, w.sender)
           b == Field(18, MarshalCoin(w.amount))
           c == Text(26, w.mintToAddress)
<1>1. /\ w.sender \in Seq(Byte)
      /\ w.amount \in CoinValues
      /\ w.mintToAddress \in Seq(Byte)
  BY MsgMintIs
<1>2. FieldBytes(T, 1, w) = a /\ a \in Seq(Byte) /\ Len(a) = TextSize(w.sender)
  <2>1. 1 \in DOMAIN Cases[T] /\ Cases[T][1] = Str("sender") /\ 1 \in 1 .. 4 /\ 8 * 1 + 2 = 10
    BY MsgMintIs
  <2> QED
    BY <1>1, <2>1, TextBytes
<1>3. FieldBytes(T, 2, w) = b /\ b \in Seq(Byte) /\ Len(b) = FieldSize(SizeCoin(w.amount))
  <2>1. /\ 2 \in DOMAIN Cases[T] /\ Cases[T][2] = Embedded("amount", "Coin") /\ 2 \in 1 .. 4
        /\ 8 * 2 + 2 = 18
    BY MsgMintIs
  <2>2. w["amount"] \in Values["Coin"]
    BY <1>1, CoinIs
  <2> HIDE DEF T
  <2> QED
    BY <2>1, <2>2, MarshalsCoin, CoinNamed, MessageBytes
<1>4. FieldBytes(T, 3, w) = c /\ c \in Seq(Byte) /\ Len(c) = TextSize(w.mintToAddress)
  <2>1. 3 \in DOMAIN Cases[T] /\ Cases[T][3] = Str("mintToAddress") /\ 3 \in 1 .. 4 /\ 8 * 3 + 2 = 26
    BY MsgMintIs
  <2> QED
    BY <1>1, <2>1, TextBytes
<1>5. Marshal(T, w) = Backwards(<<c, b, a>>)
  BY MsgMintNamed DEF MarshalMsgMint
<1>6. SizeOf(T, w) = Len(a) + Len(b) + Len(c)
  BY <1>2, <1>3, <1>4, MsgMintNamed DEF SizeMsgMint
<1>7. DOMAIN Cases[T] = {1, 2, 3}
  BY MsgMintIs
<1> HIDE DEF T, a, b, c
<1>8. Agrees(T, w)
  BY <1>2, <1>3, <1>4, <1>5, <1>6, <1>7, ThreeAgree
<1> QED
  BY <1>8 DEF T

\* The code of MsgBurn.
LEMMA MsgBurnNamed ==
  \A w : Marshal("MsgBurn", w) = MarshalMsgBurn(w) /\ SizeOf("MsgBurn", w) = SizeMsgBurn(w)
BY DEF Marshal, SizeOf

\* What it writes and sizes is what its cases read.
LEMMA MarshalsMsgBurn == Marshalled("MsgBurn")
<1> SUFFICES ASSUME NEW w \in Values["MsgBurn"]
             PROVE  Agrees("MsgBurn", w)
  BY DEF Marshalled
<1> DEFINE T == "MsgBurn"
           a == Text(10, w.sender)
           b == Field(18, MarshalCoin(w.amount))
           c == Text(26, w.burnFromAddress)
<1>1. /\ w.sender \in Seq(Byte)
      /\ w.amount \in CoinValues
      /\ w.burnFromAddress \in Seq(Byte)
  BY MsgBurnIs
<1>2. FieldBytes(T, 1, w) = a /\ a \in Seq(Byte) /\ Len(a) = TextSize(w.sender)
  <2>1. 1 \in DOMAIN Cases[T] /\ Cases[T][1] = Str("sender") /\ 1 \in 1 .. 4 /\ 8 * 1 + 2 = 10
    BY MsgBurnIs
  <2> QED
    BY <1>1, <2>1, TextBytes
<1>3. FieldBytes(T, 2, w) = b /\ b \in Seq(Byte) /\ Len(b) = FieldSize(SizeCoin(w.amount))
  <2>1. /\ 2 \in DOMAIN Cases[T] /\ Cases[T][2] = Embedded("amount", "Coin") /\ 2 \in 1 .. 4
        /\ 8 * 2 + 2 = 18
    BY MsgBurnIs
  <2>2. w["amount"] \in Values["Coin"]
    BY <1>1, CoinIs
  <2> HIDE DEF T
  <2> QED
    BY <2>1, <2>2, MarshalsCoin, CoinNamed, MessageBytes
<1>4. FieldBytes(T, 3, w) = c /\ c \in Seq(Byte) /\ Len(c) = TextSize(w.burnFromAddress)
  <2>1. 3 \in DOMAIN Cases[T] /\ Cases[T][3] = Str("burnFromAddress") /\ 3 \in 1 .. 4 /\ 8 * 3 + 2 = 26
    BY MsgBurnIs
  <2> QED
    BY <1>1, <2>1, TextBytes
<1>5. Marshal(T, w) = Backwards(<<c, b, a>>)
  BY MsgBurnNamed DEF MarshalMsgBurn
<1>6. SizeOf(T, w) = Len(a) + Len(b) + Len(c)
  BY <1>2, <1>3, <1>4, MsgBurnNamed DEF SizeMsgBurn
<1>7. DOMAIN Cases[T] = {1, 2, 3}
  BY MsgBurnIs
<1> HIDE DEF T, a, b, c
<1>8. Agrees(T, w)
  BY <1>2, <1>3, <1>4, <1>5, <1>6, <1>7, ThreeAgree
<1> QED
  BY <1>8 DEF T

\* The code of MsgChangeAdmin.
LEMMA MsgChangeAdminNamed ==
  \A w : /\ Marshal("MsgChangeAdmin", w) = MarshalMsgChangeAdmin(w)
         /\ SizeOf("MsgChangeAdmin", w) = SizeMsgChangeAdmin(w)
BY DEF Marshal, SizeOf

\* What it writes and sizes is what its cases read.
LEMMA MarshalsMsgChangeAdmin == Marshalled("MsgChangeAdmin")
<1> SUFFICES ASSUME NEW w \in Values["MsgChangeAdmin"]
             PROVE  Agrees("MsgChangeAdmin", w)
  BY DEF Marshalled
<1> DEFINE T == "MsgChangeAdmin"
           a == Text(10, w.sender)
           b == Text(18, w.denom)
           c == Text(26, w.newAdmin)
<1>1. /\ w.sender \in Seq(Byte)
      /\ w.denom \in Seq(Byte)
      /\ w.newAdmin \in Seq(Byte)
  BY MsgChangeAdminIs
<1>2. FieldBytes(T, 1, w) = a /\ a \in Seq(Byte) /\ Len(a) = TextSize(w.sender)
  <2>1. 1 \in DOMAIN Cases[T] /\ Cases[T][1] = Str("sender") /\ 1 \in 1 .. 4 /\ 8 * 1 + 2 = 10
    BY MsgChangeAdminIs
  <2> QED
    BY <1>1, <2>1, TextBytes
<1>3. FieldBytes(T, 2, w) = b /\ b \in Seq(Byte) /\ Len(b) = TextSize(w.denom)
  <2>1. 2 \in DOMAIN Cases[T] /\ Cases[T][2] = Str("denom") /\ 2 \in 1 .. 4 /\ 8 * 2 + 2 = 18
    BY MsgChangeAdminIs
  <2> QED
    BY <1>1, <2>1, TextBytes
<1>4. FieldBytes(T, 3, w) = c /\ c \in Seq(Byte) /\ Len(c) = TextSize(w.newAdmin)
  <2>1. 3 \in DOMAIN Cases[T] /\ Cases[T][3] = Str("newAdmin") /\ 3 \in 1 .. 4 /\ 8 * 3 + 2 = 26
    BY MsgChangeAdminIs
  <2> QED
    BY <1>1, <2>1, TextBytes
<1>5. Marshal(T, w) = Backwards(<<c, b, a>>)
  BY MsgChangeAdminNamed DEF MarshalMsgChangeAdmin
<1>6. SizeOf(T, w) = Len(a) + Len(b) + Len(c)
  BY <1>2, <1>3, <1>4, MsgChangeAdminNamed DEF SizeMsgChangeAdmin
<1>7. DOMAIN Cases[T] = {1, 2, 3}
  BY MsgChangeAdminIs
<1> HIDE DEF T, a, b, c
<1>8. Agrees(T, w)
  BY <1>2, <1>3, <1>4, <1>5, <1>6, <1>7, ThreeAgree
<1> QED
  BY <1>8 DEF T

\* The code of MsgSetDenomMetadata.
LEMMA MsgSetDenomMetadataNamed ==
  \A w : /\ Marshal("MsgSetDenomMetadata", w) = MarshalMsgSetDenomMetadata(w)
         /\ SizeOf("MsgSetDenomMetadata", w) = SizeMsgSetDenomMetadata(w)
BY DEF Marshal, SizeOf

\* What it writes and sizes is what its cases read.
LEMMA MarshalsMsgSetDenomMetadata == Marshalled("MsgSetDenomMetadata")
<1> SUFFICES ASSUME NEW w \in Values["MsgSetDenomMetadata"]
             PROVE  Agrees("MsgSetDenomMetadata", w)
  BY DEF Marshalled
<1> DEFINE T == "MsgSetDenomMetadata"
           a == Text(10, w.sender)
           b == Field(18, MarshalMetadata(w.metadata))
<1>1. /\ w.sender \in Seq(Byte)
      /\ w.metadata \in MetadataValues
  BY MsgSetDenomMetadataIs
<1>2. FieldBytes(T, 1, w) = a /\ a \in Seq(Byte) /\ Len(a) = TextSize(w.sender)
  <2>1. 1 \in DOMAIN Cases[T] /\ Cases[T][1] = Str("sender") /\ 1 \in 1 .. 4 /\ 8 * 1 + 2 = 10
    BY MsgSetDenomMetadataIs
  <2> QED
    BY <1>1, <2>1, TextBytes
<1>3. FieldBytes(T, 2, w) = b /\ b \in Seq(Byte) /\ Len(b) = FieldSize(SizeMetadata(w.metadata))
  <2>1. /\ 2 \in DOMAIN Cases[T] /\ Cases[T][2] = Embedded("metadata", "Metadata") /\ 2 \in 1 .. 4
        /\ 8 * 2 + 2 = 18
    BY MsgSetDenomMetadataIs
  <2>2. w["metadata"] \in Values["Metadata"]
    BY <1>1, MetadataIs
  <2> HIDE DEF T
  <2> QED
    BY <2>1, <2>2, MarshalsMetadata, MetadataNamed, MessageBytes
<1>4. Marshal(T, w) = Backwards(<<b, a>>)
  BY MsgSetDenomMetadataNamed DEF MarshalMsgSetDenomMetadata
<1>5. SizeOf(T, w) = Len(a) + Len(b)
  BY <1>2, <1>3, MsgSetDenomMetadataNamed DEF SizeMsgSetDenomMetadata
<1>6. DOMAIN Cases[T] = {1, 2}
  BY MsgSetDenomMetadataIs
<1> HIDE DEF T, a, b
<1>7. Agrees(T, w)
  BY <1>2, <1>3, <1>4, <1>5, <1>6, TwoAgree
<1> QED
  BY <1>7 DEF T

\* The code of MsgForceTransfer.
LEMMA MsgForceTransferNamed ==
  \A w : /\ Marshal("MsgForceTransfer", w) = MarshalMsgForceTransfer(w)
         /\ SizeOf("MsgForceTransfer", w) = SizeMsgForceTransfer(w)
BY DEF Marshal, SizeOf

\* What it writes and sizes is what its cases read.
LEMMA MarshalsMsgForceTransfer == Marshalled("MsgForceTransfer")
<1> SUFFICES ASSUME NEW w \in Values["MsgForceTransfer"]
             PROVE  Agrees("MsgForceTransfer", w)
  BY DEF Marshalled
<1> DEFINE T == "MsgForceTransfer"
           a == Text(10, w.sender)
           b == Field(18, MarshalCoin(w.amount))
           c == Text(26, w.transferFromAddress)
           d == Text(34, w.transferToAddress)
<1>1. /\ w.sender \in Seq(Byte)
      /\ w.amount \in CoinValues
      /\ w.transferFromAddress \in Seq(Byte)
      /\ w.transferToAddress \in Seq(Byte)
  BY MsgForceTransferIs
<1>2. FieldBytes(T, 1, w) = a /\ a \in Seq(Byte) /\ Len(a) = TextSize(w.sender)
  <2>1. 1 \in DOMAIN Cases[T] /\ Cases[T][1] = Str("sender") /\ 1 \in 1 .. 4 /\ 8 * 1 + 2 = 10
    BY MsgForceTransferIs
  <2> QED
    BY <1>1, <2>1, TextBytes
<1>3. FieldBytes(T, 2, w) = b /\ b \in Seq(Byte) /\ Len(b) = FieldSize(SizeCoin(w.amount))
  <2>1. /\ 2 \in DOMAIN Cases[T] /\ Cases[T][2] = Embedded("amount", "Coin") /\ 2 \in 1 .. 4
        /\ 8 * 2 + 2 = 18
    BY MsgForceTransferIs
  <2>2. w["amount"] \in Values["Coin"]
    BY <1>1, CoinIs
  <2> HIDE DEF T
  <2> QED
    BY <2>1, <2>2, MarshalsCoin, CoinNamed, MessageBytes
<1>4. FieldBytes(T, 3, w) = c /\ c \in Seq(Byte) /\ Len(c) = TextSize(w.transferFromAddress)
  <2>1. /\ 3 \in DOMAIN Cases[T] /\ Cases[T][3] = Str("transferFromAddress") /\ 3 \in 1 .. 4
        /\ 8 * 3 + 2 = 26
    BY MsgForceTransferIs
  <2> QED
    BY <1>1, <2>1, TextBytes
<1>5. FieldBytes(T, 4, w) = d /\ d \in Seq(Byte) /\ Len(d) = TextSize(w.transferToAddress)
  <2>1. /\ 4 \in DOMAIN Cases[T] /\ Cases[T][4] = Str("transferToAddress") /\ 4 \in 1 .. 4
        /\ 8 * 4 + 2 = 34
    BY MsgForceTransferIs
  <2> QED
    BY <1>1, <2>1, TextBytes
<1>6. Marshal(T, w) = Backwards(<<d, c, b, a>>)
  BY MsgForceTransferNamed DEF MarshalMsgForceTransfer
<1>7. SizeOf(T, w) = Len(a) + Len(b) + Len(c) + Len(d)
  BY <1>2, <1>3, <1>4, <1>5, MsgForceTransferNamed DEF SizeMsgForceTransfer
<1> HIDE DEF T, a, b, c, d
<1>8. Agrees(T, w)
  BY <1>2, <1>3, <1>4, <1>5, <1>6, <1>7, FourAgree
<1> QED
  BY <1>8 DEF T

\* The code of QueryParamsResponse.
LEMMA QueryParamsResponseNamed ==
  \A w : /\ Marshal("QueryParamsResponse", w) = MarshalQueryParamsResponse(w)
         /\ SizeOf("QueryParamsResponse", w) = SizeQueryParamsResponse(w)
BY DEF Marshal, SizeOf

\* What it writes and sizes is what its cases read.
LEMMA MarshalsQueryParamsResponse == Marshalled("QueryParamsResponse")
<1> SUFFICES ASSUME NEW w \in Values["QueryParamsResponse"]
             PROVE  Agrees("QueryParamsResponse", w)
  BY DEF Marshalled
<1> DEFINE T == "QueryParamsResponse"
           a == Field(10, MarshalParams(w.params))
<1>1. w.params \in ParamsAll
  BY QueryParamsResponseIs
<1>2. FieldBytes(T, 1, w) = a /\ a \in Seq(Byte) /\ Len(a) = FieldSize(SizeParams(w.params))
  <2>1. /\ 1 \in DOMAIN Cases[T] /\ Cases[T][1] = Embedded("params", "Params") /\ 1 \in 1 .. 4
        /\ 8 * 1 + 2 = 10
    BY QueryParamsResponseIs
  <2>2. w["params"] \in Values["Params"]
    BY <1>1, ParamsIs
  <2> HIDE DEF T
  <2> QED
    BY <2>1, <2>2, MarshalsParams, ParamsNamed, MessageBytes
<1>3. Marshal(T, w) = a
  BY QueryParamsResponseNamed DEF MarshalQueryParamsResponse
<1>4. SizeOf(T, w) = Len(a)
  BY <1>2, QueryParamsResponseNamed DEF SizeQueryParamsResponse
<1>5. DOMAIN Cases[T] = {1}
  BY QueryParamsResponseIs
<1> HIDE DEF T, a
<1>6. Agrees(T, w)
  BY <1>2, <1>3, <1>4, <1>5, OneAgrees
<1> QED
  BY <1>6 DEF T

\* The code of QueryDenomAuthorityMetadataRequest.
LEMMA QueryDenomAuthorityMetadataRequestNamed ==
  \A w : /\ Marshal("QueryDenomAuthorityMetadataRequest", w) = MarshalQueryDenomAuthorityMetadataRequest(w)
         /\ SizeOf("QueryDenomAuthorityMetadataRequest", w) = SizeQueryDenomAuthorityMetadataRequest(w)
BY DEF Marshal, SizeOf

\* What it writes and sizes is what its cases read.
LEMMA MarshalsQueryDenomAuthorityMetadataRequest == Marshalled("QueryDenomAuthorityMetadataRequest")
<1> SUFFICES ASSUME NEW w \in Values["QueryDenomAuthorityMetadataRequest"]
             PROVE  Agrees("QueryDenomAuthorityMetadataRequest", w)
  BY DEF Marshalled
<1> DEFINE T == "QueryDenomAuthorityMetadataRequest"
           a == Text(10, w.denom)
<1>1. w.denom \in Seq(Byte)
  BY QueryDenomAuthorityMetadataRequestIs
<1>2. FieldBytes(T, 1, w) = a /\ a \in Seq(Byte) /\ Len(a) = TextSize(w.denom)
  <2>1. 1 \in DOMAIN Cases[T] /\ Cases[T][1] = Str("denom") /\ 1 \in 1 .. 4 /\ 8 * 1 + 2 = 10
    BY QueryDenomAuthorityMetadataRequestIs
  <2> QED
    BY <1>1, <2>1, TextBytes
<1>3. Marshal(T, w) = a
  BY QueryDenomAuthorityMetadataRequestNamed DEF MarshalQueryDenomAuthorityMetadataRequest
<1>4. SizeOf(T, w) = Len(a)
  BY <1>2, QueryDenomAuthorityMetadataRequestNamed DEF SizeQueryDenomAuthorityMetadataRequest
<1>5. DOMAIN Cases[T] = {1}
  BY QueryDenomAuthorityMetadataRequestIs
<1> HIDE DEF T, a
<1>6. Agrees(T, w)
  BY <1>2, <1>3, <1>4, <1>5, OneAgrees
<1> QED
  BY <1>6 DEF T

\* The code of QueryDenomAuthorityMetadataResponse.
LEMMA QueryDenomAuthorityMetadataResponseNamed ==
  \A w : /\ Marshal("QueryDenomAuthorityMetadataResponse", w) = MarshalQueryDenomAuthorityMetadataResponse(w)
         /\ SizeOf("QueryDenomAuthorityMetadataResponse", w) = SizeQueryDenomAuthorityMetadataResponse(w)
BY DEF Marshal, SizeOf

\* What it writes and sizes is what its cases read.
LEMMA MarshalsQueryDenomAuthorityMetadataResponse == Marshalled("QueryDenomAuthorityMetadataResponse")
<1> SUFFICES ASSUME NEW w \in Values["QueryDenomAuthorityMetadataResponse"]
             PROVE  Agrees("QueryDenomAuthorityMetadataResponse", w)
  BY DEF Marshalled
<1> DEFINE T == "QueryDenomAuthorityMetadataResponse"
           a == Field(10, MarshalDenomAuthorityMetadata(w.authorityMetadata))
<1>1. w.authorityMetadata \in DenomAuthorityMetadataValues
  BY QueryDenomAuthorityMetadataResponseIs
<1>2. /\ FieldBytes(T, 1, w) = a /\ a \in Seq(Byte)
      /\ Len(a) = FieldSize(SizeDenomAuthorityMetadata(w.authorityMetadata))
  <2>1. /\ 1 \in DOMAIN Cases[T]
        /\ Cases[T][1] = Embedded("authorityMetadata", "DenomAuthorityMetadata") /\ 1 \in 1 .. 4
        /\ 8 * 1 + 2 = 10
    BY QueryDenomAuthorityMetadataResponseIs
  <2>2. w["authorityMetadata"] \in Values["DenomAuthorityMetadata"]
    BY <1>1, DenomAuthorityMetadataIs
  <2> HIDE DEF T
  <2> QED
    BY <2>1, <2>2, MarshalsDenomAuthorityMetadata, DenomAuthorityMetadataNamed, MessageBytes
<1>3. Marshal(T, w) = a
  BY QueryDenomAuthorityMetadataResponseNamed DEF MarshalQueryDenomAuthorityMetadataResponse
<1>4. SizeOf(T, w) = Len(a)
  BY <1>2, QueryDenomAuthorityMetadataResponseNamed DEF SizeQueryDenomAuthorityMetadataResponse
<1>5. DOMAIN Cases[T] = {1}
  BY QueryDenomAuthorityMetadataResponseIs
<1> HIDE DEF T, a
<1>6. Agrees(T, w)
  BY <1>2, <1>3, <1>4, <1>5, OneAgrees
<1> QED
  BY <1>6 DEF T

\* The code of QueryDenomsFromCreatorRequest.
LEMMA QueryDenomsFromCreatorRequestNamed ==
  \A w : /\ Marshal("QueryDenomsFromCreatorRequest", w) = MarshalQueryDenomsFromCreatorRequest(w)
         /\ SizeOf("QueryDenomsFromCreatorRequest", w) = SizeQueryDenomsFromCreatorRequest(w)
BY DEF Marshal, SizeOf

\* What it writes and sizes is what its cases read.
LEMMA MarshalsQueryDenomsFromCreatorRequest == Marshalled("QueryDenomsFromCreatorRequest")
<1> SUFFICES ASSUME NEW w \in Values["QueryDenomsFromCreatorRequest"]
             PROVE  Agrees("QueryDenomsFromCreatorRequest", w)
  BY DEF Marshalled
<1> DEFINE T == "QueryDenomsFromCreatorRequest"
           a == Text(10, w.creator)
<1>1. w.creator \in Seq(Byte)
  BY QueryDenomsFromCreatorRequestIs
<1>2. FieldBytes(T, 1, w) = a /\ a \in Seq(Byte) /\ Len(a) = TextSize(w.creator)
  <2>1. 1 \in DOMAIN Cases[T] /\ Cases[T][1] = Str("creator") /\ 1 \in 1 .. 4 /\ 8 * 1 + 2 = 10
    BY QueryDenomsFromCreatorRequestIs
  <2> QED
    BY <1>1, <2>1, TextBytes
<1>3. Marshal(T, w) = a
  BY QueryDenomsFromCreatorRequestNamed DEF MarshalQueryDenomsFromCreatorRequest
<1>4. SizeOf(T, w) = Len(a)
  BY <1>2, QueryDenomsFromCreatorRequestNamed DEF SizeQueryDenomsFromCreatorRequest
<1>5. DOMAIN Cases[T] = {1}
  BY QueryDenomsFromCreatorRequestIs
<1> HIDE DEF T, a
<1>6. Agrees(T, w)
  BY <1>2, <1>3, <1>4, <1>5, OneAgrees
<1> QED
  BY <1>6 DEF T

\* The code of QueryDenomsFromCreatorResponse.
LEMMA QueryDenomsFromCreatorResponseNamed ==
  \A w : /\ Marshal("QueryDenomsFromCreatorResponse", w) = MarshalQueryDenomsFromCreatorResponse(w)
         /\ SizeOf("QueryDenomsFromCreatorResponse", w) = SizeQueryDenomsFromCreatorResponse(w)
BY DEF Marshal, SizeOf

\* What it writes and sizes is what its cases read.
LEMMA MarshalsQueryDenomsFromCreatorResponse == Marshalled("QueryDenomsFromCreatorResponse")
<1> SUFFICES ASSUME NEW w \in Values["QueryDenomsFromCreatorResponse"]
             PROVE  Agrees("QueryDenomsFromCreatorResponse", w)
  BY DEF Marshalled
<1> DEFINE T == "QueryDenomsFromCreatorResponse"
           a == Each(10, w.denoms)
<1>1. w.denoms \in Seq(Seq(Byte))
  BY QueryDenomsFromCreatorResponseIs
<1>2. /\ FieldBytes(T, 1, w) = a /\ a \in Seq(Byte)
      /\ Len(a) = EachSize([i \in DOMAIN w.denoms |-> Len(w.denoms[i])])
  <2>1. 1 \in DOMAIN Cases[T] /\ Cases[T][1] = Strs("denoms") /\ 1 \in 1 .. 4 /\ 8 * 1 + 2 = 10
    BY QueryDenomsFromCreatorResponseIs
  <2>2. w["denoms"] \in Seq(Seq(Byte)) /\ 10 \in Byte
    BY <1>1 DEF Byte
  <2> HIDE DEF T
  <2>3. FieldBytes(T, 1, w) = Each(8 * 1 + 2, w["denoms"])
    BY <2>1, <2>2, TextsBytes
  <2>4. FieldBytes(T, 1, w) = a
    BY <2>1, <2>3
  <2> QED
    BY <2>2, <2>4, EachBytes
<1>3. Marshal(T, w) = a
  BY QueryDenomsFromCreatorResponseNamed DEF MarshalQueryDenomsFromCreatorResponse
<1>4. SizeOf(T, w) = Len(a)
  BY <1>2, QueryDenomsFromCreatorResponseNamed DEF SizeQueryDenomsFromCreatorResponse
<1>5. DOMAIN Cases[T] = {1}
  BY QueryDenomsFromCreatorResponseIs
<1> HIDE DEF T, a
<1>6. Agrees(T, w)
  BY <1>2, <1>3, <1>4, <1>5, OneAgrees
<1> QED
  BY <1>6 DEF T

\* The types without fields.
LEMMA MarshalsNothing ==
  ASSUME NEW T \in {"MsgMintResponse", "MsgBurnResponse", "MsgChangeAdminResponse",
                    "MsgSetDenomMetadataResponse", "MsgForceTransferResponse", "QueryParamsRequest"}
  PROVE  Marshalled(T)
<1>1. \A n : n \notin DOMAIN Cases[T]
  BY DEF Cases, MsgMintResponseCases, MsgBurnResponseCases, MsgChangeAdminResponseCases,
     MsgSetDenomMetadataResponseCases, MsgForceTransferResponseCases, QueryParamsRequestCases
<1>2. ASSUME NEW w
      PROVE  Marshal(T, w) = <<>> /\ SizeOf(T, w) = 0
  BY DEF Marshal, SizeOf, MarshalNothing, SizeNothing
<1>3. ASSUME NEW w
      PROVE  BytesOf(T, w) = <<>> /\ \A n \in 1 .. 4 : FieldBytes(T, n, w) \in Seq(Byte)
  <2>1. <<>> \in Seq(Byte) /\ <<>> \o <<>> = <<>>
    BY EmptySeq
  <2>2. \A n : FieldBytes(T, n, w) = <<>>
    BY <1>1, NoBytes
  <2> QED
    BY <2>1, <2>2 DEF BytesOf, Row
<1>4. <<>> \in Seq(Byte) /\ Len(<<>>) = 0
  BY EmptySeq
<1> QED
  BY <1>2, <1>3, <1>4 DEF Marshalled, Agrees

\* Every type agrees with itself.
LEMMA Marshals == \A T \in DOMAIN Types : Marshalled(T)
<1>1. DOMAIN Types =
        {"Coin", "Metadata", "DenomAuthorityMetadata", "Params", "GenesisDenom", "GenesisState",
        "MsgCreateDenom", "MsgCreateDenomResponse", "MsgMint", "MsgBurn", "MsgChangeAdmin",
        "MsgSetDenomMetadata", "MsgForceTransfer", "QueryParamsResponse", "QueryDenomAuthorityMetadataRequest",
        "QueryDenomAuthorityMetadataResponse", "QueryDenomsFromCreatorRequest",
        "QueryDenomsFromCreatorResponse"}
                     \cup {"MsgMintResponse", "MsgBurnResponse", "MsgChangeAdminResponse",
                           "MsgSetDenomMetadataResponse", "MsgForceTransferResponse", "QueryParamsRequest"}
  BY DEF Types
<1> QED
  BY <1>1, MarshalsCoin, MarshalsMetadata, MarshalsDenomAuthorityMetadata, MarshalsParams, MarshalsGenesisDenom,
     MarshalsGenesisState, MarshalsMsgCreateDenom, MarshalsMsgCreateDenomResponse, MarshalsMsgMint,
     MarshalsMsgBurn, MarshalsMsgChangeAdmin, MarshalsMsgSetDenomMetadata, MarshalsMsgForceTransfer,
     MarshalsQueryParamsResponse, MarshalsQueryDenomAuthorityMetadataRequest,
     MarshalsQueryDenomAuthorityMetadataResponse, MarshalsQueryDenomsFromCreatorRequest,
     MarshalsQueryDenomsFromCreatorResponse, MarshalsNothing
=============================================================================
