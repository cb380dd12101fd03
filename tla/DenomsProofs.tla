---------------------------- MODULE DenomsProofs ----------------------------
(***************************************************************************)
(* Denom names, for any set of parts and any requests: names do not        *)
(* collide, DeconstructDenom inverts GetTokenDenom, and the limits on      *)
(* creator and subdenom leave exactly the room that denoms have.  The      *)
(* argument is about layout: a creator without a slash is one part, so the *)
(* second part of a name is the creator and the rest is the subdenom.      *)
(***************************************************************************)
EXTENDS Denoms, RecursionProofs, SequenceTheorems

Strings == Seq(Parts) \ {<<>>}

-----------------------------------------------------------------------------
(* The layout of names.                                                     *)

\* A string without a slash is one part.
LEMMA OnePart ==
  ASSUME NEW c \in Strings, ~HasSlash(c)
  PROVE  Len(c) = 1 /\ c = <<c[1]>> /\ c[1] \in Parts /\ DOMAIN c = {1}
<1>1. c \in Seq(Parts) /\ c # <<>> /\ ~(Len(c) > 1)
  BY DEF Strings, HasSlash
<1>2. Len(c) \in Nat /\ Len(c) # 0
  BY <1>1, EmptySeq
<1> DEFINE len == Len(c)
<1>3. len = 1
  <2>1. len \in Nat /\ len # 0 /\ ~(len > 1)
    BY <1>1, <1>2
  <2> HIDE DEF len
  <2> QED
    BY <2>1
<1>4. c[1] \in Parts /\ DOMAIN c = {1}
  BY <1>1, <1>3
<1> DEFINE one == <<c[1]>>
<1>5. one \in Seq(Parts) /\ Len(one) = 1 /\ one[1] = c[1]
  BY <1>4
<1> HIDE DEF one
<1>6. c = one
  BY <1>1, <1>3, <1>5, SeqEqual
<1> QED
  BY <1>3, <1>4, <1>6 DEF one

\* What stands where in a name.
LEMMA NameLayout ==
  ASSUME NEW c \in Strings, ~HasSlash(c), NEW s \in Strings
  PROVE  LET d == TokenDenom(c, s) IN
         /\ d \in Strings
         /\ Len(d) = Len(s) + 2 /\ Len(s) \in Nat \ {0}
         /\ d[1] = Factory /\ d[2] = c[1]
         /\ \A k \in 1 .. Len(s) : d[k + 2] = s[k]
         /\ c = <<c[1]>> /\ c[1] \in Parts
<1>1. Factory \in Parts
  BY PartsAssumption
<1>2. Len(c) = 1 /\ c = <<c[1]>> /\ c[1] \in Parts
  BY OnePart
<1> DEFINE front == <<Factory>> \o c
<1>3. front \in Seq(Parts) /\ Len(front) = 2 /\ front[1] = Factory /\ front[2] = c[1]
  <2> DEFINE word == <<Factory>>
  <2>1. word \in Seq(Parts) /\ Len(word) = 1 /\ word[1] = Factory
    BY <1>1
  <2>2. c \in Seq(Parts) /\ Len(c) = 1
    BY <1>2 DEF Strings
  <2> HIDE DEF word
  <2>3. /\ word \o c \in Seq(Parts)
        /\ Len(word \o c) = Len(word) + Len(c)
        /\ \A k \in 1 .. Len(word) + Len(c) :
             (word \o c)[k] = IF k <= Len(word) THEN word[k] ELSE c[k - Len(word)]
    BY <2>1, <2>2, ConcatProperties
  <2>4. (word \o c)[1] = word[1] /\ (word \o c)[2] = c[1]
    BY <2>1, <2>2, <2>3
  <2> QED
    BY <2>1, <2>2, <2>3, <2>4 DEF word
<1> HIDE DEF front
<1>4. s \in Seq(Parts) /\ Len(s) \in Nat \ {0}
  BY DEF Strings
<1>5. /\ front \o s \in Seq(Parts)
      /\ Len(front \o s) = Len(front) + Len(s)
      /\ \A k \in 1 .. Len(front) + Len(s) :
           (front \o s)[k] = IF k <= Len(front) THEN front[k] ELSE s[k - Len(front)]
  BY <1>3, <1>4, ConcatProperties
<1>6. TokenDenom(c, s) = front \o s
  BY DEF TokenDenom, front
<1> DEFINE d == front \o s
<1>7. d[1] = Factory /\ d[2] = c[1]
  BY <1>3, <1>4, <1>5
<1>8. ASSUME NEW k \in 1 .. Len(s) PROVE d[k + 2] = s[k]
  <2>1. k + 2 \in 1 .. Len(front) + Len(s) /\ ~(k + 2 <= Len(front)) /\ k + 2 - Len(front) = k
    BY <1>3, <1>4
  <2> QED
    BY <1>5, <2>1
<1>9. d \in Strings /\ Len(d) = Len(s) + 2
  BY <1>3, <1>4, <1>5 DEF Strings
<1> HIDE DEF d
<1> QED
  BY <1>2, <1>4, <1>6, <1>7, <1>8, <1>9 DEF d

\* The subdenom can be cut out of a name, slashes and all.
LEMMA SubdenomOfName ==
  ASSUME NEW c \in Strings, ~HasSlash(c), NEW s \in Strings
  PROVE  SubdenomOf(TokenDenom(c, s)) = s
<1> DEFINE d == TokenDenom(c, s)
<1>1. /\ d \in Seq(Parts) /\ s \in Seq(Parts)
      /\ Len(d) = Len(s) + 2 /\ Len(s) \in Nat \ {0}
      /\ \A k \in 1 .. Len(s) : d[k + 2] = s[k]
  BY NameLayout DEF Strings
<1> HIDE DEF d
<1> DEFINE t == SubSeq(d, 3, Len(d))
<1>2. /\ t \in Seq(Parts) /\ Len(t) = Len(s)
      /\ \A k \in 1 .. Len(s) : t[k] = d[k + 2]
  <2>1. \A k \in 3 .. Len(d) : d[k] \in Parts
    BY <1>1
  <2>2. /\ t \in Seq(Parts)
        /\ Len(t) = IF 3 <= Len(d) THEN Len(d) - 3 + 1 ELSE 0
        /\ \A k \in 1 .. Len(d) - 3 + 1 : t[k] = d[3 + k - 1]
    BY <1>1, <2>1, SubSeqProperties
  <2> HIDE DEF t
  <2>3. ASSUME NEW k \in 1 .. Len(s) PROVE t[k] = d[k + 2]
    <3>1. k \in 1 .. Len(d) - 3 + 1 /\ 3 + k - 1 = k + 2
      BY <1>1
    <3> QED
      BY <2>2, <3>1
  <2> QED
    BY <1>1, <2>2, <2>3
<1> HIDE DEF t
<1>3. t = s
  BY <1>1, <1>2, SeqEqual
<1> QED
  BY <1>3 DEF t, d, SubdenomOf

\* A name has one creator and one subdenom.
LEMMA NamesDiffer ==
  ASSUME NEW c \in Strings, ~HasSlash(c), NEW s \in Strings,
         NEW e \in Strings, ~HasSlash(e), NEW t \in Strings,
         TokenDenom(c, s) = TokenDenom(e, t)
  PROVE  c = e /\ s = t
<1>1. TokenDenom(c, s)[2] = c[1] /\ c = <<c[1]>>
  BY NameLayout
<1>2. TokenDenom(e, t)[2] = e[1] /\ e = <<e[1]>>
  BY NameLayout
<1>3. SubdenomOf(TokenDenom(c, s)) = s /\ SubdenomOf(TokenDenom(e, t)) = t
  BY SubdenomOfName
<1> QED
  BY <1>1, <1>2, <1>3

-----------------------------------------------------------------------------
(* Lengths.                                                                 *)

Shifted(S, k) == {x + k : x \in S}

\* A sum is the same over summands that have moved.
LEMMA SumShift ==
  ASSUME NEW S \in SUBSET Int, IsFiniteSet(S), NEW k \in Int, NEW f, NEW e,
         \A x \in S : f[x] \in Int /\ e[x + k] = f[x]
  PROVE  SumFunctionOnSet(e, Shifted(S, k)) = SumFunctionOnSet(f, S)
<1> DEFINE Moved(T) == Shifted(T, k)
           P == {T \in SUBSET S : /\ IsFiniteSet(Moved(T))
                                  /\ SumFunctionOnSet(e, Moved(T)) = SumFunctionOnSet(f, T)}
<1>1. ASSUME NEW T \in SUBSET S, \A U \in SUBSET T : U # T => U \in P
      PROVE  T \in P
  <2>1. IsFiniteSet(T) /\ IsFiniteSet({})
    BY FS_Subset, FS_EmptySet
  <2>2. CASE T = {}
    <3>1. Moved(T) = {}
      BY <2>2 DEF Shifted
    <3>2. SumFunctionOnSet(e, {}) = 0 /\ SumFunctionOnSet(f, {}) = 0
      BY <2>1, SumStep
    <3> QED
      BY <2>1, <2>2, <3>1, <3>2
  <2>3. CASE T # {}
    <3>1. PICK a \in T : TRUE
      BY <2>3
    <3> DEFINE U == T \ {a}
    <3>2. U \in SUBSET T /\ U # T
      BY <3>1
    <3>3. /\ IsFiniteSet(Moved(U))
          /\ SumFunctionOnSet(e, Moved(U)) = SumFunctionOnSet(f, U)
      BY <1>1, <3>2
    <3>4. Moved(T) = Moved(U) \cup {a + k} /\ a + k \notin Moved(U)
      <4>1. ASSUME NEW x \in T PROVE x + k \in Moved(U) \cup {a + k}
        <5>1. CASE x = a
          BY <5>1
        <5>2. CASE x # a
          BY <5>2 DEF Shifted
        <5> QED
          BY <5>1, <5>2
      <4>2. ASSUME NEW x \in U PROVE x + k \in Moved(T) /\ x + k # a + k
        BY <3>1 DEF Shifted
      <4> QED
        BY <3>1, <4>1, <4>2 DEF Shifted
    <3>5. f[a] \in Int /\ e[a + k] = f[a] /\ \A y \in Moved(T) : e[y] \in Int
      BY <3>1 DEF Shifted
    <3>6. SumFunctionOnSet(f, T) = f[a] + SumFunctionOnSet(f, U)
      BY <2>1, <3>1, SumRemove
    <3> HIDE DEF U
    <3> DEFINE M == Moved(T)
               N == Moved(U)
    <3>7. IsFiniteSet(M) /\ a + k \in M /\ N = M \ {a + k} /\ \A y \in M : e[y] \in Int
      <4>1. M = N \cup {a + k} /\ a + k \notin N /\ IsFiniteSet(N) /\ \A y \in M : e[y] \in Int
        BY <3>3, <3>4, <3>5
      <4> HIDE DEF M, N
      <4>2. IsFiniteSet(M)
        BY <4>1, FS_AddElement
      <4> QED
        BY <4>1, <4>2
    <3>8. SumFunctionOnSet(e, M) = e[a + k] + SumFunctionOnSet(e, N)
      <4> HIDE DEF M, N
      <4> QED
        BY <3>7, SumRemove
    <3>9. IsFiniteSet(Moved(T)) /\ SumFunctionOnSet(e, Moved(T)) = SumFunctionOnSet(f, T)
      BY <3>3, <3>5, <3>6, <3>7, <3>8
    <3> QED
      BY <3>9
  <2> QED
    BY <2>2, <2>3
<1>2. SUBSET S \subseteq P
  <2> HIDE DEF P
  <2> QED
    BY <1>1, SubsetInduction
<1> QED
  BY <1>2

\* The lengths of the parts of a string, in its order.
Lengths(str) == [k \in DOMAIN str |-> PartLen[str[k]]]

\* They are natural numbers, and so is the length of the string.
LEMMA LengthType ==
  ASSUME NEW s \in Strings
  PROVE  /\ DOMAIN s = 1 .. Len(s) /\ IsFiniteSet(1 .. Len(s)) /\ Len(s) \in Nat \ {0}
         /\ Lengths(s) \in [1 .. Len(s) -> Nat]
         /\ Length(s) = Len(s) - 1 + SumFunctionOnSet(Lengths(s), 1 .. Len(s))
         /\ SumFunctionOnSet(Lengths(s), 1 .. Len(s)) \in Nat
         /\ Length(s) \in Nat
<1>1. DOMAIN s = 1 .. Len(s) /\ Len(s) \in Nat \ {0} /\ \A k \in 1 .. Len(s) : s[k] \in Parts
  BY DEF Strings
<1>2. IsFiniteSet(1 .. Len(s))
  BY <1>1, FS_Interval
<1>3. Lengths(s) \in [1 .. Len(s) -> Nat]
  BY <1>1, PartsAssumption DEF Lengths
<1>4. DOMAIN Lengths(s) = 1 .. Len(s)
  BY <1>1 DEF Lengths
<1>5. Length(s) = Len(s) - 1 + SumFunctionOnSet(Lengths(s), 1 .. Len(s))
  BY <1>4 DEF Length, SumFunction, Lengths
<1>6. SumFunctionOnSet(Lengths(s), 1 .. Len(s)) \in Nat
  <2> DEFINE I == 1 .. Len(s)
             f == Lengths(s)
  <2>1. IsFiniteSet(I) /\ f \in [I -> Nat]
    BY <1>2, <1>3
  <2> HIDE DEF I, f
  <2>2. SumFunctionOnSet(f, I) \in Nat
    BY <2>1, SumBounds
  <2> QED
    BY <2>2 DEF I, f
<1> QED
  BY <1>1, <1>2, <1>3, <1>5, <1>6

\* A creator without a slash is as long as its one part.
LEMMA CreatorLength ==
  ASSUME NEW c \in Strings, ~HasSlash(c)
  PROVE  Length(c) = PartLen[c[1]]
<1>1. Len(c) = 1 /\ Lengths(c)[1] = PartLen[c[1]] /\ PartLen[c[1]] \in Int
  BY OnePart, PartsAssumption DEF Lengths
<1>2. /\ Length(c) = Len(c) - 1 + SumFunctionOnSet(Lengths(c), 1 .. Len(c))
      /\ IsFiniteSet(1 .. Len(c))
  BY LengthType
<1> DEFINE f == Lengths(c)
           I == {1}
<1>3. 1 .. Len(c) = I /\ IsFiniteSet(I) /\ 1 \in I /\ I \ {1} = {} /\ \A x \in I : f[x] \in Int
  BY <1>1, <1>2
<1>4. f[1] = PartLen[c[1]]
  BY <1>1
<1> HIDE DEF f, I
<1>5. SumFunctionOnSet(f, I) = f[1] + SumFunctionOnSet(f, I \ {1})
  BY <1>3, SumRemove
<1>6. SumFunctionOnSet(f, {}) = 0
  BY FS_EmptySet, SumStep
<1>7. SumFunctionOnSet(f, I) = PartLen[c[1]]
  <2>1. SumFunctionOnSet(f, I) = f[1] + 0
    BY <1>3, <1>5, <1>6
  <2>2. PartLen[c[1]] + 0 = PartLen[c[1]]
    BY <1>1
  <2> QED
    BY <1>4, <2>1, <2>2
<1>8. Length(c) = SumFunctionOnSet(f, I)
  <2>1. Length(c) = 1 - 1 + SumFunctionOnSet(f, I)
    BY <1>1, <1>2, <1>3 DEF f
  <2>2. SumFunctionOnSet(f, I) \in Int
    BY <1>1, <1>7
  <2> HIDE DEF f
  <2> QED
    BY <2>1, <2>2
<1> QED
  BY <1>7, <1>8

\* len of factory/{creator}/{subdenom}.
LEMMA NameLength ==
  ASSUME NEW c \in Strings, ~HasSlash(c), NEW s \in Strings
  PROVE  Length(TokenDenom(c, s)) = 7 + 1 + Length(c) + 1 + Length(s)
<1> DEFINE d == TokenDenom(c, s)
           f == Lengths(d)
           g == Lengths(s)
           I == 1 .. Len(d)
           J == 1 .. Len(s)
           K == Shifted(J, 2)
<1>1. /\ d \in Strings /\ Len(d) = Len(s) + 2 /\ Len(s) \in Nat \ {0}
      /\ d[1] = Factory /\ d[2] = c[1]
      /\ \A k \in 1 .. Len(s) : d[k + 2] = s[k]
  BY NameLayout
<1> HIDE DEF d
<1>2. /\ DOMAIN d = I /\ IsFiniteSet(I) /\ f \in [I -> Nat]
      /\ Length(d) = Len(d) - 1 + SumFunctionOnSet(f, I)
  BY <1>1, LengthType
<1>3. /\ DOMAIN s = J /\ IsFiniteSet(J) /\ g \in [J -> Nat]
      /\ Length(s) = Len(s) - 1 + SumFunctionOnSet(g, J) /\ SumFunctionOnSet(g, J) \in Nat
  BY LengthType
<1>4. Length(c) = PartLen[c[1]]
  BY CreatorLength
<1>5. PartLen[Factory] = 7
  BY PartsAssumption
<1>6. 1 \in I /\ 2 \in I /\ K = (I \ {1}) \ {2}
  <2>1. 1 \in I /\ 2 \in I
    BY <1>1
  <2>2. ASSUME NEW x \in (I \ {1}) \ {2} PROVE x \in K
    <3>1. x - 2 \in J /\ x = (x - 2) + 2
      BY <1>1
    <3> QED
      BY <3>1 DEF Shifted
  <2>3. ASSUME NEW k \in J PROVE k + 2 \in (I \ {1}) \ {2}
    BY <1>1
  <2> QED
    BY <2>1, <2>2, <2>3 DEF Shifted
<1>7. f[1] = 7 /\ f[2] = Length(c)
  BY <1>1, <1>2, <1>4, <1>5, <1>6 DEF Lengths
<1>8. ASSUME NEW k \in J PROVE g[k] \in Int /\ f[k + 2] = g[k]
  <2>1. k + 2 \in I /\ d[k + 2] = s[k]
    BY <1>1
  <2> QED
    BY <1>2, <1>3, <2>1 DEF Lengths
<1>9. J \in SUBSET Int
  OBVIOUS
<1>10. \A x \in I : f[x] \in Int
  BY <1>2
<1> HIDE DEF f, g, I, J
<1>11. SumFunctionOnSet(f, K) = SumFunctionOnSet(g, J)
  <2>1. \A x \in J : g[x] \in Int /\ f[x + 2] = g[x]
    BY <1>8
  <2>2. SumFunctionOnSet(f, Shifted(J, 2)) = SumFunctionOnSet(g, J)
    BY <1>3, <1>9, <2>1, SumShift
  <2> QED
    BY <2>2
<1> HIDE DEF K
<1>12. SumFunctionOnSet(f, I) = f[1] + SumFunctionOnSet(f, I \ {1})
  BY <1>2, <1>6, <1>10, SumRemove
<1>13. SumFunctionOnSet(f, I \ {1}) = f[2] + SumFunctionOnSet(f, K)
  <2> DEFINE H == I \ {1}
  <2>1. IsFiniteSet(H) /\ 2 \in H /\ \A x \in H : f[x] \in Int
    BY <1>2, <1>6, <1>10, FS_Subset
  <2>2. K = H \ {2}
    BY <1>6
  <2> HIDE DEF H
  <2>3. SumFunctionOnSet(f, H) = f[2] + SumFunctionOnSet(f, H \ {2})
    BY <2>1, SumRemove
  <2> QED
    BY <2>2, <2>3 DEF H
<1>14. Length(c) \in Nat
  BY LengthType
<1>15. Length(d) = 7 + 1 + Length(c) + 1 + Length(s)
  BY <1>1, <1>2, <1>3, <1>7, <1>11, <1>12, <1>13, <1>14
<1> QED
  BY <1>15 DEF d

-----------------------------------------------------------------------------
(* Names built and requests refused.                                        *)

Built(c, s)       == [creator |-> c, subdenom |-> s, denom |-> TokenDenom(c, s)]
Requested(c, s)   == [creator |-> c, subdenom |-> s]

NamesInv ==
  /\ \A x \in names : \E c \in Creators, s \in Subdenoms : Accepts(c, s) /\ x = Built(c, s)
  /\ \A r \in refused : \E c \in Creators, s \in Subdenoms : ~Accepts(c, s) /\ r = Requested(c, s)

\* Names are built from what GetTokenDenom accepts, and the rest is refused.
THEOREM NamesAreBuilt == Spec => []NamesInv
<1>1. Init => NamesInv
  BY DEF Init, NamesInv
<1>2. NamesInv /\ [Next]_<<names, refused>> => NamesInv'
  <2> SUFFICES ASSUME NamesInv, [Next]_<<names, refused>> PROVE NamesInv'
    OBVIOUS
  <2>1. CASE UNCHANGED <<names, refused>>
    BY <2>1 DEF NamesInv
  <2>2. ASSUME NEW c \in Creators, NEW s \in Subdenoms, Build(c, s) PROVE NamesInv'
    <3>1. Accepts(c, s) /\ names' = names \cup {Built(c, s)} /\ refused' = refused
      BY <2>2 DEF Build, Built
    <3> QED
      BY <3>1 DEF NamesInv
  <2>3. ASSUME NEW c \in Creators, NEW s \in Subdenoms, Refuse(c, s) PROVE NamesInv'
    <3>1. ~Accepts(c, s) /\ refused' = {Requested(c, s)} /\ names' = names
      BY <2>3 DEF Refuse, Requested
    <3> QED
      BY <3>1 DEF NamesInv
  <2> QED
    BY <2>1, <2>2, <2>3 DEF Next
<1> QED
  BY <1>1, <1>2, PTL DEF Spec

\* What a request is made of.
LEMMA RequestTypes ==
  ASSUME NEW c \in Creators, NEW s \in Subdenoms
  PROVE  c \in Strings /\ s \in Strings
BY PartsAssumption DEF Strings

\* Two names that GetTokenDenom built are equal only if they were built from
\* the same creator and subdenom, whatever slashes the subdenoms hold.
THEOREM NamesNeverCollide == Spec => []NamesDoNotCollide
<1>1. NamesInv => NamesDoNotCollide
  <2> SUFFICES ASSUME NamesInv, NEW x \in names, NEW y \in names, x.denom = y.denom
               PROVE  x = y
    BY DEF NamesDoNotCollide
  <2>1. PICK c \in Creators, s \in Subdenoms : Accepts(c, s) /\ x = Built(c, s)
    BY DEF NamesInv
  <2>2. PICK e \in Creators, t \in Subdenoms : Accepts(e, t) /\ y = Built(e, t)
    BY DEF NamesInv
  <2>3. TokenDenom(c, s) = TokenDenom(e, t)
    BY <2>1, <2>2 DEF Built
  <2>4. ~HasSlash(c) /\ ~HasSlash(e)
    BY <2>1, <2>2 DEF Accepts
  <2>5. c \in Strings /\ s \in Strings /\ e \in Strings /\ t \in Strings
    BY RequestTypes
  <2>6. c = e /\ s = t
    BY <2>3, <2>4, <2>5, NamesDiffer
  <2> QED
    BY <2>1, <2>2, <2>6
<1> QED
  BY <1>1, NamesAreBuilt, PTL

\* DeconstructDenom returns the creator, spelt as addresses are, and the
\* subdenom of a name that GetTokenDenom built for an address, and refuses a
\* name built for anything else.
THEOREM NamesComeApart == Spec => []DeconstructInverts
<1>1. NamesInv => DeconstructInverts
  <2> SUFFICES ASSUME NamesInv, NEW x \in names
               PROVE  IF x.creator[1] \in Bech32Parts
                      THEN /\ IsTokenDenom(x.denom)
                           /\ DeconstructDenom(x.denom)
                                = [creator |-> <<CanonicalOf[x.creator[1]]>>,
                                   subdenom |-> x.subdenom]
                      ELSE ~IsTokenDenom(x.denom)
    BY DEF DeconstructInverts
  <2>1. PICK c \in Creators, s \in Subdenoms : Accepts(c, s) /\ x = Built(c, s)
    BY DEF NamesInv
  <2> DEFINE d == TokenDenom(c, s)
  <2>2. x.creator = c /\ x.subdenom = s /\ x.denom = d
    BY <2>1 DEF Built
  <2>3. ~HasSlash(c) /\ ValidateDenom(d)
    BY <2>1 DEF Accepts
  <2>4. c \in Strings /\ s \in Strings
    BY RequestTypes
  <2>5. Len(d) >= 3 /\ d[1] = Factory /\ d[2] = c[1]
    <3>1. Len(d) = Len(s) + 2 /\ Len(s) \in Nat \ {0} /\ d[1] = Factory /\ d[2] = c[1]
      BY <2>3, <2>4, NameLayout
    <3> QED
      BY <3>1
  <2>6. SubdenomOf(d) = s
    BY <2>3, <2>4, SubdenomOfName
  <2> HIDE DEF d
  <2>7. IsTokenDenom(d) <=> c[1] \in Bech32Parts
    BY <2>3, <2>5 DEF IsTokenDenom
  <2>8. DeconstructDenom(d) = [creator |-> <<CanonicalOf[c[1]]>>, subdenom |-> s]
    BY <2>5, <2>6 DEF DeconstructDenom
  <2> QED
    BY <2>2, <2>7, <2>8
<1> QED
  BY <1>1, NamesAreBuilt, PTL

\* A request within the limits on creator and subdenom is refused for its
\* characters only, and no name is longer than the SDK allows.
THEOREM LimitsLeaveRoom == Spec => []LimitsFit
<1>1. NamesInv => LimitsFit
  <2> SUFFICES ASSUME NamesInv PROVE LimitsFit
    OBVIOUS
  <2>1. ASSUME NEW r \in refused,
               Length(r.creator) <= MaxCreatorLength,
               Length(r.subdenom) <= MaxSubdenomLength,
               ~HasSlash(r.creator)
        PROVE  \/ \E k \in DOMAIN r.creator : r.creator[k] \in BadParts
               \/ \E k \in DOMAIN r.subdenom : r.subdenom[k] \in BadParts
    <3>1. PICK c \in Creators, s \in Subdenoms : ~Accepts(c, s) /\ r = Requested(c, s)
      BY DEF NamesInv
    <3> DEFINE d == TokenDenom(c, s)
    <3>2. r.creator = c /\ r.subdenom = s
      BY <3>1 DEF Requested
    <3>3. c \in Strings /\ s \in Strings
      BY RequestTypes
    <3>4. ~ValidateDenom(d)
      BY <2>1, <3>1, <3>2 DEF Accepts
    <3>5. Length(d) = 7 + 1 + Length(c) + 1 + Length(s)
      BY <2>1, <3>2, <3>3, NameLength
    <3>6. Length(c) \in Nat /\ Length(s) \in Nat
      BY <3>3, LengthType
    <3>7. /\ d \in Strings /\ Len(d) = Len(s) + 2 /\ Len(s) \in Nat \ {0}
          /\ d[1] = Factory /\ d[2] = c[1]
          /\ \A k \in 1 .. Len(s) : d[k + 2] = s[k]
      BY <2>1, <3>2, <3>3, NameLayout
    <3> HIDE DEF d
    <3>8. Length(d) \in 3 .. MaxDenomLength
      BY <2>1, <3>2, <3>5, <3>6
         DEF MaxDenomLength, MaxCreatorLength, MaxHrpLength, MaxSubdenomLength
    <3>9. PICK k \in DOMAIN d : d[k] \in BadParts
      BY <3>4, <3>8 DEF ValidateDenom
    <3>10. k \in 1 .. Len(s) + 2 /\ DOMAIN s = 1 .. Len(s) /\ 1 \in DOMAIN c
      BY <3>3, <3>7 DEF Strings
    <3>11. k # 1
      BY <3>7, <3>9, PartsAssumption
    <3>12. CASE k = 2
      BY <3>2, <3>7, <3>9, <3>10, <3>12
    <3>13. CASE k # 2
      <4>1. k - 2 \in 1 .. Len(s) /\ (k - 2) + 2 = k
        BY <3>7, <3>10, <3>11, <3>13
      <4>2. s[k - 2] \in BadParts
        BY <3>7, <3>9, <4>1
      <4> QED
        BY <3>2, <3>10, <4>1, <4>2
    <3> QED
      BY <3>12, <3>13
  <2>2. ASSUME NEW r \in refused
        PROVE  \/ Length(r.creator) > MaxCreatorLength
               \/ Length(r.subdenom) > MaxSubdenomLength
               \/ HasSlash(r.creator)
               \/ \E k \in DOMAIN r.creator : r.creator[k] \in BadParts
               \/ \E k \in DOMAIN r.subdenom : r.subdenom[k] \in BadParts
    <3>1. PICK c \in Creators, s \in Subdenoms : r = Requested(c, s)
      BY DEF NamesInv
    <3>2. c \in Strings /\ s \in Strings /\ r.creator = c /\ r.subdenom = s
      BY <3>1, RequestTypes DEF Requested
    <3>3. Length(c) \in Nat /\ Length(s) \in Nat
      BY <3>2, LengthType
    <3>4. MaxCreatorLength \in Nat /\ MaxSubdenomLength \in Nat
      BY DEF MaxCreatorLength, MaxHrpLength, MaxSubdenomLength
    <3> QED
      BY <2>1, <3>2, <3>3, <3>4
  <2>3. ASSUME NEW x \in names PROVE Length(x.denom) <= MaxDenomLength
    <3>1. PICK c \in Creators, s \in Subdenoms : Accepts(c, s) /\ x = Built(c, s)
      BY DEF NamesInv
    <3>2. ValidateDenom(x.denom)
      BY <3>1 DEF Accepts, Built
    <3> QED
      BY <3>2 DEF ValidateDenom, MaxDenomLength
  <2> QED
    BY <2>2, <2>3 DEF LimitsFit
<1> QED
  BY <1>1, NamesAreBuilt, PTL
=============================================================================
