--------------------------- MODULE RecursionProofs ---------------------------
(***************************************************************************)
(* Lemmas about what is defined by recursion.                              *)
(*                                                                         *)
(* Sums over finite sets, SumFunctionOnSet of the module Functions, which  *)
(* the bank's supplies are: adding one summand, changing one, and bounds.  *)
(* The sum is defined by recursion over subsets, that is, as the value of  *)
(* some function that satisfies an equation.  That there is one, and that  *)
(* all agree, comes from smallest counterexamples among the subsets of a   *)
(* finite set.                                                             *)
(*                                                                         *)
(* Functions whose value at a point depends on that at one smaller point,  *)
(* as the varints of the module Wire are: that there is one, with values   *)
(* in the set they should be in.                                           *)
(***************************************************************************)
EXTENDS Integers, Functions, FiniteSetTheorems, TLAPS

-----------------------------------------------------------------------------
(* Sums over finite sets.                                                   *)

\* Induction on the subsets of a finite set, for the sets P that hold every
\* subset of S whose proper subsets they hold: a smallest set that is not in P
\* would be in P.
LEMMA SubsetInduction ==
  ASSUME NEW S, IsFiniteSet(S), NEW P,
         \A T \in SUBSET S : (\A U \in SUBSET T : U # T => U \in P) => T \in P
  PROVE  SUBSET S \subseteq P
<1> DEFINE Bad == {T \in SUBSET S : T \notin P}
           R   == StrictSubsetOrdering(S)
<1> SUFFICES ASSUME Bad # {} PROVE FALSE
  OBVIOUS
<1>1. IsWellFoundedOn(R, SUBSET S)
  <2>1. IsWellFoundedOn(R, FiniteSubsetsOf(S))
    BY FS_StrictSubsetOrderingWellFounded
  <2>2. FiniteSubsetsOf(S) = SUBSET S
    BY FS_FiniteSubsetsOfFinite
  <2> HIDE DEF R
  <2> QED
    BY <2>1, <2>2
<1>2. PICK T \in Bad : \A U \in Bad : <<U, T>> \notin R
  <2>1. Bad \subseteq SUBSET S
    OBVIOUS
  <2> HIDE DEF Bad, R
  <2> QED
    BY <1>1, <2>1, WFMin
<1>3. ASSUME NEW U \in SUBSET T, U # T PROVE U \in P
  <2>1. U \in SUBSET S /\ T \in SUBSET S
    OBVIOUS
  <2>2. <<U, T>> \in R
    BY <2>1, <1>3 DEF StrictSubsetOrdering
  <2> QED
    BY <1>2, <2>1, <2>2
<1> QED
  BY <1>3

\* What the recursion of SumFunctionOnSet(f, S) asks of the function it picks.
Adds(g, f, S) ==
  g = [s \in SUBSET S |->
         IF s = {} THEN 0
         ELSE f[CHOOSE x \in s : TRUE] + g[s \ {CHOOSE x \in s : TRUE}]]

\* The equation at one set.
LEMMA AddsAt ==
  ASSUME NEW f, NEW g, NEW S, Adds(g, f, S), NEW T \in SUBSET S
  PROVE  /\ T = {} => g[T] = 0
         /\ T # {} => LET c == CHOOSE x \in T : TRUE IN
                      c \in T /\ g[T] = f[c] + g[T \ {c}]
BY DEF Adds

\* The sum is the value of a chosen function of this kind.
LEMMA SumIsChosen ==
  ASSUME NEW f, NEW S
  PROVE  SumFunctionOnSet(f, S) = (CHOOSE g : Adds(g, f, S))[S]
BY DEF SumFunctionOnSet, FoldFunctionOnSet, MapThenFoldSet, Adds

\* Two such functions agree on a finite set on which their summands agree.
LEMMA SumsAgree ==
  ASSUME NEW f, NEW g, NEW A, Adds(g, f, A),
         NEW e, NEW h, NEW B, Adds(h, e, B),
         NEW S, IsFiniteSet(S), S \subseteq A, S \subseteq B,
         \A x \in S : f[x] = e[x]
  PROVE  g[S] = h[S]
<1> DEFINE P == {T \in SUBSET S : g[T] = h[T]}
<1>1. ASSUME NEW T \in SUBSET S, \A U \in SUBSET T : U # T => U \in P
      PROVE  T \in P
  <2>1. T \in SUBSET A /\ T \in SUBSET B
    OBVIOUS
  <2>2. CASE T = {}
    BY <2>1, <2>2 DEF Adds
  <2>3. CASE T # {}
    <3> DEFINE c == CHOOSE x \in T : TRUE
    <3>1. c \in T
      BY <2>3
    <3>2. g[T] = f[c] + g[T \ {c}] /\ h[T] = e[c] + h[T \ {c}]
      BY <2>1, <2>3 DEF Adds
    <3> HIDE DEF c
    <3>3. g[T \ {c}] = h[T \ {c}]
      <4>1. T \ {c} \in SUBSET T /\ T \ {c} # T
        BY <3>1
      <4> QED
        BY <1>1, <4>1
    <3> QED
      BY <3>1, <3>2, <3>3
  <2> QED
    BY <2>2, <2>3
<1>2. SUBSET S \subseteq P
  <2> HIDE DEF P
  <2> QED
    BY <1>1, SubsetInduction
<1> QED
  BY <1>2

\* On a finite set there is such a function.
LEMMA SumExists ==
  ASSUME NEW f, NEW S, IsFiniteSet(S)
  PROVE  \E g : Adds(g, f, S)
<1> DEFINE P    == {T \in SUBSET S : \E g : Adds(g, f, T)}
           G(T) == CHOOSE g : Adds(g, f, T)
           c(T) == CHOOSE x \in T : TRUE
<1>1. ASSUME NEW T \in SUBSET S, \A U \in SUBSET T : U # T => U \in P
      PROVE  T \in P
  <2> DEFINE h == [s \in SUBSET T |->
                     IF s = {} THEN 0
                     ELSE f[c(s)] + G(s \ {c(s)})[s \ {c(s)}]]
  <2>1. ASSUME NEW U \in SUBSET T, U # T PROVE Adds(G(U), f, U)
    BY <1>1, <2>1
  <2>2. ASSUME NEW U \in SUBSET T, U # T PROVE h[U] = G(U)[U]
    <3>1. CASE U = {}
      <4>1. G(U)[U] = 0
        <5> HIDE DEF G
        <5> QED
          BY <2>1, <2>2, <3>1, AddsAt
      <4>2. h[U] = 0
        BY <2>2, <3>1
      <4> QED
        BY <4>1, <4>2
    <3>2. CASE U # {}
      <4>1. c(U) \in U
        BY <3>2
      <4>2. G(U)[U] = f[c(U)] + G(U)[U \ {c(U)}]
        <5> HIDE DEF G
        <5> QED
          BY <2>1, <2>2, <3>2, AddsAt
      <4>3. h[U] = f[c(U)] + G(U \ {c(U)})[U \ {c(U)}]
        BY <2>2, <3>2
      <4> HIDE DEF c, G, h
      <4> DEFINE V == U \ {c(U)}
      <4>4. V \in SUBSET T /\ V # T /\ V \subseteq U
        BY <2>2
      <4>5. Adds(G(V), f, V) /\ Adds(G(U), f, U)
        BY <2>1, <2>2, <4>4
      <4>6. IsFiniteSet(V)
        BY <4>4, FS_Subset
      <4>7. G(U)[V] = G(V)[V]
        <5> HIDE DEF V
        <5> QED
          BY <4>4, <4>5, <4>6, SumsAgree
      <4> QED
        BY <4>2, <4>3, <4>7
    <3> QED
      BY <3>1, <3>2
  <2>3. ASSUME NEW s \in SUBSET T, s # {} PROVE h[s \ {c(s)}] = G(s \ {c(s)})[s \ {c(s)}]
    <3>1. c(s) \in s
      BY <2>3
    <3>2. s \ {c(s)} \in SUBSET T /\ s \ {c(s)} # T
      BY <3>1
    <3> HIDE DEF c, G, h
    <3> QED
      BY <3>2, <2>2
  <2>4. h = [s \in SUBSET T |-> IF s = {} THEN 0 ELSE f[c(s)] + h[s \ {c(s)}]]
    <3>1. \A s \in SUBSET T : h[s] = IF s = {} THEN 0 ELSE f[c(s)] + h[s \ {c(s)}]
      <4>1. \A s \in SUBSET T :
              h[s] = IF s = {} THEN 0 ELSE f[c(s)] + G(s \ {c(s)})[s \ {c(s)}]
        OBVIOUS
      <4> HIDE DEF h, c, G
      <4> QED
        BY <2>3, <4>1
    <3>2. h = [s \in SUBSET T |-> h[s]]
      OBVIOUS
    <3> HIDE DEF h, c
    <3> QED
      BY <3>1, <3>2
  <2>5. Adds(h, f, T)
    BY <2>4 DEF Adds
  <2> QED
    BY <2>5
<1>2. SUBSET S \subseteq P
  <2> HIDE DEF P
  <2> QED
    BY <1>1, SubsetInduction
<1> QED
  BY <1>2

\* So a sum over a finite set satisfies the recursion it is defined by.
LEMMA SumStep ==
  ASSUME NEW f, NEW S, IsFiniteSet(S)
  PROVE  /\ S = {} => SumFunctionOnSet(f, S) = 0
         /\ S # {} => LET c == CHOOSE x \in S : TRUE IN
                      /\ c \in S
                      /\ SumFunctionOnSet(f, S) = f[c] + SumFunctionOnSet(f, S \ {c})
<1> DEFINE G(T) == CHOOSE g : Adds(g, f, T)
           c    == CHOOSE x \in S : TRUE
<1>1. Adds(G(S), f, S) /\ SumFunctionOnSet(f, S) = G(S)[S]
  BY SumExists, SumIsChosen
<1>2. CASE S = {}
  BY <1>1, <1>2 DEF Adds
<1>3. CASE S # {}
  <2>1. c \in S /\ G(S)[S] = f[c] + G(S)[S \ {c}]
    BY <1>1, <1>3 DEF Adds
  <2>2. IsFiniteSet(S \ {c})
    BY FS_Subset
  <2>3. Adds(G(S \ {c}), f, S \ {c}) /\ SumFunctionOnSet(f, S \ {c}) = G(S \ {c})[S \ {c}]
    BY <2>2, SumExists, SumIsChosen
  <2>4. G(S)[S \ {c}] = G(S \ {c})[S \ {c}]
    <3> HIDE DEF G, c
    <3>1. S \ {c} \subseteq S
      OBVIOUS
    <3> QED
      BY <1>1, <2>2, <2>3, <3>1, SumsAgree
  <2> QED
    BY <1>1, <1>3, <2>1, <2>3, <2>4
<1> QED
  BY <1>2, <1>3

\* A sum of integers over a finite set is one.
LEMMA SumType ==
  ASSUME NEW S, IsFiniteSet(S), NEW f, \A x \in S : f[x] \in Int
  PROVE  SumFunctionOnSet(f, S) \in Int
<1> DEFINE P == {T \in SUBSET S : SumFunctionOnSet(f, T) \in Int}
<1>1. ASSUME NEW T \in SUBSET S, \A U \in SUBSET T : U # T => U \in P
      PROVE  T \in P
  <2> DEFINE c == CHOOSE x \in T : TRUE
  <2>1. IsFiniteSet(T)
    BY FS_Subset
  <2>2. /\ T = {} => SumFunctionOnSet(f, T) = 0
        /\ T # {} => c \in T /\ SumFunctionOnSet(f, T) = f[c] + SumFunctionOnSet(f, T \ {c})
    BY <2>1, SumStep
  <2> HIDE DEF c
  <2>3. c \in T => SumFunctionOnSet(f, T \ {c}) \in Int
    BY <1>1
  <2> QED
    BY <2>2, <2>3
<1>2. SUBSET S \subseteq P
  <2> HIDE DEF P
  <2> QED
    BY <1>1, SubsetInduction
<1> QED
  BY <1>2

\* Any element may be added last, not only the one the definition chooses.
LEMMA SumRemove ==
  ASSUME NEW S, IsFiniteSet(S), NEW f, \A x \in S : f[x] \in Int, NEW a \in S
  PROVE  SumFunctionOnSet(f, S) = f[a] + SumFunctionOnSet(f, S \ {a})
<1> DEFINE Sum(T) == SumFunctionOnSet(f, T)
           P == {T \in SUBSET S : \A x \in T : Sum(T) = f[x] + Sum(T \ {x})}
<1>0. ASSUME NEW T \in SUBSET S PROVE IsFiniteSet(T) /\ Sum(T) \in Int
  <2>1. IsFiniteSet(T)
    BY FS_Subset
  <2> QED
    BY <2>1, SumType
<1>1. ASSUME NEW T \in SUBSET S, \A U \in SUBSET T : U # T => U \in P
      PROVE  T \in P
  <2> SUFFICES ASSUME NEW x \in T PROVE Sum(T) = f[x] + Sum(T \ {x})
    OBVIOUS
  <2> DEFINE c == CHOOSE y \in T : TRUE
  <2>1. c \in T /\ Sum(T) = f[c] + Sum(T \ {c})
    BY <1>0, SumStep
  <2> HIDE DEF c
  <2>2. CASE x = c
    BY <2>1, <2>2
  <2>3. CASE x # c
    <3> DEFINE V == T \ {c}
               W == T \ {x}
    <3>1. /\ V \in SUBSET T /\ V # T /\ x \in V
          /\ W \in SUBSET T /\ W # T /\ c \in W
          /\ V \ {x} = W \ {c} /\ W \ {c} \in SUBSET S
      BY <2>1, <2>3
    <3>2. Sum(V) = f[x] + Sum(V \ {x}) /\ Sum(W) = f[c] + Sum(W \ {c})
      BY <1>1, <3>1
    <3>3. f[x] \in Int /\ f[c] \in Int /\ Sum(W \ {c}) \in Int
      BY <1>0, <2>1, <3>1
    <3>4. Sum(T) = f[c] + Sum(V)
      BY <2>1
    <3>5. Sum(V \ {x}) = Sum(W \ {c})
      BY <3>1
    <3>6. Sum(T) = f[x] + Sum(W)
      <4> HIDE DEF V, W, Sum
      <4> QED
        BY <3>2, <3>3, <3>4, <3>5
    <3> QED
      BY <3>6
  <2> QED
    BY <2>2, <2>3
<1>2. SUBSET S \subseteq P
  <2> HIDE DEF P
  <2> QED
    BY <1>1, SubsetInduction
<1> QED
  BY <1>2

\* A sum depends on its summands alone.
LEMMA SumSame ==
  ASSUME NEW S, IsFiniteSet(S), NEW f, NEW e, \A x \in S : f[x] = e[x]
  PROVE  SumFunctionOnSet(f, S) = SumFunctionOnSet(e, S)
<1> DEFINE G(h) == CHOOSE g : Adds(g, h, S)
<1>1. Adds(G(f), f, S) /\ Adds(G(e), e, S)
  BY SumExists
<1>2. SumFunctionOnSet(f, S) = G(f)[S] /\ SumFunctionOnSet(e, S) = G(e)[S]
  BY SumIsChosen
<1>3. G(f)[S] = G(e)[S]
  <2> HIDE DEF G
  <2> QED
    BY <1>1, SumsAgree
<1> QED
  BY <1>2, <1>3

\* Changing one summand changes the sum by as much.
LEMMA SumChange ==
  ASSUME NEW S, IsFiniteSet(S), NEW f \in [S -> Int], NEW e \in [S -> Int],
         NEW a \in S, \A x \in S \ {a} : e[x] = f[x]
  PROVE  SumFunctionOnSet(e, S) = SumFunctionOnSet(f, S) - f[a] + e[a]
<1> DEFINE T == S \ {a}
<1>1. IsFiniteSet(T)
  BY FS_Subset
<1>2. SumFunctionOnSet(e, T) = SumFunctionOnSet(f, T) /\ SumFunctionOnSet(f, T) \in Int
  BY <1>1, SumSame, SumType
<1>3. /\ SumFunctionOnSet(f, S) = f[a] + SumFunctionOnSet(f, T)
      /\ SumFunctionOnSet(e, S) = e[a] + SumFunctionOnSet(e, T)
  BY SumRemove
<1>4. f[a] \in Int /\ e[a] \in Int
  OBVIOUS
<1> QED
  BY <1>2, <1>3, <1>4

\* No summand of a sum of naturals exceeds it, nor do two together.
LEMMA SumBounds ==
  ASSUME NEW S, IsFiniteSet(S), NEW f \in [S -> Nat]
  PROVE  /\ SumFunctionOnSet(f, S) \in Nat
         /\ \A a \in S : f[a] <= SumFunctionOnSet(f, S)
         /\ \A a, b \in S : a # b => f[a] + f[b] <= SumFunctionOnSet(f, S)
<1> DEFINE Sum(T) == SumFunctionOnSet(f, T)
           P == {T \in SUBSET S : Sum(T) \in Nat}
<1>0. ASSUME NEW T \in SUBSET S PROVE IsFiniteSet(T)
  BY FS_Subset
<1>1. ASSUME NEW T \in SUBSET S, \A U \in SUBSET T : U # T => U \in P
      PROVE  T \in P
  <2> DEFINE c == CHOOSE y \in T : TRUE
  <2>1. /\ T = {} => Sum(T) = 0
        /\ T # {} => c \in T /\ Sum(T) = f[c] + Sum(T \ {c})
    BY <1>0, SumStep
  <2> HIDE DEF c
  <2>2. c \in T => Sum(T \ {c}) \in Nat
    BY <1>1
  <2>3. Sum(T) \in Nat
    <3> HIDE DEF Sum
    <3> QED
      BY <2>1, <2>2
  <2> QED
    BY <2>3
<1>2. SUBSET S \subseteq P
  <2> HIDE DEF P
  <2> QED
    BY <1>1, SubsetInduction
<1>3. ASSUME NEW T \in SUBSET S PROVE Sum(T) \in Nat
  BY <1>2
<1>4. ASSUME NEW T \in SUBSET S, NEW x \in T PROVE Sum(T) = f[x] + Sum(T \ {x})
  <2>1. IsFiniteSet(T) /\ \A y \in T : f[y] \in Int
    BY <1>0
  <2> QED
    BY <2>1, SumRemove
<1> HIDE DEF Sum
<1>5. ASSUME NEW T \in SUBSET S, NEW x \in T PROVE f[x] <= Sum(T)
  <2>1. Sum(T) = f[x] + Sum(T \ {x})
    BY <1>4
  <2>2. Sum(T \ {x}) \in Nat /\ f[x] \in Nat
    BY <1>3
  <2> QED
    BY <2>1, <2>2
<1>6. ASSUME NEW a \in S, NEW b \in S, a # b PROVE f[a] + f[b] <= Sum(S)
  <2>1. Sum(S) = f[a] + Sum(S \ {a})
    BY <1>4
  <2>2. f[b] <= Sum(S \ {a})
    BY <1>5, <1>6
  <2>3. Sum(S \ {a}) \in Nat /\ f[a] \in Nat /\ f[b] \in Nat
    BY <1>3
  <2> QED
    BY <2>1, <2>2, <2>3
<1> QED
  BY <1>3, <1>5, <1>6 DEF Sum

-----------------------------------------------------------------------------
(* Recursion from one point to a smaller one.                               *)

\* Induction over the naturals for a set P.
LEMMA StrongInduction ==
  ASSUME NEW P, \A n \in Nat : (\A m \in Nat : m < n => m \in P) => n \in P
  PROVE  Nat \subseteq P
<1> DEFINE R   == OpToRel(<, Nat)
           Bad == Nat \ P
<1> SUFFICES ASSUME Bad # {} PROVE FALSE
  OBVIOUS
<1>1. IsWellFoundedOn(R, Nat)
  BY NatLessThanWellFounded
<1>2. PICK n \in Bad : \A m \in Bad : <<m, n>> \notin R
  <2> HIDE DEF R
  <2> QED
    BY <1>1, WFMin
<1>3. ASSUME NEW m \in Nat, m < n PROVE m \in P
  <2>1. <<m, n>> \in R
    BY <1>3 DEF OpToRel
  <2> QED
    BY <1>2, <2>1
<1> QED
  BY <1>3

\* Induction over a set whose elements have a measure.
LEMMA MeasureInduction ==
  ASSUME NEW D, NEW mu \in [D -> Nat], NEW P,
         \A x \in D : (\A y \in D : mu[y] < mu[x] => y \in P) => x \in P
  PROVE  D \subseteq P
<1> DEFINE Q == {n \in Nat : \A x \in D : mu[x] = n => x \in P}
<1>1. ASSUME NEW n \in Nat, \A m \in Nat : m < n => m \in Q PROVE n \in Q
  <2> SUFFICES ASSUME NEW x \in D, mu[x] = n PROVE x \in P
    OBVIOUS
  <2>1. ASSUME NEW y \in D, mu[y] < mu[x] PROVE y \in P
    BY <1>1, <2>1
  <2> QED
    BY <2>1
<1>2. Nat \subseteq Q
  <2> HIDE DEF Q
  <2> QED
    BY <1>1, StrongInduction
<1> QED
  BY <1>2

\* The equation of a function that is defined by recursion: at a point of Base
\* it is b, elsewhere op of the point and of the value at the next one.
Recurs(f, D, Base, b, nx, op) ==
  \A x \in D : f[x] = IF x \in Base THEN b[x] ELSE op[<<x, f[nx[x]]>>]

\* There is such a function when the next point is always smaller.
LEMMA RecursionExists ==
  ASSUME NEW D, NEW R, NEW mu \in [D -> Nat], NEW Base, NEW b, NEW nx, NEW op,
         \A x \in D \cap Base : b[x] \in R,
         \A x \in D \ Base : nx[x] \in D /\ mu[nx[x]] < mu[x],
         \A x \in D \ Base, r \in R : op[<<x, r>>] \in R
  PROVE  \E f \in [D -> R] : Recurs(f, D, Base, b, nx, op)
<1> DEFINE Val(f, x) == IF x \in Base THEN b[x] ELSE op[<<x, f[nx[x]]>>]
           Upto(f, n) == \A x \in D : mu[x] < n => f[x] = Val(f, x)
           G(n) == CHOOSE f : Upto(f, n)
           F == [x \in D |-> G(mu[x] + 1)[x]]
<1>1. ASSUME NEW n \in Nat, NEW f, Upto(f, n) PROVE \E h : Upto(h, n + 1)
  <2> DEFINE h == [x \in D |-> Val(f, x)]
  <2>1. ASSUME NEW x \in D, mu[x] < n + 1 PROVE h[x] = Val(h, x)
    <3>1. CASE x \in Base
      BY <3>1
    <3>2. CASE x \notin Base
      <4>1. nx[x] \in D /\ mu[nx[x]] < n
        BY <2>1, <3>2
      <4>2. f[nx[x]] = Val(f, nx[x])
        BY <1>1, <4>1
      <4>3. h[nx[x]] = Val(f, nx[x])
        BY <4>1
      <4>4. h[x] = op[<<x, f[nx[x]]>>] /\ Val(h, x) = op[<<x, h[nx[x]]>>]
        BY <3>2
      <4> HIDE DEF h, Val
      <4> QED
        BY <4>2, <4>3, <4>4
    <3> QED
      BY <3>1, <3>2
  <2>2. Upto(h, n + 1)
    <3> HIDE DEF h, Val
    <3> QED
      BY <2>1
  <2> QED
    BY <2>2
<1>2. ASSUME NEW n \in Nat PROVE Upto(G(n), n)
  <2> DEFINE Q == {k \in Nat : \E f : Upto(f, k)}
  <2>1. ASSUME NEW k \in Nat, \A m \in Nat : m < k => m \in Q PROVE k \in Q
    <3>1. CASE k = 0
      <4> \A x \in D : ~(mu[x] < 0)
        OBVIOUS
      <4>1. Upto(b, 0)
        OBVIOUS
      <4> HIDE DEF Upto
      <4> QED
        BY <3>1, <4>1
    <3>2. CASE k # 0
      <4>1. k - 1 \in Nat /\ k - 1 < k /\ (k - 1) + 1 = k
        BY <3>2
      <4> HIDE DEF Upto
      <4>2. PICK f : Upto(f, k - 1)
        BY <2>1, <4>1
      <4>3. \E h : Upto(h, (k - 1) + 1)
        BY <1>1, <4>1, <4>2
      <4> QED
        BY <4>1, <4>3
    <3> QED
      BY <3>1, <3>2
  <2> HIDE DEF Upto
  <2>2. Nat \subseteq Q
    <3> HIDE DEF Q
    <3> QED
      BY <2>1, StrongInduction
  <2> QED
    BY <2>2
<1>3. ASSUME NEW n \in Nat, NEW m \in Nat, NEW x \in D, mu[x] < n, mu[x] < m
      PROVE  G(n)[x] = G(m)[x]
  <2> DEFINE P == {y \in D : mu[y] < n /\ mu[y] < m => G(n)[y] = G(m)[y]}
  <2>0. Upto(G(n), n) /\ Upto(G(m), m)
    BY <1>2
  <2> HIDE DEF G
  <2>1. ASSUME NEW y \in D, \A z \in D : mu[z] < mu[y] => z \in P PROVE y \in P
    <3> SUFFICES ASSUME mu[y] < n, mu[y] < m PROVE G(n)[y] = G(m)[y]
      OBVIOUS
    <3>1. G(n)[y] = Val(G(n), y) /\ G(m)[y] = Val(G(m), y)
      BY <2>0
    <3>2. y \notin Base => G(n)[nx[y]] = G(m)[nx[y]]
      BY <2>1
    <3> QED
      BY <3>1, <3>2
  <2>2. D \subseteq P
    <3> HIDE DEF P
    <3> QED
      BY <2>1, MeasureInduction
  <2> QED
    BY <2>2, <1>3
<1>4. ASSUME NEW x \in D PROVE F[x] = Val(F, x)
  <2> DEFINE n == mu[x] + 1
  <2>1. n \in Nat /\ mu[x] < n
    OBVIOUS
  <2>2. F[x] = G(n)[x]
    OBVIOUS
  <2>3. G(n)[x] = Val(G(n), x)
    <3> HIDE DEF G, n
    <3> QED
      BY <1>2, <2>1
  <2>4. CASE x \in Base
    BY <2>2, <2>3, <2>4
  <2>5. CASE x \notin Base
    <3> DEFINE y == nx[x]
               m == mu[y] + 1
    <3>1. y \in D /\ mu[y] < n /\ mu[y] < m /\ m \in Nat
      BY <2>5
    <3>2. F[y] = G(m)[y]
      BY <3>1
    <3>3. G(m)[y] = G(n)[y]
      <4> HIDE DEF G, n, m, y
      <4> QED
        BY <1>3, <2>1, <3>1
    <3>4. G(n)[x] = op[<<x, G(n)[y]>>] /\ Val(F, x) = op[<<x, F[y]>>]
      BY <2>3, <2>5
    <3> HIDE DEF F, G, n, m, y
    <3> QED
      BY <2>2, <3>2, <3>3, <3>4
  <2> QED
    BY <2>4, <2>5
<1> HIDE DEF F, G
<1>5. ASSUME NEW x \in D PROVE F[x] \in R
  <2> DEFINE P == {y \in D : F[y] \in R}
  <2>1. ASSUME NEW y \in D, \A z \in D : mu[z] < mu[y] => z \in P PROVE y \in P
    BY <1>4, <2>1
  <2>2. D \subseteq P
    <3> HIDE DEF P
    <3> QED
      BY <2>1, MeasureInduction
  <2> QED
    BY <2>2
<1>6. F \in [D -> R]
  <2>1. F = [x \in D |-> F[x]]
    BY DEF F
  <2> QED
    BY <1>5, <2>1
<1>7. Recurs(F, D, Base, b, nx, op)
  BY <1>4 DEF Recurs
<1> QED
  BY <1>6, <1>7
=============================================================================
