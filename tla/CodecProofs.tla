---------------------------- MODULE CodecProofs -----------------------------
(***************************************************************************)
(* A message is read as it was written.  The invariant CodecInv says how   *)
(* far: what the calls of Unmarshal have made so far, what is left of      *)
(* their bytes and what was lost make up the message that was sent.        *)
(*                                                                         *)
(* "Make up" is a relation, Runs, between a value, a row of bytes and the  *)
(* value that reading them leaves: the smallest one that holds of no bytes *)
(* and is kept when a field is put in front.  It is proved of what Marshal *)
(* writes by putting fields in front, and it says what the reader, which   *)
(* takes them away again, leaves to be read.                               *)
(***************************************************************************)
EXTENDS Codec, ProtoTypesProofs

-----------------------------------------------------------------------------
(* Reading without bytes.  Runs says what the readers make of a row of      *)
(* pieces: read from value v of type T on, r leaves the value w.  It is the  *)
(* smallest relation that holds of no bytes and is kept when a piece is put  *)
(* in front.                                                                 *)

\* A case that reads an embedded message.
IsMessage(c) == c.kind \in {"message", "messages"}

\* What a payload may be, when the reader takes it as it is.
PayloadSet(c) == IF c.kind = "number" THEN 0 .. Word - 1 ELSE Seq(Byte)

\* The value after a case has read x.
After(c, v, x) ==
  [v EXCEPT ![c.name] = IF c.kind \in {"texts", "messages"} THEN Append(v[c.name], x) ELSE x]

\* The value an embedded message is read into.
Start(c, v) == IF c.kind = "message" THEN v[c.name] ELSE Types[c.type]

\* A set of runs holds one that begins with a field, if it holds what is
\* read after it: a scalar, an embedded message, a field that no type has.
ReadsAs(G, X, T, n, v, p, r, w) ==
  /\ n \in DOMAIN Cases[T] /\ v \in G[T] /\ ~IsMessage(Cases[T][n]) /\ p \in PayloadSet(Cases[T][n])
  /\ <<T, After(Cases[T][n], v, p), r, w>> \in X
  => <<T, v, Piece(T, n, p) \o r, w>> \in X

ReadsInto(G, X, T, n, v, p, w1, r, w) ==
  /\ n \in DOMAIN Cases[T] /\ v \in G[T] /\ IsMessage(Cases[T][n])
  /\ <<Cases[T][n].type, Start(Cases[T][n], v), p, w1>> \in X
  /\ <<T, After(Cases[T][n], v, w1), r, w>> \in X
  => <<T, v, Piece(T, n, p) \o r, w>> \in X

PassesOver(G, U, X, T, v, u, r, w) ==
  v \in G[T] /\ u \in U /\ <<T, v, r, w>> \in X => <<T, v, u \o r, w>> \in X

\* A set of runs is closed when it holds what can be read, if the values on
\* the way are in G and the fields that no type has in U.
Closed(G, U, X) ==
  /\ \A T \in DOMAIN Types : \A v : v \in G[T] => <<T, v, <<>>, v>> \in X
  /\ \A T \in DOMAIN Types : \A n, v, p, r, w : ReadsAs(G, X, T, n, v, p, r, w)
  /\ \A T \in DOMAIN Types : \A n, v, p, w1, r, w : ReadsInto(G, X, T, n, v, p, w1, r, w)
  /\ \A T \in DOMAIN Types : \A v, u, r, w : PassesOver(G, U, X, T, v, u, r, w)

Runs(G, U, T, v, r, w) == \A X : Closed(G, U, X) => <<T, v, r, w>> \in X

\* The values on the way are values of their types.
Setting(G, U) == (\A T \in DOMAIN Types : G[T] \subseteq Values[T]) /\ U \subseteq Seq(Byte)

\* The four ways of a run.
LEMMA RunsEmpty ==
  ASSUME NEW G, NEW U, NEW T \in DOMAIN Types, NEW v \in G[T]
  PROVE  Runs(G, U, T, v, <<>>, v)
BY DEF Runs, Closed

\* A string or number in front is read.
LEMMA RunsScalar ==
  ASSUME NEW G, NEW U, NEW T \in DOMAIN Types, NEW n \in DOMAIN Cases[T], NEW v \in G[T],
         ~IsMessage(Cases[T][n]), NEW p \in PayloadSet(Cases[T][n]), NEW r, NEW w,
         Runs(G, U, T, After(Cases[T][n], v, p), r, w)
  PROVE  Runs(G, U, T, v, Piece(T, n, p) \o r, w)
<1> SUFFICES ASSUME NEW X, Closed(G, U, X)
             PROVE  <<T, v, Piece(T, n, p) \o r, w>> \in X
  BY DEF Runs
<1>1. <<T, After(Cases[T][n], v, p), r, w>> \in X
  BY DEF Runs
<1> QED
  BY <1>1, Zenon DEF Closed, ReadsAs

\* A message in front is read, when its bytes are.
LEMMA RunsMessage ==
  ASSUME NEW G, NEW U, NEW T \in DOMAIN Types, NEW n \in DOMAIN Cases[T], NEW v \in G[T],
         IsMessage(Cases[T][n]), NEW p, NEW w1, NEW r, NEW w,
         Runs(G, U, Cases[T][n].type, Start(Cases[T][n], v), p, w1),
         Runs(G, U, T, After(Cases[T][n], v, w1), r, w)
  PROVE  Runs(G, U, T, v, Piece(T, n, p) \o r, w)
<1> SUFFICES ASSUME NEW X, Closed(G, U, X)
             PROVE  <<T, v, Piece(T, n, p) \o r, w>> \in X
  BY DEF Runs
<1>1. /\ <<Cases[T][n].type, Start(Cases[T][n], v), p, w1>> \in X
      /\ <<T, After(Cases[T][n], v, w1), r, w>> \in X
  BY DEF Runs
<1> QED
  BY <1>1, Zenon DEF Closed, ReadsInto

\* An unknown field in front is passed over.
LEMMA RunsUnknown ==
  ASSUME NEW G, NEW U, NEW T \in DOMAIN Types, NEW v \in G[T], NEW u \in U, NEW r, NEW w,
         Runs(G, U, T, v, r, w)
  PROVE  Runs(G, U, T, v, u \o r, w)
<1> SUFFICES ASSUME NEW X, Closed(G, U, X)
             PROVE  <<T, v, u \o r, w>> \in X
  BY DEF Runs
<1>1. <<T, v, r, w>> \in X
  BY DEF Runs
<1> QED
  BY <1>1, Zenon DEF Closed, PassesOver

\* A piece is bytes, at least one.
LEMMA PieceType ==
  ASSUME NEW T \in DOMAIN Types, NEW n \in DOMAIN Cases[T], NEW p,
         p \in PayloadSet(Cases[T][n]) \/ (IsMessage(Cases[T][n]) /\ p \in Seq(Byte))
  PROVE  Piece(T, n, p) \in Seq(Byte) /\ Len(Piece(T, n, p)) \in Nat \ {0}
<1>1. n \in 1 .. 4
  BY Shapes DEF Shape
<1>2. CASE Cases[T][n].kind = "number"
  <2>1. p \in Nat
    BY <1>2 DEF PayloadSet, IsMessage
  <2>2. /\ <<8 * n>> \o encodeVarint[p] \in Seq(Byte)
        /\ Len(<<8 * n>> \o encodeVarint[p]) = 1 + sov(p)
    BY <1>1, <2>1, TagBytes, NumberIs
  <2>3. sov(p) \in Nat \ {0}
    BY <2>1, SizeOfVarint
  <2> QED
    BY <1>2, <2>2, <2>3 DEF Piece
<1>3. CASE Cases[T][n].kind # "number"
  <2>1. p \in Seq(Byte)
    BY <1>3 DEF PayloadSet
  <2>2. Field(8 * n + 2, p) \in Seq(Byte) /\ Len(Field(8 * n + 2, p)) = FieldSize(Len(p))
    BY <1>1, <2>1, TagBytes, FieldIs
  <2>3. Len(p) \in Nat
    BY <2>1, LenProperties
  <2>4. sov(Len(p)) \in Nat \ {0}
    BY <2>3, SizeOfVarint
  <2>5. FieldSize(Len(p)) \in Nat \ {0}
    BY <2>3, <2>4 DEF FieldSize
  <2> QED
    BY <1>3, <2>2, <2>5 DEF Piece
<1> QED
  BY <1>2, <1>3

\* All runs there could be.
AllValues == UNION {Values[T] : T \in DOMAIN Types}

Universe(G) ==
  {q \in (DOMAIN Types) \X AllValues \X Seq(Byte) \X AllValues :
     q[2] \in G[q[1]] /\ q[4] \in G[q[1]]}

\* The readings there may be at all.
LEMMA UniverseIs ==
  ASSUME NEW G, \A T \in DOMAIN Types : G[T] \subseteq Values[T]
  PROVE  \A T, v, r, w : <<T, v, r, w>> \in Universe(G) <=>
           T \in DOMAIN Types /\ v \in G[T] /\ r \in Seq(Byte) /\ w \in G[T]
<1>1. \A T \in DOMAIN Types : G[T] \subseteq AllValues
  BY DEF AllValues
<1> QED
  BY <1>1 DEF Universe

\* They are closed under putting a piece in front: there is a smallest relation.
LEMMA UniverseClosed ==
  ASSUME NEW G, NEW U, Setting(G, U)
  PROVE  Closed(G, U, Universe(G))
<1>1. \A T, v, r, w : <<T, v, r, w>> \in Universe(G) <=>
        T \in DOMAIN Types /\ v \in G[T] /\ r \in Seq(Byte) /\ w \in G[T]
  BY UniverseIs DEF Setting
<1>2. \A T \in DOMAIN Types : \A v \in G[T] : <<T, v, <<>>, v>> \in Universe(G)
  BY <1>1, EmptySeq
<1>3. ASSUME NEW T \in DOMAIN Types, NEW n \in DOMAIN Cases[T], NEW v \in G[T], NEW p, NEW r, NEW w,
             p \in PayloadSet(Cases[T][n]) \/ (IsMessage(Cases[T][n]) /\ p \in Seq(Byte)),
             NEW z, <<T, z, r, w>> \in Universe(G)
      PROVE  <<T, v, Piece(T, n, p) \o r, w>> \in Universe(G)
  <2>1. r \in Seq(Byte) /\ w \in G[T]
    BY <1>1, <1>3
  <2>2. Piece(T, n, p) \in Seq(Byte)
    BY <1>3, PieceType
  <2>3. Piece(T, n, p) \o r \in Seq(Byte)
    BY <2>1, <2>2, ConcatProperties
  <2> QED
    BY <1>1, <2>1, <2>3
<1>4. ASSUME NEW T \in DOMAIN Types, NEW v \in G[T], NEW u \in U, NEW r, NEW w,
             <<T, v, r, w>> \in Universe(G)
      PROVE  <<T, v, u \o r, w>> \in Universe(G)
  <2>1. r \in Seq(Byte) /\ w \in G[T] /\ u \in Seq(Byte)
    BY <1>1, <1>4 DEF Setting
  <2>2. u \o r \in Seq(Byte)
    BY <2>1, ConcatProperties
  <2> QED
    BY <1>1, <2>1, <2>2
<1>5. ASSUME NEW T \in DOMAIN Types, NEW n \in DOMAIN Cases[T], NEW v \in G[T],
             NEW p \in PayloadSet(Cases[T][n]), NEW r, NEW w,
             <<T, After(Cases[T][n], v, p), r, w>> \in Universe(G)
      PROVE  <<T, v, Piece(T, n, p) \o r, w>> \in Universe(G)
  BY <1>3, <1>5, Zenon
<1>6. ASSUME NEW T \in DOMAIN Types, NEW n \in DOMAIN Cases[T], NEW v \in G[T], NEW p, NEW w1, NEW r, NEW w,
             IsMessage(Cases[T][n]),
             <<Cases[T][n].type, Start(Cases[T][n], v), p, w1>> \in Universe(G),
             <<T, After(Cases[T][n], v, w1), r, w>> \in Universe(G)
      PROVE  <<T, v, Piece(T, n, p) \o r, w>> \in Universe(G)
  <2>1. p \in Seq(Byte)
    BY <1>1, <1>6, Zenon
  <2> QED
    BY <1>3, <1>6, <2>1, Zenon
<1> QED
  <2>1. \A T \in DOMAIN Types : \A n, v, p, r, w : ReadsAs(G, Universe(G), T, n, v, p, r, w)
    BY <1>5, ZenonT(30) DEF ReadsAs
  <2>2. \A T \in DOMAIN Types : \A n, v, p, w1, r, w : ReadsInto(G, Universe(G), T, n, v, p, w1, r, w)
    <3> TAKE T \in DOMAIN Types
    <3> TAKE n, v, p, w1, r, w
    <3> USE DEF ReadsInto
    <3> HAVE /\ n \in DOMAIN Cases[T] /\ v \in G[T] /\ IsMessage(Cases[T][n])
             /\ <<Cases[T][n].type, Start(Cases[T][n], v), p, w1>> \in Universe(G)
             /\ <<T, After(Cases[T][n], v, w1), r, w>> \in Universe(G)
    <3> QED
      BY <1>6, Zenon
  <2>3. \A T \in DOMAIN Types : \A v, u, r, w : PassesOver(G, U, Universe(G), T, v, u, r, w)
    BY <1>4, Zenon DEF PassesOver
  <2>4. \A T \in DOMAIN Types : \A v : v \in G[T] => <<T, v, <<>>, v>> \in Universe(G)
    BY <1>2, Zenon
  <2> QED
    BY <2>1, <2>2, <2>3, <2>4, Zenon DEF Closed

\* What a run is about.
LEMMA RunsType ==
  ASSUME NEW G, NEW U, Setting(G, U), NEW T, NEW v, NEW r, NEW w, Runs(G, U, T, v, r, w)
  PROVE  T \in DOMAIN Types /\ v \in G[T] /\ r \in Seq(Byte) /\ w \in G[T]
<1>1. <<T, v, r, w>> \in Universe(G)
  BY UniverseClosed DEF Runs
<1> QED
  BY <1>1, UniverseIs DEF Setting

\* How a run goes on.
EndsHere(v, r, w) == r = <<>> /\ v = w

ReadsScalar(G, U, T, v, r, w) ==
  \E n \in DOMAIN Cases[T] : \E p \in PayloadSet(Cases[T][n]) : \E r1 \in Seq(Byte) :
    /\ ~IsMessage(Cases[T][n])
    /\ r = Piece(T, n, p) \o r1
    /\ Runs(G, U, T, After(Cases[T][n], v, p), r1, w)

ReadsMessage(G, U, T, v, r, w) ==
  \E n \in DOMAIN Cases[T] : \E p \in Seq(Byte) : \E w1 : \E r1 \in Seq(Byte) :
    /\ IsMessage(Cases[T][n])
    /\ r = Piece(T, n, p) \o r1
    /\ Runs(G, U, Cases[T][n].type, Start(Cases[T][n], v), p, w1)
    /\ Runs(G, U, T, After(Cases[T][n], v, w1), r1, w)

SkipsField(G, U, T, v, r, w) ==
  \E u \in U : \E r1 \in Seq(Byte) : r = u \o r1 /\ Runs(G, U, T, v, r1, w)

GoesOn(G, U, T, v, r, w) ==
  \/ EndsHere(v, r, w)
  \/ ReadsScalar(G, U, T, v, r, w)
  \/ ReadsMessage(G, U, T, v, r, w)
  \/ SkipsField(G, U, T, v, r, w)

\* What is read is nothing, or has a first piece after which the rest is read.
LEMMA RunsGoOn ==
  ASSUME NEW G, NEW U, Setting(G, U), NEW T, NEW v, NEW r, NEW w, Runs(G, U, T, v, r, w)
  PROVE  GoesOn(G, U, T, v, r, w)
<1> DEFINE X == {q \in Universe(G) : Runs(G, U, q[1], q[2], q[3], q[4])
                                     /\ GoesOn(G, U, q[1], q[2], q[3], q[4])}
<1>1. \A T1, v1, x1, w1 : <<T1, v1, x1, w1>> \in X <=>
        /\ <<T1, v1, x1, w1>> \in Universe(G)
        /\ Runs(G, U, T1, v1, x1, w1) /\ GoesOn(G, U, T1, v1, x1, w1)
  OBVIOUS
<1>2. \A T1, v1, x1, w1 : Runs(G, U, T1, v1, x1, w1) => <<T1, v1, x1, w1>> \in Universe(G)
  BY UniverseClosed DEF Runs
<1> HIDE DEF X
<1>3. \A T1, v1, x1, w1 : Runs(G, U, T1, v1, x1, w1) /\ GoesOn(G, U, T1, v1, x1, w1)
                            <=> <<T1, v1, x1, w1>> \in X
  BY <1>1, <1>2, Zenon
<1>4. ASSUME NEW T1 \in DOMAIN Types, NEW v1 \in G[T1]
      PROVE  <<T1, v1, <<>>, v1>> \in X
  <2>1. Runs(G, U, T1, v1, <<>>, v1)
    BY RunsEmpty
  <2>2. GoesOn(G, U, T1, v1, <<>>, v1)
    BY DEF GoesOn, EndsHere
  <2> QED
    BY <1>3, <2>1, <2>2, Zenon
<1>5. ASSUME NEW T1 \in DOMAIN Types, NEW n \in DOMAIN Cases[T1], NEW v1 \in G[T1],
             NEW p \in PayloadSet(Cases[T1][n]), NEW x1, NEW w1, ~IsMessage(Cases[T1][n]),
             <<T1, After(Cases[T1][n], v1, p), x1, w1>> \in X
      PROVE  <<T1, v1, Piece(T1, n, p) \o x1, w1>> \in X
  <2>1. Runs(G, U, T1, After(Cases[T1][n], v1, p), x1, w1)
    BY <1>3, <1>5, Zenon
  <2>2. x1 \in Seq(Byte)
    BY <2>1, RunsType, Zenon
  <2>3. Runs(G, U, T1, v1, Piece(T1, n, p) \o x1, w1)
    BY <1>5, <2>1, RunsScalar, Zenon
  <2>4. ReadsScalar(G, U, T1, v1, Piece(T1, n, p) \o x1, w1)
    BY <1>5, <2>1, <2>2, Zenon DEF ReadsScalar
  <2> QED
    BY <1>3, <2>3, <2>4, Zenon DEF GoesOn
<1>6. ASSUME NEW T1 \in DOMAIN Types, NEW n \in DOMAIN Cases[T1], NEW v1 \in G[T1],
             NEW p, NEW y, NEW x1, NEW w1, IsMessage(Cases[T1][n]),
             <<Cases[T1][n].type, Start(Cases[T1][n], v1), p, y>> \in X,
             <<T1, After(Cases[T1][n], v1, y), x1, w1>> \in X
      PROVE  <<T1, v1, Piece(T1, n, p) \o x1, w1>> \in X
  <2>1. /\ Runs(G, U, Cases[T1][n].type, Start(Cases[T1][n], v1), p, y)
        /\ Runs(G, U, T1, After(Cases[T1][n], v1, y), x1, w1)
    BY <1>3, <1>6, Zenon
  <2>2. x1 \in Seq(Byte) /\ p \in Seq(Byte)
    BY <2>1, RunsType, Zenon
  <2>3. Runs(G, U, T1, v1, Piece(T1, n, p) \o x1, w1)
    BY <1>6, <2>1, RunsMessage, Zenon
  <2>4. ReadsMessage(G, U, T1, v1, Piece(T1, n, p) \o x1, w1)
    BY <1>6, <2>1, <2>2, Zenon DEF ReadsMessage
  <2> QED
    BY <1>3, <2>3, <2>4, Zenon DEF GoesOn
<1>7. ASSUME NEW T1 \in DOMAIN Types, NEW v1 \in G[T1], NEW u \in U, NEW x1, NEW w1,
             <<T1, v1, x1, w1>> \in X
      PROVE  <<T1, v1, u \o x1, w1>> \in X
  <2>1. Runs(G, U, T1, v1, x1, w1)
    BY <1>3, <1>7, Zenon
  <2>2. x1 \in Seq(Byte)
    BY <2>1, RunsType, Zenon
  <2>3. Runs(G, U, T1, v1, u \o x1, w1)
    BY <2>1, RunsUnknown, Zenon
  <2>4. SkipsField(G, U, T1, v1, u \o x1, w1)
    BY <2>1, <2>2, Zenon DEF SkipsField
  <2> QED
    BY <1>3, <2>3, <2>4, Zenon DEF GoesOn
<1>8. Closed(G, U, X)
  <2>1. \A T1 \in DOMAIN Types : \A n, v1, p, x1, w1 : ReadsAs(G, X, T1, n, v1, p, x1, w1)
    BY <1>5, ZenonT(30) DEF ReadsAs
  <2>2. \A T1 \in DOMAIN Types : \A n, v1, p, y, x1, w1 : ReadsInto(G, X, T1, n, v1, p, y, x1, w1)
    <3> TAKE T1 \in DOMAIN Types
    <3> TAKE n, v1, p, y, x1, w1
    <3> USE DEF ReadsInto
    <3> HAVE /\ n \in DOMAIN Cases[T1] /\ v1 \in G[T1] /\ IsMessage(Cases[T1][n])
             /\ <<Cases[T1][n].type, Start(Cases[T1][n], v1), p, y>> \in X
             /\ <<T1, After(Cases[T1][n], v1, y), x1, w1>> \in X
    <3> QED
      BY <1>6, Zenon
  <2>3. \A T1 \in DOMAIN Types : \A v1, u, x1, w1 : PassesOver(G, U, X, T1, v1, u, x1, w1)
    BY <1>7, Zenon DEF PassesOver
  <2>4. \A T1 \in DOMAIN Types : \A v1 : v1 \in G[T1] => <<T1, v1, <<>>, v1>> \in X
    BY <1>4, Zenon
  <2> QED
    BY <2>1, <2>2, <2>3, <2>4, Zenon DEF Closed
<1>9. <<T, v, r, w>> \in X
  BY <1>8 DEF Runs
<1> QED
  BY <1>3, <1>9, Zenon

\* One run after another.
LEMMA RunsJoin ==
  ASSUME NEW G, NEW U, Setting(G, U), NEW T, NEW v, NEW r, NEW w, Runs(G, U, T, v, r, w),
         NEW r2, NEW w2, Runs(G, U, T, w, r2, w2)
  PROVE  Runs(G, U, T, v, r \o r2, w2)
<1> DEFINE Joins1(T1, v1, x1, w1) ==
             \A x2, y2 : Runs(G, U, T1, w1, x2, y2) => Runs(G, U, T1, v1, x1 \o x2, y2)
           X == {q \in Universe(G) : Runs(G, U, q[1], q[2], q[3], q[4])
                                     /\ Joins1(q[1], q[2], q[3], q[4])}
<1>1. \A T1, v1, x1, w1 : <<T1, v1, x1, w1>> \in X <=>
        /\ <<T1, v1, x1, w1>> \in Universe(G)
        /\ Runs(G, U, T1, v1, x1, w1) /\ Joins1(T1, v1, x1, w1)
  OBVIOUS
<1>2. \A T1, v1, x1, w1 : Runs(G, U, T1, v1, x1, w1) => <<T1, v1, x1, w1>> \in Universe(G)
  BY UniverseClosed DEF Runs
<1> HIDE DEF X
<1>3. \A T1, v1, x1, w1 : Runs(G, U, T1, v1, x1, w1) /\ Joins1(T1, v1, x1, w1)
                            <=> <<T1, v1, x1, w1>> \in X
  BY <1>1, <1>2, Zenon
<1>4. ASSUME NEW a \in Seq(Byte), NEW b \in Seq(Byte), NEW c \in Seq(Byte)
      PROVE  (a \o b) \o c = a \o (b \o c) /\ <<>> \o a = a
  BY ConcatAssociative, ConcatEmptySeq
<1>5. ASSUME NEW T1 \in DOMAIN Types, NEW v1 \in G[T1]
      PROVE  <<T1, v1, <<>>, v1>> \in X
  <2>1. Runs(G, U, T1, v1, <<>>, v1)
    BY RunsEmpty
  <2>2. ASSUME NEW x2, NEW y2, Runs(G, U, T1, v1, x2, y2)
        PROVE  Runs(G, U, T1, v1, <<>> \o x2, y2)
    <3>1. x2 \in Seq(Byte)
      BY <2>2, RunsType, Zenon
    <3>2. <<>> \o x2 = x2
      BY <3>1, <1>4
    <3> QED
      BY <2>2, <3>2, Zenon
  <2> QED
    BY <1>3, <2>1, <2>2, Zenon
<1>6. ASSUME NEW T1 \in DOMAIN Types, NEW n \in DOMAIN Cases[T1], NEW v1 \in G[T1],
             NEW p \in PayloadSet(Cases[T1][n]), NEW x1, NEW w1, ~IsMessage(Cases[T1][n]),
             <<T1, After(Cases[T1][n], v1, p), x1, w1>> \in X
      PROVE  <<T1, v1, Piece(T1, n, p) \o x1, w1>> \in X
  <2> DEFINE a == Piece(T1, n, p)
  <2>1. /\ Runs(G, U, T1, After(Cases[T1][n], v1, p), x1, w1)
        /\ Joins1(T1, After(Cases[T1][n], v1, p), x1, w1)
    BY <1>3, <1>6, Zenon
  <2>2. x1 \in Seq(Byte) /\ a \in Seq(Byte)
    BY <2>1, RunsType, PieceType, Zenon
  <2>3. Runs(G, U, T1, v1, a \o x1, w1)
    BY <1>6, <2>1, RunsScalar, Zenon
  <2>4. ASSUME NEW x2, NEW y2, Runs(G, U, T1, w1, x2, y2)
        PROVE  Runs(G, U, T1, v1, (a \o x1) \o x2, y2)
    <3>1. x2 \in Seq(Byte)
      BY <2>4, RunsType, Zenon
    <3>2. (a \o x1) \o x2 = a \o (x1 \o x2)
      <4> HIDE DEF a
      <4> QED
        BY <2>2, <3>1, <1>4, SMTT(30)
    <3>3. Runs(G, U, T1, After(Cases[T1][n], v1, p), x1 \o x2, y2)
      BY <2>1, <2>4, Zenon
    <3>4. Runs(G, U, T1, v1, a \o (x1 \o x2), y2)
      BY <1>6, <3>3, RunsScalar, Zenon
    <3> QED
      BY <3>2, <3>4, Zenon
  <2> QED
    BY <1>3, <2>3, <2>4, Zenon
<1>7. ASSUME NEW T1 \in DOMAIN Types, NEW n \in DOMAIN Cases[T1], NEW v1 \in G[T1],
             NEW p, NEW y, NEW x1, NEW w1, IsMessage(Cases[T1][n]),
             <<Cases[T1][n].type, Start(Cases[T1][n], v1), p, y>> \in X,
             <<T1, After(Cases[T1][n], v1, y), x1, w1>> \in X
      PROVE  <<T1, v1, Piece(T1, n, p) \o x1, w1>> \in X
  <2> DEFINE a == Piece(T1, n, p)
  <2>1. /\ Runs(G, U, Cases[T1][n].type, Start(Cases[T1][n], v1), p, y)
        /\ Runs(G, U, T1, After(Cases[T1][n], v1, y), x1, w1)
        /\ Joins1(T1, After(Cases[T1][n], v1, y), x1, w1)
    BY <1>3, <1>7, Zenon
  <2>2. x1 \in Seq(Byte) /\ p \in Seq(Byte)
    BY <2>1, RunsType, Zenon
  <2>3. a \in Seq(Byte)
    BY <1>7, <2>2, PieceType, Zenon
  <2>4. Runs(G, U, T1, v1, a \o x1, w1)
    BY <1>7, <2>1, RunsMessage, Zenon
  <2>5. ASSUME NEW x2, NEW y2, Runs(G, U, T1, w1, x2, y2)
        PROVE  Runs(G, U, T1, v1, (a \o x1) \o x2, y2)
    <3>1. x2 \in Seq(Byte)
      BY <2>5, RunsType, Zenon
    <3>2. (a \o x1) \o x2 = a \o (x1 \o x2)
      <4> HIDE DEF a
      <4> QED
        BY <2>2, <2>3, <3>1, <1>4, SMTT(30)
    <3>3. Runs(G, U, T1, After(Cases[T1][n], v1, y), x1 \o x2, y2)
      BY <2>1, <2>5, Zenon
    <3>4. Runs(G, U, T1, v1, a \o (x1 \o x2), y2)
      BY <1>7, <2>1, <3>3, RunsMessage, Zenon
    <3> QED
      BY <3>2, <3>4, Zenon
  <2> QED
    BY <1>3, <2>4, <2>5, Zenon
<1>8. ASSUME NEW T1 \in DOMAIN Types, NEW v1 \in G[T1], NEW u \in U, NEW x1, NEW w1,
             <<T1, v1, x1, w1>> \in X
      PROVE  <<T1, v1, u \o x1, w1>> \in X
  <2>1. Runs(G, U, T1, v1, x1, w1) /\ Joins1(T1, v1, x1, w1)
    BY <1>3, <1>8, Zenon
  <2>2. x1 \in Seq(Byte) /\ u \in Seq(Byte)
    BY <2>1, RunsType, Zenon DEF Setting
  <2>3. Runs(G, U, T1, v1, u \o x1, w1)
    BY <2>1, RunsUnknown, Zenon
  <2>4. ASSUME NEW x2, NEW y2, Runs(G, U, T1, w1, x2, y2)
        PROVE  Runs(G, U, T1, v1, (u \o x1) \o x2, y2)
    <3>1. x2 \in Seq(Byte)
      BY <2>4, RunsType, Zenon
    <3>2. (u \o x1) \o x2 = u \o (x1 \o x2)
      BY <2>2, <3>1, <1>4, SMTT(30)
    <3>3. Runs(G, U, T1, v1, x1 \o x2, y2)
      BY <2>1, <2>4, Zenon
    <3>4. Runs(G, U, T1, v1, u \o (x1 \o x2), y2)
      BY <3>3, RunsUnknown, Zenon
    <3> QED
      BY <3>2, <3>4, Zenon
  <2> QED
    BY <1>3, <2>3, <2>4, Zenon
<1>9. Closed(G, U, X)
  <2>1. \A T1 \in DOMAIN Types : \A n, v1, p, x1, w1 : ReadsAs(G, X, T1, n, v1, p, x1, w1)
    BY <1>6, ZenonT(30) DEF ReadsAs
  <2>2. \A T1 \in DOMAIN Types : \A n, v1, p, y, x1, w1 : ReadsInto(G, X, T1, n, v1, p, y, x1, w1)
    <3> TAKE T1 \in DOMAIN Types
    <3> TAKE n, v1, p, y, x1, w1
    <3> USE DEF ReadsInto
    <3> HAVE /\ n \in DOMAIN Cases[T1] /\ v1 \in G[T1] /\ IsMessage(Cases[T1][n])
             /\ <<Cases[T1][n].type, Start(Cases[T1][n], v1), p, y>> \in X
             /\ <<T1, After(Cases[T1][n], v1, y), x1, w1>> \in X
    <3> QED
      BY <1>7, Zenon
  <2>3. \A T1 \in DOMAIN Types : \A v1, u, x1, w1 : PassesOver(G, U, X, T1, v1, u, x1, w1)
    BY <1>8, Zenon DEF PassesOver
  <2>4. \A T1 \in DOMAIN Types : \A v1 : v1 \in G[T1] => <<T1, v1, <<>>, v1>> \in X
    BY <1>5, Zenon
  <2> QED
    BY <2>1, <2>2, <2>3, <2>4, Zenon DEF Closed
<1>10. <<T, v, r, w>> \in X
  BY <1>9 DEF Runs
<1> QED
  BY <1>3, <1>10, Zenon

-----------------------------------------------------------------------------
(* What reading makes of a value.                                           *)

\* The field that case n of a type sets.
Get(T, n, v)    == v[Cases[T][n].name]
Put(T, n, v, x) == [v EXCEPT ![Cases[T][n].name] = x]

\* What field n holds when it held x and what is written of y has been read; what is
\* left of value v when a field of w, and when all fields of w have been read.
\* The flat ones are for types without embedded messages.
FlatMerged(T, n, x, y) ==
  IF LeftOut(T, n, y) THEN x
  ELSE IF Cases[T][n].kind \in {"texts", "messages"} THEN x \o y
  ELSE y

FlatSet(T, n, v, w) ==
  IF n \in DOMAIN Cases[T] THEN Put(T, n, v, FlatMerged(T, n, Get(T, n, v), Get(T, n, w))) ELSE v

FlatAll(T, v, w) ==
  FlatSet(T, 4, FlatSet(T, 3, FlatSet(T, 2, FlatSet(T, 1, v, w), w), w), w)

Merged(T, n, x, y) ==
  IF Cases[T][n].kind = "message" THEN FlatAll(Cases[T][n].type, x, y) ELSE FlatMerged(T, n, x, y)

SetField(T, n, v, w) ==
  IF n \in DOMAIN Cases[T] THEN Put(T, n, v, Merged(T, n, Get(T, n, v), Get(T, n, w))) ELSE v

SetAll(T, v, w) ==
  SetField(T, 4, SetField(T, 3, SetField(T, 2, SetField(T, 1, v, w), w), w), w)

\* A value is what its fields hold.
LEMMA SameFields ==
  ASSUME NEW T \in DOMAIN Types, NEW v \in Values[T], NEW w \in Values[T],
         \A n \in DOMAIN Cases[T] : Get(T, n, v) = Get(T, n, w)
  PROVE  v = w
<1>1. Shape(T)
  BY Shapes
<1>2. CASE DOMAIN Types[T] = {Cases[T][n].name : n \in DOMAIN Cases[T]}
  <2>1. \A f \in DOMAIN Types[T] : v[f] = w[f]
    BY <1>2 DEF Get
  <2>2. v = [f \in DOMAIN Types[T] |-> v[f]] /\ w = [f \in DOMAIN Types[T] |-> w[f]]
    BY <1>1 DEF Shape
  <2>3. [f \in DOMAIN Types[T] |-> v[f]] = [f \in DOMAIN Types[T] |-> w[f]]
    BY <2>1
  <2> QED
    BY <2>2, <2>3
<1>3. CASE Values[T] = {Nothing}
  BY <1>3
<1> QED
  BY <1>1, <1>2, <1>3 DEF Shape

\* Setting a field leaves the others alone.
LEMMA PutIs ==
  ASSUME NEW T \in DOMAIN Types, NEW n \in DOMAIN Cases[T], NEW v \in Values[T],
         NEW x \in FieldSet(Cases[T][n])
  PROVE  /\ Put(T, n, v, x) \in Values[T]
         /\ Get(T, n, Put(T, n, v, x)) = x
         /\ \A k \in DOMAIN Cases[T] : k # n => Get(T, k, Put(T, n, v, x)) = Get(T, k, v)
         /\ \A y : Put(T, n, Put(T, n, v, x), y) = Put(T, n, v, y)
         /\ Put(T, n, v, Get(T, n, v)) = v
         /\ Get(T, n, v) \in FieldSet(Cases[T][n])
<1>1. Shape(T) /\ FieldShape(T, n)
  BY Shapes DEF Shape
<1>2. v = [f \in DOMAIN Types[T] |-> v[f]] /\ Cases[T][n].name \in DOMAIN Types[T]
  BY <1>1 DEF Shape, FieldShape
<1>3. Cases[T][n].name \in DOMAIN v
  BY <1>2
<1>4. Put(T, n, v, x) \in Values[T] /\ Get(T, n, v) \in FieldSet(Cases[T][n])
  BY <1>1 DEF FieldShape, Put, Get
<1>5. \A k \in DOMAIN Cases[T] : k # n => Cases[T][k].name # Cases[T][n].name
  BY <1>1 DEF Shape
<1>6. Get(T, n, Put(T, n, v, x)) = x
  BY <1>3 DEF Put, Get
<1>7. \A k \in DOMAIN Cases[T] : k # n => Get(T, k, Put(T, n, v, x)) = Get(T, k, v)
  BY <1>3, <1>5 DEF Put, Get
<1>8. \A y : Put(T, n, Put(T, n, v, x), y) = Put(T, n, v, y)
  BY <1>3 DEF Put
<1>9. Put(T, n, v, Get(T, n, v)) = v
  BY <1>2, <1>3 DEF Put, Get
<1> QED
  BY <1>4, <1>6, <1>7, <1>8, <1>9

\* Where nothing is embedded, the two are the same.
LEMMA FlatIs ==
  ASSUME NEW T, Flat(T)
  PROVE  \A v, w : SetAll(T, v, w) = FlatAll(T, v, w)
<1>1. \A n \in DOMAIN Cases[T] : \A x, y : Merged(T, n, x, y) = FlatMerged(T, n, x, y)
  BY DEF Flat, Merged
<1>2. \A n, v, w : SetField(T, n, v, w) = FlatSet(T, n, v, w)
  BY <1>1 DEF SetField, FlatSet
<1> QED
  BY <1>2 DEF SetAll, FlatAll

\* What is merged from what a field holds is what the field may hold.
MergesWell(T) ==
  \A n \in DOMAIN Cases[T] : \A x, y \in FieldSet(Cases[T][n]) :
    Merged(T, n, x, y) \in FieldSet(Cases[T][n])

\* So every field is what was merged.
SetsAll(T) ==
  \A v, w \in Values[T] :
    /\ SetAll(T, v, w) \in Values[T]
    /\ \A n \in DOMAIN Cases[T] : Get(T, n, SetAll(T, v, w)) = Merged(T, n, Get(T, n, v), Get(T, n, w))

\* Reading one field changes that field.
LEMMA SetFieldIs ==
  ASSUME NEW T \in DOMAIN Types, MergesWell(T), NEW n, NEW v \in Values[T], NEW w \in Values[T]
  PROVE  /\ SetField(T, n, v, w) \in Values[T]
         /\ \A k \in DOMAIN Cases[T] :
              Get(T, k, SetField(T, n, v, w)) =
                IF k = n THEN Merged(T, k, Get(T, k, v), Get(T, k, w)) ELSE Get(T, k, v)
<1>1. CASE n \notin DOMAIN Cases[T]
  BY <1>1 DEF SetField
<1>2. CASE n \in DOMAIN Cases[T]
  <2>1. Get(T, n, v) \in FieldSet(Cases[T][n]) /\ Get(T, n, w) \in FieldSet(Cases[T][n])
    BY <1>2, Shapes DEF Shape, FieldShape, Get
  <2>2. Merged(T, n, Get(T, n, v), Get(T, n, w)) \in FieldSet(Cases[T][n])
    BY <1>2, <2>1 DEF MergesWell
  <2> QED
    BY <1>2, <2>2, PutIs DEF SetField
<1> QED
  BY <1>1, <1>2

\* Reading field by field leaves a value of the type, with every field merged.
LEMMA SetsAllIf ==
  ASSUME NEW T \in DOMAIN Types, MergesWell(T)
  PROVE  SetsAll(T)
<1> SUFFICES ASSUME NEW v \in Values[T], NEW w \in Values[T]
             PROVE  /\ SetAll(T, v, w) \in Values[T]
                    /\ \A n \in DOMAIN Cases[T] :
                         Get(T, n, SetAll(T, v, w)) = Merged(T, n, Get(T, n, v), Get(T, n, w))
  BY DEF SetsAll
<1> DEFINE v1 == SetField(T, 1, v, w)
           v2 == SetField(T, 2, v1, w)
           v3 == SetField(T, 3, v2, w)
           v4 == SetField(T, 4, v3, w)
           Is(a, k, b) == \A j \in DOMAIN Cases[T] :
              Get(T, j, b) = IF j = k THEN Merged(T, j, Get(T, j, a), Get(T, j, w)) ELSE Get(T, j, a)
<1>1. v1 \in Values[T] /\ Is(v, 1, v1)
  BY SetFieldIs
<1>2. v2 \in Values[T] /\ Is(v1, 2, v2)
  <2> HIDE DEF v1
  <2> QED
    BY <1>1, SetFieldIs
<1>3. v3 \in Values[T] /\ Is(v2, 3, v3)
  <2> HIDE DEF v2
  <2> QED
    BY <1>2, SetFieldIs
<1>4. v4 \in Values[T] /\ Is(v3, 4, v4)
  <2> HIDE DEF v3
  <2> QED
    BY <1>3, SetFieldIs
<1>5. SetAll(T, v, w) = v4
  BY DEF SetAll
<1> HIDE DEF v1, v2, v3, v4
<1>6. DOMAIN Cases[T] \subseteq 1 .. 4
  BY Shapes DEF Shape
<1>7. ASSUME NEW n \in DOMAIN Cases[T]
      PROVE  Get(T, n, v4) = Merged(T, n, Get(T, n, v), Get(T, n, w))
  BY <1>1, <1>2, <1>3, <1>4, <1>6
<1> QED
  BY <1>4, <1>5, <1>7

\* Fields merge to what they may hold if embedded messages do.
LEMMA MergesWellIf ==
  ASSUME NEW T \in DOMAIN Types,
         \A n \in DOMAIN Cases[T] : Cases[T][n].kind = "message" =>
           \A x, y \in Values[Cases[T][n].type] : FlatAll(Cases[T][n].type, x, y) \in Values[Cases[T][n].type]
  PROVE  MergesWell(T)
<1> SUFFICES ASSUME NEW n \in DOMAIN Cases[T],
                    NEW x \in FieldSet(Cases[T][n]), NEW y \in FieldSet(Cases[T][n])
             PROVE  Merged(T, n, x, y) \in FieldSet(Cases[T][n])
  BY DEF MergesWell
<1> DEFINE c == Cases[T][n]
<1>1. c.kind \in {"text", "number", "message", "texts", "messages"}
  BY Shapes DEF Shape, FieldShape
<1>2. CASE c.kind = "message"
  <2>1. FieldSet(c) = Values[c.type]
    BY <1>2 DEF FieldSet
  <2> QED
    BY <1>2, <2>1 DEF Merged
<1>3. CASE c.kind = "texts"
  <2>1. FieldSet(c) = Seq(Seq(Byte))
    BY <1>3 DEF FieldSet
  <2>2. x \o y \in Seq(Seq(Byte))
    BY <2>1, ConcatProperties
  <2> QED
    BY <1>3, <2>1, <2>2 DEF Merged, FlatMerged
<1>4. CASE c.kind = "messages"
  <2>1. FieldSet(c) = Seq(Values[c.type])
    BY <1>4 DEF FieldSet
  <2>2. x \o y \in Seq(Values[c.type])
    BY <2>1, ConcatProperties
  <2> QED
    BY <1>4, <2>1, <2>2 DEF Merged, FlatMerged
<1>5. CASE c.kind \in {"text", "number"}
  BY <1>5 DEF Merged, FlatMerged
<1> QED
  BY <1>1, <1>2, <1>3, <1>4, <1>5

\* All types merge and set their fields.
LEMMA AllSet == \A T \in DOMAIN Types : MergesWell(T) /\ SetsAll(T)
<1>1. ASSUME NEW T \in DOMAIN Types, Flat(T)
      PROVE  MergesWell(T) /\ SetsAll(T)
  BY <1>1, MergesWellIf, SetsAllIf DEF Flat
<1>2. ASSUME NEW T \in DOMAIN Types
      PROVE  MergesWell(T) /\ SetsAll(T)
  <2>1. ASSUME NEW n \in DOMAIN Cases[T], Cases[T][n].kind = "message"
        PROVE  \A x, y \in Values[Cases[T][n].type] :
                 FlatAll(Cases[T][n].type, x, y) \in Values[Cases[T][n].type]
    <3>1. Cases[T][n].type \in DOMAIN Types /\ Flat(Cases[T][n].type)
      BY <2>1, Shapes DEF Shape, FieldShape
    <3> QED
      BY <1>1, <3>1, FlatIs DEF SetsAll
  <2> QED
    BY <2>1, MergesWellIf, SetsAllIf
<1> QED
  BY <1>2

\* Read into the zero value of its type, a value is what was written.
MergesZero(T) ==
  \A n \in DOMAIN Cases[T] : \A y \in FieldSet(Cases[T][n]) : Merged(T, n, Get(T, n, Types[T]), y) = y

SetsZero(T) == \A w \in Values[T] : SetAll(T, Types[T], w) = w

\* Fields that are read into zero are read as they are, if each is.
LEMMA SetsZeroIf ==
  ASSUME NEW T \in DOMAIN Types, MergesZero(T)
  PROVE  SetsZero(T)
<1> SUFFICES ASSUME NEW w \in Values[T]
             PROVE  SetAll(T, Types[T], w) = w
  BY DEF SetsZero
<1>1. Shape(T)
  BY Shapes
<1>2. Types[T] \in Values[T]
  BY <1>1 DEF Shape
<1>3. \A n \in DOMAIN Cases[T] : Get(T, n, w) \in FieldSet(Cases[T][n])
  BY <1>1 DEF Shape, FieldShape, Get
<1>4. SetAll(T, Types[T], w) \in Values[T]
  BY <1>2, AllSet DEF SetsAll
<1>5. \A n \in DOMAIN Cases[T] : Get(T, n, SetAll(T, Types[T], w)) = Get(T, n, w)
  BY <1>2, <1>3, AllSet DEF SetsAll, MergesZero
<1> QED
  BY <1>4, <1>5, SameFields

\* Each is, if embedded messages are.
LEMMA MergesZeroIf ==
  ASSUME NEW T \in DOMAIN Types,
         \A n \in DOMAIN Cases[T] : Cases[T][n].kind = "message" =>
           \A y \in Values[Cases[T][n].type] :
             FlatAll(Cases[T][n].type, Types[Cases[T][n].type], y) = y
  PROVE  MergesZero(T)
<1> SUFFICES ASSUME NEW n \in DOMAIN Cases[T], NEW y \in FieldSet(Cases[T][n])
             PROVE  Merged(T, n, Get(T, n, Types[T]), y) = y
  BY DEF MergesZero
<1> DEFINE c == Cases[T][n]
           z == Get(T, n, Types[T])
<1>1. c.kind \in {"text", "number", "message", "texts", "messages"}
  BY Shapes DEF Shape, FieldShape
<1>2. CASE T = "Coin" /\ n = 2
  <2>1. c.kind = "text"
    BY <1>2, Shapes DEF Shape, FieldShape
  <2> QED
    BY <1>2, <2>1 DEF Merged, FlatMerged, LeftOut
<1>3. ASSUME ~(T = "Coin" /\ n = 2)
      PROVE  z = ZeroOf(c)
  BY <1>3, Shapes DEF Shape, FieldShape, Get
<1>4. CASE c.kind = "message"
  <2>1. FieldSet(c) = Values[c.type]
    BY <1>4 DEF FieldSet
  <2>2. T = "Coin" => n # 2
    BY <1>4, Shapes DEF Shape, FieldShape
  <2>3. z = Types[c.type]
    BY <1>3, <1>4, <2>2 DEF ZeroOf
  <2> QED
    BY <1>4, <2>1, <2>3 DEF Merged
<1>5. CASE c.kind \in {"texts", "messages"}
  <2>1. T = "Coin" => n # 2
    BY <1>5, Shapes DEF Shape, FieldShape
  <2>2. z = <<>>
    BY <1>3, <1>5, <2>1 DEF ZeroOf
  <2>3. Merged(T, n, z, y) = z \o y
    BY <1>5 DEF Merged, FlatMerged, LeftOut
  <2>4. CASE c.kind = "texts"
    <3>1. y \in Seq(Seq(Byte))
      BY <2>4 DEF FieldSet
    <3>2. <<>> \o y = y
      BY <3>1, ConcatEmptySeq
    <3> QED
      BY <2>2, <2>3, <3>2
  <2>5. CASE c.kind = "messages"
    <3>1. y \in Seq(Values[c.type])
      BY <2>5 DEF FieldSet
    <3>2. <<>> \o y = y
      BY <3>1, ConcatEmptySeq
    <3> QED
      BY <2>2, <2>3, <3>2
  <2> QED
    BY <1>5, <2>4, <2>5
<1>6. CASE c.kind \in {"text", "number"} /\ ~(T = "Coin" /\ n = 2)
  <2>1. z = IF c.kind = "number" THEN 0 ELSE <<>>
    BY <1>3, <1>6 DEF ZeroOf
  <2> HIDE DEF z
  <2>2. Merged(T, n, z, y) = IF LeftOut(T, n, y) THEN z ELSE y
    BY <1>6 DEF Merged, FlatMerged
  <2>3. LeftOut(T, n, y) => y = z
    BY <1>6, <2>1 DEF LeftOut
  <2> QED
    BY <2>2, <2>3 DEF z
<1> QED
  BY <1>1, <1>2, <1>4, <1>5, <1>6

\* Every type reads its own values from nothing.
LEMMA AllZero == \A T \in DOMAIN Types : MergesZero(T) /\ SetsZero(T)
<1>1. ASSUME NEW T \in DOMAIN Types, Flat(T)
      PROVE  MergesZero(T) /\ SetsZero(T)
  BY <1>1, MergesZeroIf, SetsZeroIf DEF Flat
<1>2. ASSUME NEW T \in DOMAIN Types
      PROVE  MergesZero(T) /\ SetsZero(T)
  <2>1. ASSUME NEW n \in DOMAIN Cases[T], Cases[T][n].kind = "message"
        PROVE  \A y \in Values[Cases[T][n].type] :
                 FlatAll(Cases[T][n].type, Types[Cases[T][n].type], y) = y
    <3>1. Cases[T][n].type \in DOMAIN Types /\ Flat(Cases[T][n].type)
      BY <2>1, Shapes DEF Shape, FieldShape
    <3> QED
      BY <1>1, <3>1, FlatIs DEF SetsZero
  <2> QED
    BY <2>1, MergesZeroIf, SetsZeroIf
<1> QED
  BY <1>2

\* The case of a field is the case that sets it.
LEMMA CaseOfIs ==
  ASSUME NEW T \in DOMAIN Types, NEW n \in DOMAIN Cases[T]
  PROVE  CaseOf(T, Cases[T][n].name) = Cases[T][n]
<1>1. \A k \in DOMAIN Cases[T] : Cases[T][k].name = Cases[T][n].name => k = n
  BY Shapes DEF Shape
<1>2. (CHOOSE k \in DOMAIN Cases[T] : Cases[T][k].name = Cases[T][n].name) = n
  BY <1>1
<1> QED
  BY <1>2 DEF CaseOf

\* What is embedded has fields.
LEMMA InnerHasCases == \A T : Level(T) < 2 => DOMAIN Cases[T] # {}
<1>1. \A T : Level(T) < 2 =>
        T \in {"Coin", "Metadata", "DenomAuthorityMetadata", "Params", "GenesisDenom"}
  BY DEF Level
<1> QED
  BY <1>1, CoinIs, MetadataIs, DenomAuthorityMetadataIs, ParamsIs, GenesisDenomIs

\* Read into itself, a value is the one of a message read twice.
LEMMA DoubledIs ==
  ASSUME NEW T \in DOMAIN Types, Flat(T), DOMAIN Cases[T] # {}, NEW v \in Values[T]
  PROVE  FlatAll(T, v, v) = Doubled(T, v)
<1> DEFINE z == SetAll(T, v, v)
<1>1. Shape(T)
  BY Shapes
<1>2. DOMAIN Types[T] = {Cases[T][n].name : n \in DOMAIN Cases[T]}
  BY <1>1 DEF Shape
<1>3. z \in Values[T] /\ \A n \in DOMAIN Cases[T] : Get(T, n, z) = Merged(T, n, Get(T, n, v), Get(T, n, v))
  BY AllSet DEF SetsAll
<1> HIDE DEF z
<1>4. z = [f \in DOMAIN Types[T] |-> z[f]] /\ v = [f \in DOMAIN Types[T] |-> v[f]]
  BY <1>1, <1>3 DEF Shape
<1>5. ASSUME NEW f \in DOMAIN Types[T]
      PROVE  z[f] = IF IsRepeated(T, f) THEN v[f] \o v[f] ELSE v[f]
  <2>1. PICK n \in DOMAIN Cases[T] : f = Cases[T][n].name
    BY <1>2
  <2>2. IsRepeated(T, f) <=> Cases[T][n].kind \in {"texts", "messages"}
    BY <2>1, CaseOfIs DEF IsRepeated
  <2>3. z[f] = FlatMerged(T, n, v[f], v[f])
    BY <1>3, <2>1 DEF Get, Merged, Flat
  <2>4. Cases[T][n].kind \in {"texts", "messages"} => ~LeftOut(T, n, v[f])
    BY DEF LeftOut
  <2> QED
    BY <2>2, <2>3, <2>4 DEF FlatMerged
<1>6. z = [f \in DOMAIN Types[T] |-> IF IsRepeated(T, f) THEN v[f] \o v[f] ELSE v[f]]
  BY <1>4, <1>5
<1>7. DOMAIN v = DOMAIN Types[T]
  BY <1>4
<1> QED
  BY <1>6, <1>7, FlatIs DEF Doubled, z

\* A message read twice over is the one that Merges expects.
LEMMA TwiceIs ==
  ASSUME NEW T \in DOMAIN Types, DOMAIN Types[T] = {Cases[T][n].name : n \in DOMAIN Cases[T]},
         NEW v \in Values[T]
  PROVE  SetAll(T, v, v) = Twice(T, v)
<1> DEFINE z == SetAll(T, v, v)
           t(f) == IF CaseOf(T, f).kind = "message"
                   THEN Doubled(CaseOf(T, f).type, v[f]) ELSE Doubled(T, v)[f]
<1>1. Shape(T)
  BY Shapes
<1>2. DOMAIN Types[T] = {Cases[T][n].name : n \in DOMAIN Cases[T]}
  OBVIOUS
<1>3. z \in Values[T] /\ \A n \in DOMAIN Cases[T] : Get(T, n, z) = Merged(T, n, Get(T, n, v), Get(T, n, v))
  BY AllSet DEF SetsAll
<1> HIDE DEF z
<1>4. z = [f \in DOMAIN Types[T] |-> z[f]] /\ v = [f \in DOMAIN Types[T] |-> v[f]]
  BY <1>1, <1>3 DEF Shape
<1>5. DOMAIN v = DOMAIN Types[T]
  BY <1>4
<1>6. ASSUME NEW f \in DOMAIN Types[T]
      PROVE  z[f] = t(f)
  <2>1. PICK n \in DOMAIN Cases[T] : f = Cases[T][n].name
    BY <1>2
  <2>2. CaseOf(T, f) = Cases[T][n]
    BY <2>1, CaseOfIs
  <2>3. z[f] = Merged(T, n, v[f], v[f])
    BY <1>3, <2>1 DEF Get
  <2>4. CASE Cases[T][n].kind = "message"
    <3> DEFINE U == Cases[T][n].type
    <3>1. U \in DOMAIN Types /\ Flat(U) /\ Level(U) < Level(T)
      BY <2>4, <1>1 DEF Shape, FieldShape
    <3>2. Level(U) < 2
      BY <3>1 DEF Level
    <3>3. v[f] \in Values[U]
      BY <2>1, <2>4, <1>1 DEF Shape, FieldShape, FieldSet
    <3>4. FlatAll(U, v[f], v[f]) = Doubled(U, v[f])
      BY <3>1, <3>2, <3>3, InnerHasCases, DoubledIs
    <3> QED
      BY <2>2, <2>3, <2>4, <3>4 DEF Merged
  <2>5. CASE Cases[T][n].kind # "message"
    <3>1. z[f] = FlatMerged(T, n, v[f], v[f])
      BY <2>3, <2>5 DEF Merged
    <3>2. IsRepeated(T, f) <=> Cases[T][n].kind \in {"texts", "messages"}
      BY <2>2 DEF IsRepeated
    <3>3. Cases[T][n].kind \in {"texts", "messages"} => ~LeftOut(T, n, v[f])
      BY DEF LeftOut
    <3>4. z[f] = IF IsRepeated(T, f) THEN v[f] \o v[f] ELSE v[f]
      BY <3>1, <3>2, <3>3 DEF FlatMerged
    <3>5. Doubled(T, v)[f] = IF IsRepeated(T, f) THEN v[f] \o v[f] ELSE v[f]
      BY <1>5 DEF Doubled
    <3> QED
      BY <2>2, <2>5, <3>4, <3>5
  <2> QED
    BY <2>4, <2>5
<1> HIDE DEF t
<1>7. z = [f \in DOMAIN Types[T] |-> t(f)]
  BY <1>4, <1>6
<1> QED
  BY <1>5, <1>7 DEF Twice, z, t

-----------------------------------------------------------------------------
(* What was written is read, a field at a time.                             *)

\* What a field may hold while x is read over by what is written of y.
Steps(T, n, x, y) ==
  {x, Merged(T, n, x, y)}
    \cup IF Cases[T][n].kind \in {"texts", "messages"}
         THEN {x \o SubSeq(y, 1, j) : j \in 0 .. Len(y)} ELSE {}

\* One more entry.
LEMMA OneMore ==
  ASSUME NEW B, NEW x \in Seq(B), NEW y \in Seq(B), NEW j \in Nat, j < Len(y)
  PROVE  /\ Append(x \o SubSeq(y, 1, j), y[j + 1]) = x \o SubSeq(y, 1, j + 1)
         /\ y[j + 1] \in B /\ j + 1 \in DOMAIN y
<1> DEFINE a == SubSeq(y, 1, j)
           e == y[j + 1]
<1>1. Len(y) \in Nat /\ e \in B /\ j + 1 \in DOMAIN y /\ j + 1 \in 1 .. Len(y)
  BY LenProperties
<1>2. a \in Seq(B) /\ <<e>> \in Seq(B)
  BY <1>1
<1>3. SubSeq(y, 1, j + 1) = a \o <<e>>
  <2>1. 1 \in 1 .. Len(y) /\ j + 1 \in 1 .. Len(y) /\ (j + 1) - 1 = j
    BY <1>1
  <2>2. SubSeq(y, 1, j + 1) = SubSeq(y, 1, (j + 1) - 1) \o <<y[j + 1]>>
    BY <2>1, SubSeqRecursiveSecond
  <2> QED
    BY <2>1, <2>2
<1> HIDE DEF a, e
<1>4. x \o a \in Seq(B)
  BY <1>2, ConcatProperties
<1>5. Append(x \o a, e) = (x \o a) \o <<e>>
  BY <1>1, <1>4
<1>6. (x \o a) \o <<e>> = x \o (a \o <<e>>)
  BY <1>2, ConcatAssociative, SMTT(30)
<1> QED
  BY <1>1, <1>3, <1>5, <1>6 DEF a, e

\* Entries of a repeated field, one after the other.
LEMMA EachRuns ==
  ASSUME NEW G, NEW U, Setting(G, U), NEW T \in DOMAIN Types, NEW n \in DOMAIN Cases[T],
         Cases[T][n].kind \in {"texts", "messages"}, NEW v \in Values[T],
         NEW B, FieldSet(Cases[T][n]) = Seq(B), NEW x \in Seq(B), NEW y \in Seq(B),
         \A j \in 0 .. Len(y) : Put(T, n, v, x \o SubSeq(y, 1, j)) \in G[T],
         NEW s \in Seq(Seq(Byte)), Len(s) = Len(y),
         \A j \in DOMAIN y : \A z \in G[T] : \A r, w :
           Runs(G, U, T, After(Cases[T][n], z, y[j]), r, w) => Runs(G, U, T, z, s[j] \o r, w)
  PROVE  Runs(G, U, T, Put(T, n, v, x), FlattenSeq(s), Put(T, n, v, x \o y))
<1> DEFINE V(j) == Put(T, n, v, x \o SubSeq(y, 1, j))
           R(j) == FlattenSeq(SubSeq(s, j + 1, Len(s)))
           w    == Put(T, n, v, x \o y)
           N    == Len(y)
           P    == {i \in Nat : i <= N => Runs(G, U, T, V(N - i), R(N - i), w)}
<1>1. N \in Nat /\ Len(s) = N
  BY LenProperties
<1>2. V(N) = w
  BY SubSeqFull
<1>3. V(0) = Put(T, n, v, x)
  <2>1. SubSeq(y, 1, 0) = <<>>
    BY SubSeqEmpty
  <2>2. x \o <<>> = x
    BY ConcatEmptySeq
  <2> QED
    BY <2>1, <2>2
<1>4. R(N) = <<>>
  <2>1. Len(s) \in 0 .. Len(s) /\ N = Len(s)
    BY <1>1
  <2>2. FlattenSeq(SubSeq(s, Len(s) + 1, Len(s))) = <<>>
    BY ONLY <2>1, s \in Seq(Seq(Byte)), FlattenFrom
  <2> QED
    BY <2>1, <2>2
<1>5. \A j \in 0 .. N : V(j) \in G[T]
  OBVIOUS
<1>6. ASSUME NEW j \in 0 .. N, j < N
      PROVE  /\ R(j) = s[j + 1] \o R(j + 1) /\ j + 1 \in DOMAIN y
             /\ After(Cases[T][n], V(j), y[j + 1]) = V(j + 1)
  <2>1. R(j) = s[j + 1] \o R(j + 1)
    <3>1. (j + 1) + 1 = j + 2
      BY <1>6
    <3>2. FlattenSeq(SubSeq(s, j + 1, Len(s))) = s[j + 1] \o FlattenSeq(SubSeq(s, j + 2, Len(s)))
      BY <1>1, <1>6, FlattenFrom
    <3> QED
      BY <3>1, <3>2
  <2>2. /\ Append(x \o SubSeq(y, 1, j), y[j + 1]) = x \o SubSeq(y, 1, j + 1)
        /\ j + 1 \in DOMAIN y
    <3>1. j \in Nat /\ j < Len(y) /\ x \in Seq(B) /\ y \in Seq(B)
      BY <1>1, <1>6
    <3> QED
      BY ONLY <3>1, OneMore, ZenonT(30)
  <2>3. x \o SubSeq(y, 1, j) \in FieldSet(Cases[T][n])
    <3>1. SubSeq(y, 1, j) \in Seq(B)
      BY <1>1, <1>6
    <3> QED
      BY <3>1, ConcatProperties
  <2>4. After(Cases[T][n], V(j), y[j + 1]) = Put(T, n, V(j), Append(Get(T, n, V(j)), y[j + 1]))
    BY DEF After, Put, Get
  <2>5. Get(T, n, V(j)) = x \o SubSeq(y, 1, j) /\ \A q : Put(T, n, V(j), q) = Put(T, n, v, q)
    BY <2>3, PutIs, ZenonT(30)
  <2> QED
    BY <2>1, <2>2, <2>4, <2>5
<1>7. ASSUME NEW i \in Nat, \A k \in Nat : k < i => k \in P
      PROVE  i \in P
  <2> SUFFICES ASSUME i <= N
               PROVE  Runs(G, U, T, V(N - i), R(N - i), w)
    OBVIOUS
  <2> HIDE DEF V, R, w
  <2>1. CASE i = 0
    <3>1. N - i = N /\ N \in 0 .. N
      BY <1>1, <2>1
    <3>2. Runs(G, U, T, V(N), <<>>, V(N))
      BY <1>5, <3>1, RunsEmpty
    <3> QED
      BY <1>2, <1>4, <3>1, <3>2
  <2>2. CASE i # 0
    <3>1. /\ N - i \in 0 .. N /\ N - i < N /\ (N - i) + 1 = N - (i - 1)
          /\ i - 1 \in Nat /\ i - 1 < i /\ i - 1 <= N
      BY <1>1, <2>2, SMTT(30)
    <3>2. Runs(G, U, T, V(N - (i - 1)), R(N - (i - 1)), w)
      BY <1>7, <3>1
    <3>3. Runs(G, U, T, After(Cases[T][n], V(N - i), y[(N - i) + 1]), R((N - i) + 1), w)
      BY <1>6, <3>1, <3>2
    <3>4. Runs(G, U, T, V(N - i), s[(N - i) + 1] \o R((N - i) + 1), w)
      BY <1>5, <1>6, <3>1, <3>3
    <3> QED
      BY <1>6, <3>1, <3>4
  <2> QED
    BY <2>1, <2>2
<1>8. Nat \subseteq P
  <2> HIDE DEF P
  <2> QED
    BY <1>7, StrongInduction
<1>9. N \in P /\ N - N = 0
  <2> HIDE DEF P
  <2> QED
    BY <1>1, <1>8
<1>10. Runs(G, U, T, V(0), R(0), w)
  <2> HIDE DEF V, R, w
  <2> QED
    BY <1>1, <1>9
<1>11. R(0) = FlattenSeq(s)
  <2>1. SubSeq(s, 1, Len(s)) = s /\ 0 + 1 = 1
    BY SubSeqFull
  <2> QED
    BY <2>1
<1> HIDE DEF V, R
<1> QED
  BY <1>3, <1>10, <1>11 DEF w

\* The runs of what is embedded in a type.
InnerRuns(G, U, T) ==
  \A n \in DOMAIN Cases[T] : IsMessage(Cases[T][n]) =>
    \A a, b \in Values[Cases[T][n].type] :
      Runs(G, U, Cases[T][n].type, a, Marshal(Cases[T][n].type, b), SetAll(Cases[T][n].type, a, b))

\* What is written of one field is read.
LEMMA FieldRuns ==
  ASSUME NEW G, NEW U, Setting(G, U), NEW T \in DOMAIN Types, InnerRuns(G, U, T),
         NEW n, NEW v \in G[T], NEW w \in Values[T],
         n \in DOMAIN Cases[T] => \A x \in Steps(T, n, Get(T, n, v), Get(T, n, w)) : Put(T, n, v, x) \in G[T]
  PROVE  Runs(G, U, T, v, FieldBytes(T, n, w), SetField(T, n, v, w))
<1>1. CASE n \notin DOMAIN Cases[T]
  <2>1. FieldBytes(T, n, w) = <<>> /\ SetField(T, n, v, w) = v
    BY <1>1 DEF FieldBytes, SetField
  <2> QED
    BY <2>1, RunsEmpty
<1>2. CASE n \in DOMAIN Cases[T]
  <2> DEFINE c == Cases[T][n]
             x == Get(T, n, v)
             y == Get(T, n, w)
  <2>1. FieldShape(T, n) /\ v \in Values[T]
    BY <1>2, Shapes DEF Shape, Setting
  <2>2. x \in FieldSet(c) /\ y \in FieldSet(c)
    BY <1>2, <2>1, PutIs DEF FieldShape, Get
  <2>3. FieldBytes(T, n, w) = FlattenSeq(Pieces(T, n, y))
    BY <1>2 DEF FieldBytes, Get
  <2>4. SetField(T, n, v, w) = Put(T, n, v, Merged(T, n, x, y))
    BY <1>2 DEF SetField
  <2>5. Put(T, n, v, Merged(T, n, x, y)) \in G[T]
    BY <1>2 DEF Steps
  <2>6. \A z : After(c, v, z) = IF c.kind \in {"texts", "messages"}
                                THEN Put(T, n, v, Append(x, z)) ELSE Put(T, n, v, z)
    BY DEF After, Put, Get
  <2>7. Start(c, v) = IF c.kind = "message" THEN x ELSE Types[c.type]
    BY DEF Start, Get
  <2>8. ASSUME NEW p \in Seq(Byte)
        PROVE  FlattenSeq(<<p>>) = p \o <<>>
    BY FlattenOne, ConcatEmptySeq
  <2>9. ASSUME LeftOut(T, n, y)
        PROVE  Runs(G, U, T, v, FlattenSeq(Pieces(T, n, y)), Put(T, n, v, Merged(T, n, x, y)))
    <3>1. FlattenSeq(Pieces(T, n, y)) = <<>>
      <4>1. Payloads(T, n, y) = <<>>
        BY <2>9 DEF Payloads, LeftOut
      <4> QED
        BY <4>1, PiecesOf
    <3>2. Merged(T, n, x, y) = x
      BY <2>9 DEF Merged, FlatMerged, LeftOut
    <3>3. Put(T, n, v, x) = v
      BY <1>2, <2>1, <2>2, PutIs
    <3> QED
      BY <3>1, <3>2, <3>3, RunsEmpty
  <2>10. ASSUME ~LeftOut(T, n, y), c.kind \in {"text", "number"}
         PROVE  Runs(G, U, T, v, FlattenSeq(Pieces(T, n, y)), Put(T, n, v, Merged(T, n, x, y)))
    <3>1. Payloads(T, n, y) = <<y>>
      BY <2>10 DEF Payloads
    <3>2. Pieces(T, n, y) = <<Piece(T, n, y)>>
      BY <3>1, PiecesOf
    <3>3. y \in PayloadSet(c) /\ ~IsMessage(c)
      BY <2>2, <2>10 DEF FieldSet, PayloadSet, IsMessage
    <3>4. Piece(T, n, y) \in Seq(Byte)
      BY <1>2, <3>3, PieceType
    <3>5. Merged(T, n, x, y) = y /\ After(c, v, y) = Put(T, n, v, y)
      BY <2>6, <2>10 DEF Merged, FlatMerged
    <3>6. Runs(G, U, T, After(c, v, y), <<>>, Put(T, n, v, y))
      BY <2>5, <3>5, RunsEmpty
    <3>7. Runs(G, U, T, v, Piece(T, n, y) \o <<>>, Put(T, n, v, y))
      BY <1>2, <3>3, <3>6, RunsScalar
    <3> QED
      BY <2>8, <3>2, <3>4, <3>5, <3>7
  <2>11. ASSUME ~LeftOut(T, n, y), c.kind = "message"
         PROVE  Runs(G, U, T, v, FlattenSeq(Pieces(T, n, y)), Put(T, n, v, Merged(T, n, x, y)))
    <3> DEFINE p == Marshal(c.type, y)
               z == Merged(T, n, x, y)
    <3>1. IsMessage(c) /\ c.type \in DOMAIN Types /\ Flat(c.type)
      BY <2>1, <2>11 DEF IsMessage, FieldShape
    <3>2. Payloads(T, n, y) = <<p>>
      BY <2>11 DEF Payloads
    <3>3. Pieces(T, n, y) = <<Piece(T, n, p)>>
      BY <3>2, PiecesOf
    <3>4. x \in Values[c.type] /\ y \in Values[c.type]
      BY <2>2, <2>11 DEF FieldSet
    <3>5. p \in Seq(Byte)
      BY <3>1, <3>4, Marshals DEF Marshalled, Agrees
    <3>6. Piece(T, n, p) \in Seq(Byte)
      BY <1>2, <3>1, <3>5, PieceType
    <3>7. z = SetAll(c.type, x, y) /\ After(c, v, z) = Put(T, n, v, z) /\ Start(c, v) = x
      BY <2>6, <2>7, <2>11, <3>1, FlatIs DEF Merged
    <3>8. Runs(G, U, c.type, Start(c, v), p, z)
      BY <1>2, <3>1, <3>4, <3>7 DEF InnerRuns
    <3>9. Runs(G, U, T, After(c, v, z), <<>>, Put(T, n, v, z))
      BY <2>5, <3>7, RunsEmpty
    <3>10. Runs(G, U, T, v, Piece(T, n, p) \o <<>>, Put(T, n, v, z))
      <4> HIDE DEF p, z
      <4> QED
        BY <1>2, <3>1, <3>8, <3>9, RunsMessage
    <3> QED
      BY <2>8, <3>3, <3>6, <3>10
  <2>12. ASSUME c.kind = "texts"
         PROVE  Runs(G, U, T, v, FlattenSeq(Pieces(T, n, y)), Put(T, n, v, Merged(T, n, x, y)))
    <3> DEFINE s == Pieces(T, n, y)
               B == Seq(Byte)
    <3>1. ~LeftOut(T, n, y)
      BY <2>12 DEF LeftOut
    <3>2. Merged(T, n, x, y) = x \o y /\ Payloads(T, n, y) = y
      BY <2>12, <3>1 DEF Merged, FlatMerged, Payloads
    <3>3. FieldSet(c) = Seq(B)
      BY <2>12 DEF FieldSet
    <3>4. s = [i \in DOMAIN y |-> Piece(T, n, y[i])]
      BY <3>2 DEF Pieces
    <3> HIDE DEF s
    <3>5. Len(y) \in Nat /\ DOMAIN y = 1 .. Len(y) /\ \A i \in DOMAIN y : y[i] \in Seq(Byte)
      BY <2>2, <3>3, LenProperties
    <3>6. PayloadSet(c) = Seq(Byte) /\ ~IsMessage(c)
      BY <2>12 DEF PayloadSet, IsMessage
    <3>7. \A i \in DOMAIN y : Piece(T, n, y[i]) \in Seq(Byte)
      BY <1>2, <3>5, <3>6, PieceType
    <3>8. s \in Seq(Seq(Byte)) /\ Len(s) = Len(y)
      BY <3>4, <3>5, <3>7, Listed
    <3>9. \A j \in DOMAIN y : \A z \in G[T] : \A r, q :
            Runs(G, U, T, After(c, z, y[j]), r, q) => Runs(G, U, T, z, s[j] \o r, q)
      <4> TAKE j \in DOMAIN y
      <4>1. s[j] = Piece(T, n, y[j]) /\ y[j] \in PayloadSet(c)
        BY <3>4, <3>5, <3>6
      <4> TAKE z \in G[T]
      <4> TAKE r, q
      <4> HAVE Runs(G, U, T, After(c, z, y[j]), r, q)
      <4>2. Runs(G, U, T, z, Piece(T, n, y[j]) \o r, q)
        BY <1>2, <3>6, <4>1, RunsScalar
      <4> QED
        BY <4>1, <4>2
    <3>10. \A j \in 0 .. Len(y) : Put(T, n, v, x \o SubSeq(y, 1, j)) \in G[T]
      BY <1>2, <2>12 DEF Steps
    <3>11. x \in Seq(B) /\ y \in Seq(B)
      BY <2>2, <3>3
    <3>12. Runs(G, U, T, Put(T, n, v, x), FlattenSeq(s), Put(T, n, v, x \o y))
      <4> HIDE DEF B, x, y
      <4> QED
        BY <1>2, <2>1, <2>12, <3>3, <3>8, <3>9, <3>10, <3>11, EachRuns
    <3>13. Put(T, n, v, x) = v
      BY <1>2, <2>1, <2>2, PutIs
    <3> QED
      BY <3>2, <3>12, <3>13 DEF s
  <2>13. ASSUME c.kind = "messages"
         PROVE  Runs(G, U, T, v, FlattenSeq(Pieces(T, n, y)), Put(T, n, v, Merged(T, n, x, y)))
    <3> DEFINE s == Pieces(T, n, y)
               B == Values[c.type]
               m == [i \in DOMAIN y |-> Marshal(c.type, y[i])]
    <3>1. IsMessage(c) /\ c.type \in DOMAIN Types
      BY <2>1, <2>13 DEF IsMessage, FieldShape
    <3>2. ~LeftOut(T, n, y)
      BY <2>13 DEF LeftOut
    <3>3. Merged(T, n, x, y) = x \o y /\ Payloads(T, n, y) = m
      BY <2>13, <3>2 DEF Merged, FlatMerged, Payloads
    <3>4. FieldSet(c) = Seq(B)
      BY <2>13 DEF FieldSet
    <3>5. s = [i \in DOMAIN y |-> Piece(T, n, Marshal(c.type, y[i]))]
      BY <3>3 DEF Pieces
    <3> HIDE DEF s, m
    <3>6. Len(y) \in Nat /\ DOMAIN y = 1 .. Len(y) /\ \A i \in DOMAIN y : y[i] \in Values[c.type]
      BY <2>2, <3>4, LenProperties
    <3>7. \A i \in DOMAIN y : Marshal(c.type, y[i]) \in Seq(Byte)
      BY <3>1, <3>6, Marshals DEF Marshalled, Agrees
    <3>8. \A i \in DOMAIN y : Piece(T, n, Marshal(c.type, y[i])) \in Seq(Byte)
      BY <1>2, <3>1, <3>7, PieceType
    <3>9. s \in Seq(Seq(Byte)) /\ Len(s) = Len(y)
      BY <3>5, <3>6, <3>8, Listed
    <3>10. \A j \in DOMAIN y : \A z \in G[T] : \A r, q :
            Runs(G, U, T, After(c, z, y[j]), r, q) => Runs(G, U, T, z, s[j] \o r, q)
      <4> TAKE j \in DOMAIN y
      <4> DEFINE p == Marshal(c.type, y[j])
      <4>1. s[j] = Piece(T, n, p)
        BY <3>5
      <4> TAKE z \in G[T]
      <4> TAKE r, q
      <4> HAVE Runs(G, U, T, After(c, z, y[j]), r, q)
      <4>2. Start(c, z) = Types[c.type]
        BY <2>13 DEF Start
      <4>3. SetAll(c.type, Types[c.type], y[j]) = y[j] /\ Types[c.type] \in Values[c.type]
        BY <3>1, <3>6, AllZero, Shapes DEF SetsZero, Shape
      <4>4. Runs(G, U, c.type, Start(c, z), p, y[j])
        BY <1>2, <3>1, <3>6, <4>2, <4>3 DEF InnerRuns
      <4> HIDE DEF p
      <4>5. Runs(G, U, T, z, Piece(T, n, p) \o r, q)
        BY <1>2, <3>1, <4>4, RunsMessage
      <4> QED
        BY <4>1, <4>5
    <3>11. \A j \in 0 .. Len(y) : Put(T, n, v, x \o SubSeq(y, 1, j)) \in G[T]
      BY <1>2, <2>13 DEF Steps
    <3>12. x \in Seq(B) /\ y \in Seq(B)
      BY <2>2, <3>4
    <3>13. Runs(G, U, T, Put(T, n, v, x), FlattenSeq(s), Put(T, n, v, x \o y))
      <4> HIDE DEF B, x, y
      <4> QED
        BY <1>2, <2>1, <2>13, <3>4, <3>9, <3>10, <3>11, <3>12, EachRuns
    <3>14. Put(T, n, v, x) = v
      BY <1>2, <2>1, <2>2, PutIs
    <3> QED
      BY <3>3, <3>13, <3>14 DEF s
  <2>14. c.kind \in {"text", "number", "message", "texts", "messages"}
    BY <2>1 DEF FieldShape
  <2>15. Runs(G, U, T, v, FlattenSeq(Pieces(T, n, y)), Put(T, n, v, Merged(T, n, x, y)))
    <3> HIDE DEF c, x, y
    <3> QED
      BY <2>9, <2>10, <2>11, <2>12, <2>13, <2>14
  <2> QED
    BY <2>3, <2>4, <2>15
<1> QED
  BY <1>1, <1>2

\* The values that reading w into v goes through.
Mids(T, v, w) ==
  {m \in Values[T] : \A n \in DOMAIN Cases[T] : Get(T, n, m) \in Steps(T, n, Get(T, n, v), Get(T, n, w))}

\* A message that is partly read is one of those on the way.
LEMMA MidsIs ==
  ASSUME NEW T \in DOMAIN Types, NEW v \in Values[T], NEW w \in Values[T]
  PROVE  /\ v \in Mids(T, v, w)
         /\ \A m \in Mids(T, v, w), n \in DOMAIN Cases[T] :
              \A x \in Steps(T, n, Get(T, n, v), Get(T, n, w)) : Put(T, n, m, x) \in Mids(T, v, w)
<1>1. v \in Mids(T, v, w)
  BY DEF Mids, Steps
<1>2. ASSUME NEW m \in Mids(T, v, w), NEW n \in DOMAIN Cases[T],
             NEW x \in Steps(T, n, Get(T, n, v), Get(T, n, w))
      PROVE  Put(T, n, m, x) \in Mids(T, v, w)
  <2> DEFINE a == Get(T, n, v)
             b == Get(T, n, w)
             c == Cases[T][n]
  <2>1. a \in FieldSet(c) /\ b \in FieldSet(c) /\ m \in Values[T]
    BY Shapes DEF Shape, FieldShape, Get, Mids
  <2>2. Merged(T, n, a, b) \in FieldSet(c)
    BY <2>1, AllSet DEF MergesWell
  <2>3. ASSUME NEW B, FieldSet(c) = Seq(B), NEW j \in 0 .. Len(b)
        PROVE  a \o SubSeq(b, 1, j) \in FieldSet(c)
    <3>1. SubSeq(b, 1, j) \in Seq(B)
      <4> HIDE DEF b, c
      <4> QED
        BY <2>1, <2>3
    <3> QED
      BY <2>1, <2>3, <3>1, ConcatProperties
  <2>4. x \in FieldSet(c)
    <3>1. CASE x \in {a, Merged(T, n, a, b)}
      BY <2>1, <2>2, <3>1
    <3>2. CASE c.kind \in {"texts", "messages"} /\ x \in {a \o SubSeq(b, 1, j) : j \in 0 .. Len(b)}
      <4>1. \E B : FieldSet(c) = Seq(B)
        BY <3>2 DEF FieldSet
      <4> QED
        BY <2>3, <3>2, <4>1
    <3> QED
      BY <3>1, <3>2 DEF Steps
  <2>5. /\ Put(T, n, m, x) \in Values[T] /\ Get(T, n, Put(T, n, m, x)) = x
        /\ \A k \in DOMAIN Cases[T] : k # n => Get(T, k, Put(T, n, m, x)) = Get(T, k, m)
    BY <2>1, <2>4, PutIs
  <2> QED
    BY <2>5 DEF Mids
<1> QED
  BY <1>1, <1>2

\* The types whose bytes are read, if the types of smaller level may take all
\* values on the way.
ReadsAll(T) ==
  \A G, U : Setting(G, U) /\ (\A S \in DOMAIN Types : Level(S) < Level(T) => G[S] = Values[S]) =>
    \A v, w \in Values[T] : Mids(T, v, w) \subseteq G[T] =>
      Runs(G, U, T, v, Marshal(T, w), SetAll(T, v, w))

\* A type reads what it writes if the simpler types do.
LEMMA ReadsAllIf ==
  ASSUME NEW T \in DOMAIN Types,
         \A S \in DOMAIN Types : Level(S) < Level(T) => ReadsAll(S)
  PROVE  ReadsAll(T)
<1> SUFFICES ASSUME NEW G, NEW U, Setting(G, U),
                    \A S \in DOMAIN Types : Level(S) < Level(T) => G[S] = Values[S],
                    NEW v \in Values[T], NEW w \in Values[T], Mids(T, v, w) \subseteq G[T]
             PROVE  Runs(G, U, T, v, Marshal(T, w), SetAll(T, v, w))
  BY DEF ReadsAll
<1>1. InnerRuns(G, U, T)
  <2> SUFFICES ASSUME NEW n \in DOMAIN Cases[T], IsMessage(Cases[T][n]),
                      NEW a \in Values[Cases[T][n].type], NEW b \in Values[Cases[T][n].type]
               PROVE  LET S == Cases[T][n].type IN Runs(G, U, S, a, Marshal(S, b), SetAll(S, a, b))
    BY DEF InnerRuns
  <2> DEFINE S == Cases[T][n].type
  <2>1. S \in DOMAIN Types /\ Level(S) < Level(T)
    BY Shapes DEF Shape, FieldShape, IsMessage
  <2> HIDE DEF S
  <2>2. \A R \in DOMAIN Types : Level(R) \in Int
    BY DEF Level
  <2>3. \A R \in DOMAIN Types : Level(R) < Level(S) => G[R] = Values[R]
    BY <2>1, <2>2
  <2>4. G[S] = Values[S] /\ ReadsAll(S)
    BY <2>1
  <2>5. Mids(S, a, b) \subseteq G[S]
    BY <2>4 DEF Mids
  <2>6. a \in Values[S] /\ b \in Values[S]
    BY DEF S
  <2>7. Runs(G, U, S, a, Marshal(S, b), SetAll(S, a, b))
    BY <2>3, <2>4, <2>5, <2>6 DEF ReadsAll
  <2> QED
    BY <2>7 DEF S
<1> DEFINE M  == Mids(T, v, w)
           v1 == SetField(T, 1, v, w)
           v2 == SetField(T, 2, v1, w)
           v3 == SetField(T, 3, v2, w)
           v4 == SetField(T, 4, v3, w)
           F(k) == FieldBytes(T, k, w)
           Same(m, k) == \A n \in DOMAIN Cases[T] : n > k => Get(T, n, m) = Get(T, n, v)
<1>2. ASSUME NEW k \in 1 .. 4, NEW m \in M, Same(m, k - 1)
      PROVE  /\ SetField(T, k, m, w) \in M /\ Same(SetField(T, k, m, w), k)
             /\ Runs(G, U, T, m, F(k), SetField(T, k, m, w))
  <2>1. \A n \in DOMAIN Cases[T] : n \in 1 .. 4
    BY Shapes DEF Shape
  <2>2. k \in DOMAIN Cases[T] =>
          \A x \in Steps(T, k, Get(T, k, m), Get(T, k, w)) : Put(T, k, m, x) \in M
    <3>1. k \in DOMAIN Cases[T] => Get(T, k, m) = Get(T, k, v)
      BY <1>2
    <3> QED
      BY <1>2, <3>1, MidsIs
  <2>3. m \in Values[T] /\ m \in G[T]
    BY <1>2 DEF Mids
  <2>4. Runs(G, U, T, m, F(k), SetField(T, k, m, w))
    BY <1>1, <2>2, <2>3, FieldRuns
  <2>5. SetField(T, k, m, w) \in M
    <3>1. CASE k \in DOMAIN Cases[T]
      <4>1. Merged(T, k, Get(T, k, m), Get(T, k, w)) \in Steps(T, k, Get(T, k, m), Get(T, k, w))
        BY DEF Steps
      <4> QED
        BY <2>2, <3>1, <4>1 DEF SetField
    <3>2. CASE k \notin DOMAIN Cases[T]
      BY <1>2, <3>2 DEF SetField
    <3> QED
      BY <3>1, <3>2
  <2>6. \A n \in DOMAIN Cases[T] : Get(T, n, SetField(T, k, m, w)) =
          IF n = k THEN Merged(T, n, Get(T, n, m), Get(T, n, w)) ELSE Get(T, n, m)
    BY <2>3, AllSet, SetFieldIs
  <2>7. Same(SetField(T, k, m, w), k)
    BY <1>2, <2>1, <2>6
  <2> QED
    BY <2>4, <2>5, <2>7
<1>3. v \in M /\ Same(v, 0)
  BY MidsIs
<1> HIDE DEF M, F, Same
<1>4. v1 \in M /\ Same(v1, 1) /\ Runs(G, U, T, v, F(1), v1)
  BY <1>2, <1>3
<1>5. v2 \in M /\ Same(v2, 2) /\ Runs(G, U, T, v1, F(2), v2)
  <2> HIDE DEF v1
  <2> QED
    BY <1>2, <1>4
<1>6. v3 \in M /\ Same(v3, 3) /\ Runs(G, U, T, v2, F(3), v3)
  <2> HIDE DEF v2
  <2> QED
    BY <1>2, <1>5
<1>7. Runs(G, U, T, v3, F(4), v4)
  <2> HIDE DEF v3
  <2> QED
    BY <1>2, <1>6
<1>8. SetAll(T, v, w) = v4
  BY DEF SetAll
<1> HIDE DEF v1, v2, v3, v4
<1>9. Runs(G, U, T, v2, F(3) \o F(4), v4)
  BY <1>6, <1>7, RunsJoin
<1>10. Runs(G, U, T, v1, F(2) \o (F(3) \o F(4)), v4)
  BY <1>5, <1>9, RunsJoin
<1>11. Runs(G, U, T, v, F(1) \o (F(2) \o (F(3) \o F(4))), v4)
  BY <1>4, <1>10, RunsJoin
<1>12. Marshal(T, w) = F(1) \o (F(2) \o (F(3) \o F(4)))
  BY Marshals DEF Marshalled, Agrees, BytesOf, Row, F
<1> QED
  BY <1>8, <1>11, <1>12

\* All types are read.
LEMMA AllRead == \A T \in DOMAIN Types : ReadsAll(T)
<1>1. \A T \in DOMAIN Types : Level(T) \in 0 .. 2
  BY DEF Level
<1>2. \A T \in DOMAIN Types : Level(T) = 0 => ReadsAll(T)
  BY <1>1, ReadsAllIf
<1>3. \A T \in DOMAIN Types : Level(T) = 1 => ReadsAll(T)
  BY <1>1, <1>2, ReadsAllIf
<1>4. \A T \in DOMAIN Types : Level(T) = 2 => ReadsAll(T)
  BY <1>1, <1>2, <1>3, ReadsAllIf
<1> QED
  BY <1>1, <1>2, <1>3, <1>4

-----------------------------------------------------------------------------
(* What the reader sees of a piece.                                         *)

\* Two parts, and a slice, byte by byte.
LEMMA TwoParts ==
  ASSUME NEW a \in Seq(Byte), NEW b \in Seq(Byte)
  PROVE  /\ a \o b \in Seq(Byte) /\ Len(a \o b) = Len(a) + Len(b)
         /\ \A x \in 1 .. Len(a) : (a \o b)[x] = a[x]
         /\ \A x \in 1 .. Len(b) : (a \o b)[Len(a) + x] = b[x]
<1>1. Len(a) \in Nat /\ Len(b) \in Nat
  BY LenProperties
<1>2. a \o b \in Seq(Byte) /\ Len(a \o b) = Len(a) + Len(b)
  BY ConcatProperties
<1>3. \A x \in 1 .. Len(a) + Len(b) : (a \o b)[x] = IF x <= Len(a) THEN a[x] ELSE b[x - Len(a)]
  BY ConcatProperties
<1>4. ASSUME NEW x \in 1 .. Len(a)
      PROVE  (a \o b)[x] = a[x]
  BY <1>1, <1>3
<1>5. ASSUME NEW x \in 1 .. Len(b)
      PROVE  (a \o b)[Len(a) + x] = b[x]
  <2>1. /\ Len(a) + x \in 1 .. Len(a) + Len(b) /\ ~(Len(a) + x <= Len(a))
        /\ (Len(a) + x) - Len(a) = x
    BY <1>1
  <2> QED
    BY <1>3, <2>1
<1> QED
  BY <1>2, <1>4, <1>5

\* The bytes of a slice.
LEMMA SliceIs ==
  ASSUME NEW d \in Seq(Byte), NEW from \in Nat, NEW to \in from .. Len(d)
  PROVE  /\ Slice(d, from, to) \in Seq(Byte) /\ Len(Slice(d, from, to)) = to - from
         /\ \A x \in 1 .. to - from : Slice(d, from, to)[x] = d[from + x]
<1>1. Len(d) \in Nat /\ to \in Nat /\ from <= to /\ to <= Len(d)
  BY LenProperties
<1>2. \A i \in from + 1 .. to : d[i] \in Byte
  BY <1>1
<1>3. /\ SubSeq(d, from + 1, to) \in Seq(Byte)
      /\ Len(SubSeq(d, from + 1, to)) = IF from + 1 <= to THEN to - (from + 1) + 1 ELSE 0
      /\ \A i \in 1 .. to - (from + 1) + 1 : SubSeq(d, from + 1, to)[i] = d[from + 1 + i - 1]
  <2>1. from + 1 \in Int /\ to \in Int
    BY <1>1
  <2> QED
    BY <1>2, <2>1, SubSeqProperties
<1>4. to - (from + 1) + 1 = to - from /\ \A i \in Nat : from + 1 + i - 1 = from + i
  BY <1>1
<1> QED
  BY <1>1, <1>3, <1>4 DEF Slice

\* The bytes q come next, as far as they are there: the bytes after index at,
\* and those lost at the end, are q and what comes after it.
IsNext(d, at, lost, q, r) ==
  /\ d \in Seq(Byte) /\ lost \in Seq(Byte) /\ q \in Seq(Byte) /\ r \in Seq(Byte)
  /\ Len(d) + Len(lost) < MaxLength
  /\ at \in Nat /\ at < Len(d)
  /\ Slice(d, at, Len(d)) \o lost = q \o r

\* What comes next, byte by byte, and how much there is of it.
LEMMA Seen ==
  ASSUME NEW d, NEW at, NEW lost, NEW q, NEW r, IsNext(d, at, lost, q, r)
  PROVE  /\ \A x \in 1 .. Len(q) : at + x <= Len(d) => d[at + x] = q[x]
         /\ at + Len(q) <= Len(d) => Slice(d, at + Len(q), Len(d)) \o lost = r
         /\ Len(d) + Len(lost) = at + Len(q) + Len(r)
<1> DEFINE s == Slice(d, at, Len(d))
           z == s \o lost
<1>1. /\ d \in Seq(Byte) /\ lost \in Seq(Byte) /\ q \in Seq(Byte) /\ r \in Seq(Byte)
      /\ at \in Nat /\ at < Len(d)
  BY DEF IsNext
<1>2. /\ Len(d) \in Nat /\ Len(lost) \in Nat /\ Len(q) \in Nat /\ Len(r) \in Nat /\ at \in Nat
      /\ at <= Len(d)
  BY <1>1, LenProperties
<1>3. /\ s \in Seq(Byte) /\ Len(s) = Len(d) - at
      /\ \A x \in 1 .. Len(d) - at : s[x] = d[at + x]
  <2>1. Len(d) \in at .. Len(d)
    BY <1>2
  <2> HIDE DEF s
  <2> QED
    BY <1>1, <1>2, <2>1, SliceIs DEF s
<1>4. z = q \o r
  BY DEF IsNext
<1> HIDE DEF s
<1>5. /\ Len(z) = Len(s) + Len(lost)
      /\ \A x \in 1 .. Len(s) : z[x] = s[x]
      /\ \A x \in 1 .. Len(lost) : z[Len(s) + x] = lost[x]
  BY <1>1, <1>3, TwoParts
<1> HIDE DEF z
<1>6. /\ Len(z) = Len(q) + Len(r)
      /\ \A x \in 1 .. Len(q) : z[x] = q[x]
      /\ \A x \in 1 .. Len(r) : z[Len(q) + x] = r[x]
  BY <1>1, <1>4, TwoParts
<1>7. Len(d) + Len(lost) = at + Len(q) + Len(r)
  <2>1. Len(s) = Len(d) - at
    BY <1>3
  <2>2. Len(s) + Len(lost) = Len(q) + Len(r)
    BY <1>5, <1>6
  <2> QED
    BY <1>2, <2>1, <2>2
<1>8. ASSUME NEW x \in 1 .. Len(q), at + x <= Len(d)
      PROVE  d[at + x] = q[x]
  <2>1. x \in 1 .. Len(d) - at /\ x \in 1 .. Len(s)
    BY <1>2, <1>3, <1>8
  <2> QED
    BY <1>3, <1>5, <1>6, <2>1
<1>9. ASSUME at + Len(q) <= Len(d)
      PROVE  Slice(d, at + Len(q), Len(d)) \o lost = r
  <2> DEFINE from == at + Len(q)
             t == Slice(d, from, Len(d))
             y == t \o lost
             k == Len(d) - from
  <2>1. from \in Nat /\ Len(d) \in from .. Len(d) /\ k \in Nat
    BY <1>2, <1>9
  <2>2. /\ t \in Seq(Byte) /\ Len(t) = k
        /\ \A x \in 1 .. k : t[x] = d[from + x]
    BY <1>1, <2>1, SliceIs
  <2> HIDE DEF t
  <2>3. /\ y \in Seq(Byte) /\ Len(y) = Len(t) + Len(lost)
        /\ \A x \in 1 .. Len(t) : y[x] = t[x]
        /\ \A x \in 1 .. Len(lost) : y[Len(t) + x] = lost[x]
    BY <1>1, <2>2, TwoParts
  <2> HIDE DEF y
  <2>4. Len(y) = Len(r)
    BY <1>2, <1>7, <2>2, <2>3
  <2>5. ASSUME NEW x \in 1 .. Len(r)
        PROVE  y[x] = r[x]
    <3>1. z[Len(q) + x] = r[x]
      BY <1>6
    <3>2. CASE x <= k
      <4>1. /\ x \in 1 .. k /\ x \in 1 .. Len(t) /\ Len(q) + x \in 1 .. Len(d) - at
            /\ Len(q) + x \in 1 .. Len(s) /\ at + (Len(q) + x) = from + x
        BY <1>2, <1>3, <2>1, <2>2, <3>2
      <4>2. y[x] = d[from + x] /\ z[Len(q) + x] = d[at + (Len(q) + x)]
        BY <1>3, <1>5, <2>2, <2>3, <4>1
      <4> QED
        BY <3>1, <4>1, <4>2
    <3>3. CASE ~(x <= k)
      <4>1. /\ x - k \in 1 .. Len(lost) /\ Len(t) + (x - k) = x
            /\ Len(s) + (x - k) = Len(q) + x
        <5>1. Len(s) = Len(d) - at /\ Len(t) = k /\ x \in Nat /\ x <= Len(r) /\ x > k
          BY <1>2, <1>3, <2>1, <2>2, <3>3
        <5> QED
          BY ONLY <1>2, <1>7, <2>1, <5>1
      <4>2. y[x] = lost[x - k] /\ z[Len(q) + x] = lost[x - k]
        BY <1>5, <2>3, <4>1
      <4> QED
        BY <3>1, <4>2
    <3> QED
      BY <3>2, <3>3
  <2>6. y = r
    BY <1>1, <2>3, <2>4, <2>5, SeqEqual
  <2> QED
    BY <2>6 DEF y, t
<1> QED
  BY <1>7, <1>8, <1>9

\* The varint of a piece: the number, or the length of the payload.
Announced(T, n, p) == IF Cases[T][n].kind = "number" THEN p ELSE Len(p)

\* A piece is a tag, a varint, and the payload unless that is the number.
LEMMA PieceParts ==
  ASSUME NEW T \in DOMAIN Types, NEW n \in DOMAIN Cases[T], NEW p,
         p \in PayloadSet(Cases[T][n]) \/ (IsMessage(Cases[T][n]) /\ p \in Seq(Byte))
  PROVE  LET q == Piece(T, n, p)
             h == encodeVarint[Announced(T, n, p)]
         IN  /\ q \in Seq(Byte) /\ h \in Seq(Byte) /\ Len(h) \in Nat \ {0}
             /\ Announced(T, n, p) \in Nat
             /\ q[1] = 8 * n + Cases[T][n].wire
             /\ \A x \in 1 .. Len(h) : q[1 + x] = h[x]
             /\ Cases[T][n].kind = "number" => p \in 0 .. Word - 1 /\ Len(q) = 1 + Len(h)
             /\ Cases[T][n].kind # "number" =>
                  /\ p \in Seq(Byte) /\ Len(q) = 1 + Len(h) + Len(p)
                  /\ \A x \in 1 .. Len(p) : q[1 + Len(h) + x] = p[x]
<1> DEFINE q == Piece(T, n, p)
           h == encodeVarint[Announced(T, n, p)]
           t == <<8 * n + Cases[T][n].wire>>
<1>1. n \in 1 .. 4 /\ Cases[T][n].wire = IF Cases[T][n].kind = "number" THEN 0 ELSE 2
  BY Shapes DEF Shape, FieldShape
<1>2. q \in Seq(Byte)
  BY PieceType
<1>3. t \in Seq(Byte) /\ Len(t) = 1 /\ t[1] = 8 * n + Cases[T][n].wire
  <2>1. 8 * n + Cases[T][n].wire \in Byte
    BY <1>1, TagBytes
  <2> QED
    BY <2>1
<1>4. Cases[T][n].kind = "number" => p \in 0 .. Word - 1
  BY DEF PayloadSet, IsMessage
<1>5. Cases[T][n].kind # "number" => p \in Seq(Byte)
  BY DEF PayloadSet
<1>6. Announced(T, n, p) \in Nat
  BY <1>4, <1>5, LenProperties DEF Announced
<1>7. h \in Seq(Byte) /\ Len(h) \in Nat \ {0}
  BY <1>6, EncodeIs, SizeOfVarint
<1>8. CASE Cases[T][n].kind = "number"
  <2>1. q = t \o h
    <3>1. 8 * n + 0 = 8 * n
      BY <1>1
    <3> QED
      BY <1>1, <1>8, <3>1 DEF Piece, Announced
  <2> HIDE DEF q, h, t
  <2>2. /\ Len(t \o h) = Len(t) + Len(h)
        /\ \A x \in 1 .. Len(t) : (t \o h)[x] = t[x]
        /\ \A x \in 1 .. Len(h) : (t \o h)[Len(t) + x] = h[x]
    BY <1>3, <1>7, TwoParts
  <2>3. /\ q[1] = t[1] /\ Len(q) = 1 + Len(h)
        /\ \A x \in 1 .. Len(h) : q[1 + x] = h[x]
    <3>1. 1 \in 1 .. Len(t)
      BY <1>3
    <3> QED
      BY <1>3, <2>1, <2>2, <3>1
  <2> QED
    BY <1>2, <1>3, <1>4, <1>6, <1>7, <1>8, <2>1, <2>2, <2>3 DEF q, h
<1>9. CASE Cases[T][n].kind # "number"
  <2>1. p \in Seq(Byte) /\ Len(p) \in Nat
    BY <1>5, <1>9, LenProperties
  <2>2. q = (t \o h) \o p
    <3>1. q = Field(8 * n + 2, p) /\ Announced(T, n, p) = Len(p) /\ Cases[T][n].wire = 2
      BY <1>1, <1>9 DEF Piece, Announced
    <3> QED
      BY <3>1 DEF Field
  <2> HIDE DEF q, h, t
  <2> DEFINE a == t \o h
  <2>3. /\ a \in Seq(Byte) /\ Len(a) = Len(t) + Len(h)
        /\ \A x \in 1 .. Len(t) : a[x] = t[x]
        /\ \A x \in 1 .. Len(h) : a[Len(t) + x] = h[x]
    BY <1>3, <1>7, TwoParts
  <2>4. q = a \o p
    BY <2>2
  <2> HIDE DEF a
  <2>5. /\ Len(q) = Len(a) + Len(p)
        /\ \A x \in 1 .. Len(a) : q[x] = a[x]
        /\ \A x \in 1 .. Len(p) : q[Len(a) + x] = p[x]
    BY <2>1, <2>3, <2>4, TwoParts
  <2>6. q[1] = t[1] /\ Len(a) = 1 + Len(h)
    <3>1. 1 \in 1 .. Len(a) /\ 1 \in 1 .. Len(t)
      BY <1>3, <1>7, <2>3
    <3> QED
      BY <1>3, <2>3, <2>5, <3>1
  <2>7. ASSUME NEW x \in 1 .. Len(h)
        PROVE  q[1 + x] = h[x]
    <3>1. 1 + x \in 1 .. Len(a) /\ Len(t) + x = 1 + x
      BY <1>3, <1>7, <2>6
    <3> QED
      BY <2>3, <2>5, <3>1
  <2>8. ASSUME NEW x \in 1 .. Len(p)
        PROVE  q[1 + Len(h) + x] = p[x]
    BY <2>5, <2>6
  <2> QED
    BY <1>2, <1>3, <1>6, <1>7, <1>9, <2>1, <2>4, <2>5, <2>6, <2>7, <2>8 DEF q, h
<1> QED
  BY <1>8, <1>9

\* What comes next is inside the bytes, unless some of it was lost.
LEMMA NextIs ==
  ASSUME NEW d, NEW at, NEW lost, NEW q, NEW r, IsNext(d, at, lost, q, r)
  PROVE  /\ d \in Seq(Byte) /\ q \in Seq(Byte) /\ at \in Nat /\ at < Len(d)
         /\ Len(d) \in Nat /\ Len(q) \in Nat
         /\ Len(d) < MaxLength /\ at + Len(q) < MaxLength
         /\ \A x \in 1 .. Len(q) : at + x <= Len(d) => d[at + x] = q[x]
         /\ at + Len(q) <= Len(d) =>
              /\ Slice(d, at + Len(q), Len(d)) \in Seq(Byte)
              /\ Slice(d, at + Len(q), Len(d)) \o lost = r
<1>1. /\ d \in Seq(Byte) /\ lost \in Seq(Byte) /\ q \in Seq(Byte) /\ r \in Seq(Byte)
      /\ Len(d) + Len(lost) < MaxLength /\ at \in Nat /\ at < Len(d)
      /\ Slice(d, at, Len(d)) \o lost = q \o r
  BY DEF IsNext
<1>2. Len(d) \in Nat /\ Len(lost) \in Nat /\ Len(q) \in Nat /\ Len(r) \in Nat
  BY <1>1, LenProperties
<1>3. at \in 0 .. Len(d)
  BY <1>1, <1>2
<1>4. /\ \A x \in 1 .. Len(q) : at + x <= Len(d) => d[at + x] = q[x]
      /\ at + Len(q) <= Len(d) => Slice(d, at + Len(q), Len(d)) \o lost = r
      /\ Len(d) + Len(lost) = at + Len(q) + Len(r)
  BY Seen
<1>5. at + Len(q) <= Len(d) => Slice(d, at + Len(q), Len(d)) \o lost = r
  BY <1>4
<1>6. Len(d) + Len(lost) = at + Len(q) + Len(r)
  BY <1>4
<1>7. MaxLength \in Nat
  BY Lengths
<1>8. Len(d) < MaxLength /\ at + Len(q) < MaxLength
  BY ONLY <1>1, <1>2, <1>6, <1>7
<1>9. ASSUME at + Len(q) <= Len(d)
      PROVE  Slice(d, at + Len(q), Len(d)) \in Seq(Byte)
  <2>1. at + Len(q) \in Nat /\ Len(d) \in at + Len(q) .. Len(d)
    BY ONLY <1>1, <1>2, <1>9
  <2> QED
    BY ONLY <1>1, <2>1, SliceIs
<1> QED
  BY <1>1, <1>2, <1>4, <1>5, <1>8, <1>9

\* Its tag is read.
LEMMA NextTag ==
  ASSUME NEW d, NEW at, NEW lost, NEW q, NEW r, IsNext(d, at, lost, q, r),
         NEW t \in 0 .. Word - 1, t < 128, q[1] = t, Len(q) > 0
  PROVE  Varint(d, at) = [ok |-> TRUE, value |-> t, next |-> at + 1]
<1>1. /\ d \in Seq(Byte) /\ at \in Nat /\ at < Len(d) /\ Len(d) \in Nat /\ Len(q) \in Nat
      /\ \A x \in 1 .. Len(q) : at + x <= Len(d) => d[at + x] = q[x]
  BY NextIs
<1>2. d[at + 1] = t
  <2>1. 1 \in 1 .. Len(q) /\ at + 1 <= Len(d)
    BY <1>1
  <2> QED
    BY <1>1, <2>1
<1>3. t \in Nat
  BY Lengths
<1>4. encodeVarint[t] = <<t>>
  BY <1>3, EncodeIs
<1>5. Holds(d, at, encodeVarint[t])
  <2>1. Len(<<t>>) = 1 /\ <<t>>[1] = t
    OBVIOUS
  <2> QED
    BY <1>1, <1>2, <1>4, <2>1 DEF Holds
<1>6. Varint(d, at) = [ok |-> TRUE, value |-> t, next |-> at + Len(encodeVarint[t])]
  BY ONLY <1>1, <1>5, t \in 0 .. Word - 1, VarintReads
<1> QED
  BY <1>4, <1>6

\* The varint after the tag is held, as far as it is there.
LEMMA NextVarint ==
  ASSUME NEW d, NEW at, NEW lost, NEW q, NEW r, IsNext(d, at, lost, q, r),
         NEW m \in Nat, \A x \in 1 .. Len(encodeVarint[m]) : q[1 + x] = encodeVarint[m][x],
         Len(q) >= 1 + Len(encodeVarint[m])
  PROVE  /\ Len(encodeVarint[m]) \in Nat \ {0}
         /\ \A x \in 1 .. Len(encodeVarint[m]) : at + 1 + x <= Len(d) => d[at + 1 + x] = encodeVarint[m][x]
         /\ at + 1 + Len(encodeVarint[m]) <= Len(d) => Holds(d, at + 1, encodeVarint[m])
<1> DEFINE h == encodeVarint[m]
<1>1. Len(h) \in Nat \ {0}
  BY SizeOfVarint
<1>2. /\ at \in Nat /\ Len(d) \in Nat /\ Len(q) \in Nat
      /\ \A x \in 1 .. Len(q) : at + x <= Len(d) => d[at + x] = q[x]
  BY NextIs
<1>3. \A x \in 1 .. Len(h) : q[1 + x] = h[x]
  OBVIOUS
<1>4. Len(q) >= 1 + Len(h)
  OBVIOUS
<1> HIDE DEF h
<1>5. ASSUME NEW x \in 1 .. Len(h), at + 1 + x <= Len(d)
      PROVE  d[at + 1 + x] = h[x]
  <2>1. 1 + x \in 1 .. Len(q) /\ at + (1 + x) = at + 1 + x
    BY <1>1, <1>2, <1>4
  <2>2. at + (1 + x) <= Len(d)
    BY <1>5, <2>1
  <2>3. d[at + (1 + x)] = q[1 + x]
    BY <1>2, <2>1, <2>2
  <2> QED
    BY <1>3, <2>1, <2>3
<1>6. ASSUME at + 1 + Len(h) <= Len(d)
      PROVE  Holds(d, at + 1, h)
  <2>1. at + 1 \in Nat /\ \A x \in 1 .. Len(h) : at + 1 + x <= Len(d)
    BY <1>1, <1>2, <1>6
  <2> QED
    BY <1>5, <1>6, <2>1 DEF Holds
<1> QED
  BY <1>1, <1>5, <1>6 DEF h

\* A number is read if it is there.
LEMMA NextNumber ==
  ASSUME NEW d, NEW at, NEW lost, NEW q, NEW r, IsNext(d, at, lost, q, r),
         NEW m \in 0 .. Word - 1, \A x \in 1 .. Len(encodeVarint[m]) : q[1 + x] = encodeVarint[m][x],
         Len(q) = 1 + Len(encodeVarint[m])
  PROVE  /\ at + Len(q) <= Len(d) =>
              Varint(d, at + 1) = [ok |-> TRUE, value |-> m, next |-> at + Len(q)]
         /\ ~(at + Len(q) <= Len(d)) => ~Varint(d, at + 1).ok
<1> DEFINE h == encodeVarint[m]
           i == at + 1
<1>1. m \in Nat
  BY Lengths
<1>2. d \in Seq(Byte) /\ at \in Nat /\ at < Len(d) /\ Len(d) \in Nat
  BY NextIs
<1>3. Len(q) >= 1 + Len(encodeVarint[m])
  BY <1>1, SizeOfVarint
<1>4. /\ Len(h) \in Nat \ {0}
      /\ \A x \in 1 .. Len(h) : i + x <= Len(d) => d[i + x] = h[x]
      /\ i + Len(h) <= Len(d) => Holds(d, i, h)
  <2>1. /\ IsNext(d, at, lost, q, r)
        /\ \A x \in 1 .. Len(encodeVarint[m]) : q[1 + x] = encodeVarint[m][x]
        /\ Len(q) >= 1 + Len(encodeVarint[m])
    BY <1>3
  <2> QED
    BY ONLY <1>1, <2>1, NextVarint
<1>5. at + Len(q) = i + Len(h) /\ i \in Nat /\ i \in 0 .. Len(d)
  <2>1. Len(q) = 1 + Len(h) /\ Len(h) \in Nat
    BY <1>4
  <2> HIDE DEF h
  <2> QED
    BY ONLY <1>2, <2>1 DEF i
<1>6. i + Len(h) <= Len(d) => Varint(d, i) = [ok |-> TRUE, value |-> m, next |-> i + Len(h)]
  <2> HIDE DEF i
  <2> QED
    BY ONLY <1>2, <1>4, <1>5, m \in 0 .. Word - 1, VarintReads DEF h
<1>7. ASSUME ~(i + Len(h) <= Len(d))
      PROVE  ~Varint(d, i).ok
  <2> HIDE DEF i, h
  <2>1. Len(d) < i + Len(h)
    BY <1>2, <1>4, <1>5, <1>7
  <2>2. \A x \in 1 .. Len(d) - i : d[i + x] = h[x]
    <3> TAKE x \in 1 .. Len(d) - i
    <3>1. x \in 1 .. Len(h) /\ i + x <= Len(d)
      BY <1>2, <1>4, <1>5, <2>1
    <3> QED
      BY <1>4, <3>1
  <2> QED
    BY ONLY <1>1, <1>2, <1>5, <2>1, <2>2, VarintCut DEF h
<1> HIDE DEF i, h
<1>8. at + Len(q) <= Len(d) => Varint(d, i) = [ok |-> TRUE, value |-> m, next |-> at + Len(q)]
  BY <1>5, <1>6
<1>9. ~(at + Len(q) <= Len(d)) => ~Varint(d, i).ok
  BY <1>5, <1>7
<1> QED
  BY <1>8, <1>9 DEF i

\* A payload is read if it is there to its end.
LEMMA NextPayload ==
  ASSUME NEW d, NEW at, NEW lost, NEW q, NEW r, IsNext(d, at, lost, q, r),
         NEW p \in Seq(Byte),
         \A x \in 1 .. Len(encodeVarint[Len(p)]) : q[1 + x] = encodeVarint[Len(p)][x],
         \A x \in 1 .. Len(p) : q[1 + Len(encodeVarint[Len(p)]) + x] = p[x],
         Len(q) = 1 + Len(encodeVarint[Len(p)]) + Len(p)
  PROVE  /\ at + Len(q) <= Len(d) =>
              /\ Payload(d, at + 1).ok /\ Payload(d, at + 1).to = at + Len(q)
              /\ Slice(d, Payload(d, at + 1).from, Payload(d, at + 1).to) = p
         /\ ~(at + Len(q) <= Len(d)) => ~Payload(d, at + 1).ok
<1> DEFINE m == Len(p)
           h == encodeVarint[m]
           i == at + 1
           from == i + Len(h)
           to == from + m
<1>1. m \in Nat
  BY LenProperties
<1>2. /\ d \in Seq(Byte) /\ at \in Nat /\ at < Len(d) /\ Len(d) \in Nat /\ Len(d) < MaxLength
      /\ at + Len(q) < MaxLength
      /\ \A x \in 1 .. Len(q) : at + x <= Len(d) => d[at + x] = q[x]
  <2>1. d \in Seq(Byte) /\ at \in Nat /\ at < Len(d) /\ Len(d) \in Nat
    BY NextIs
  <2>2. Len(d) < MaxLength /\ at + Len(q) < MaxLength
    BY NextIs
  <2>3. \A x \in 1 .. Len(q) : at + x <= Len(d) => d[at + x] = q[x]
    BY NextIs
  <2> QED
    BY <2>1, <2>2, <2>3
<1>3. Len(q) >= 1 + Len(h)
  <2>1. Len(h) \in Nat
    BY <1>1, SizeOfVarint
  <2> QED
    BY <1>1, <2>1
<1>4. /\ Len(h) \in Nat \ {0}
      /\ \A x \in 1 .. Len(h) : i + x <= Len(d) => d[i + x] = h[x]
      /\ i + Len(h) <= Len(d) => Holds(d, i, h)
  <2>1. /\ IsNext(d, at, lost, q, r)
        /\ \A x \in 1 .. Len(encodeVarint[m]) : q[1 + x] = encodeVarint[m][x]
        /\ Len(q) >= 1 + Len(encodeVarint[m])
    BY <1>3
  <2> QED
    BY ONLY <1>1, <2>1, NextVarint
<1>5. at + Len(q) = to /\ i \in Nat /\ i \in 0 .. Len(d) /\ from \in Nat
  <2>1. Len(q) = 1 + Len(h) + m /\ Len(h) \in Nat /\ at \in Nat /\ Len(d) \in Nat /\ at < Len(d)
    BY <1>2, <1>4
  <2> HIDE DEF h, m
  <2> QED
    BY ONLY <1>1, <2>1 DEF i, from, to
<1>6. \A x \in 1 .. m : q[1 + Len(h) + x] = p[x]
  OBVIOUS
<1>7. Len(q) = 1 + Len(h) + m
  OBVIOUS
<1> HIDE DEF m, h, i
<1>8. ASSUME to <= Len(d)
      PROVE  /\ Payload(d, i) = [ok |-> TRUE, from |-> from, to |-> to]
             /\ Slice(d, from, to) = p
  <2>1. from <= Len(d) /\ to \in from .. Len(d) /\ to - from = m
    BY <1>1, <1>2, <1>5, <1>8
  <2>2. Payload(d, i) = [ok |-> TRUE, from |-> from, to |-> to]
    BY ONLY <1>1, <1>2, <1>4, <1>5, <1>8, <2>1, PayloadReads DEF h, from, to
  <2> HIDE DEF from, to
  <2>3. /\ Slice(d, from, to) \in Seq(Byte) /\ Len(Slice(d, from, to)) = to - from
        /\ \A x \in 1 .. to - from : Slice(d, from, to)[x] = d[from + x]
    BY ONLY <1>2, <1>5, <2>1, SliceIs
  <2>4. ASSUME NEW x \in 1 .. m
        PROVE  Slice(d, from, to)[x] = p[x]
    <3>1. 1 + Len(h) + x \in 1 .. Len(q)
      BY <1>1, <1>4, <1>7
    <3>2. at + (1 + Len(h) + x) = from + x
      BY <1>2, <1>4 DEF from, i
    <3>3. from + x <= Len(d)
      BY <1>1, <1>2, <1>5, <1>8, <2>1
    <3>4. d[at + (1 + Len(h) + x)] = q[1 + Len(h) + x]
      BY <1>2, <3>1, <3>2, <3>3
    <3> QED
      BY <1>6, <2>1, <2>3, <3>2, <3>4
  <2>5. Slice(d, from, to) = p
    <3>1. Len(Slice(d, from, to)) = Len(p) /\ \A x \in 1 .. Len(p) : Slice(d, from, to)[x] = p[x]
      BY <2>1, <2>3, <2>4 DEF m
    <3> QED
      BY ONLY <2>3, <3>1, p \in Seq(Byte), SeqEqual
  <2> QED
    BY <2>2, <2>5
<1>9. ASSUME ~(to <= Len(d))
      PROVE  ~Payload(d, i).ok
  <2>1. Len(d) < i + Len(h) + m /\ i + Len(h) + m < MaxLength
    BY <1>1, <1>2, <1>4, <1>5, <1>9
  <2>2. \A x \in 1 .. Len(d) - i : x <= Len(h) => d[i + x] = h[x]
    <3> TAKE x \in 1 .. Len(d) - i
    <3> HAVE x <= Len(h)
    <3>1. x \in 1 .. Len(h) /\ i + x <= Len(d)
      BY <1>2, <1>4, <1>5
    <3> QED
      BY <1>4, <3>1
  <2> QED
    BY ONLY <1>1, <1>2, <1>5, <2>1, <2>2, PayloadCut DEF h
<1> HIDE DEF from, to
<1>10. at + Len(q) <= Len(d) =>
         /\ Payload(d, i).ok /\ Payload(d, i).to = at + Len(q)
         /\ Slice(d, Payload(d, i).from, Payload(d, i).to) = p
  BY <1>5, <1>8
<1>11. ~(at + Len(q) <= Len(d)) => ~Payload(d, i).ok
  BY <1>5, <1>9
<1> QED
  BY <1>10, <1>11 DEF i

\* What the readers make of a piece after index at: its tag, and the number or the
\* payload if they are there.
PieceSeen(T, n, p, d, at) ==
  LET end == at + Len(Piece(T, n, p)) IN
  /\ Varint(d, at) = [ok |-> TRUE, value |-> 8 * n + Cases[T][n].wire, next |-> at + 1]
  /\ FieldNum(8 * n + Cases[T][n].wire) = n /\ n > 0
  /\ WireType(8 * n + Cases[T][n].wire) = Cases[T][n].wire /\ Cases[T][n].wire # 4
  /\ Cases[T][n].kind = "number" =>
       /\ end <= Len(d) => Varint(d, at + 1) = [ok |-> TRUE, value |-> p, next |-> end]
       /\ ~(end <= Len(d)) => ~Varint(d, at + 1).ok
  /\ Cases[T][n].kind # "number" =>
       /\ end <= Len(d) =>
            /\ Payload(d, at + 1).ok /\ Payload(d, at + 1).to = end
            /\ Slice(d, Payload(d, at + 1).from, Payload(d, at + 1).to) = p
       /\ ~(end <= Len(d)) => ~Payload(d, at + 1).ok

\* A piece that comes next is read by the case of its field, if it is there.
LEMMA PieceRead ==
  ASSUME NEW T \in DOMAIN Types, NEW n \in DOMAIN Cases[T], NEW p,
         p \in PayloadSet(Cases[T][n]) \/ (IsMessage(Cases[T][n]) /\ p \in Seq(Byte)),
         NEW d, NEW at, NEW lost, NEW r, IsNext(d, at, lost, Piece(T, n, p), r)
  PROVE  PieceSeen(T, n, p, d, at)
<1> DEFINE c == Cases[T][n]
           q == Piece(T, n, p)
           a == Announced(T, n, p)
           h == encodeVarint[a]
           tag == 8 * n + c.wire
<1>1. /\ q[1] = tag /\ Len(h) \in Nat \ {0} /\ a \in Nat
      /\ \A x \in 1 .. Len(h) : q[1 + x] = h[x]
      /\ c.kind = "number" => p \in 0 .. Word - 1 /\ Len(q) = 1 + Len(h)
      /\ c.kind # "number" =>
           /\ p \in Seq(Byte) /\ Len(q) = 1 + Len(h) + Len(p)
           /\ \A x \in 1 .. Len(p) : q[1 + Len(h) + x] = p[x]
  <2>1. /\ T \in DOMAIN Types /\ n \in DOMAIN Cases[T]
        /\ p \in PayloadSet(Cases[T][n]) \/ (IsMessage(Cases[T][n]) /\ p \in Seq(Byte))
    OBVIOUS
  <2> QED
    BY ONLY <2>1, PieceParts
<1>2. n \in 1 .. 4 /\ c.wire = IF c.kind = "number" THEN 0 ELSE 2
  BY Shapes DEF Shape, FieldShape
<1>3. c.kind = "number" => a = p
  BY DEF Announced
<1>4. c.kind # "number" => a = Len(p)
  BY DEF Announced
<1>5. IsNext(d, at, lost, q, r)
  OBVIOUS
<1>6. Len(q) > 0
  <2>1. c.kind # "number" => Len(p) \in Nat
    BY <1>1, LenProperties
  <2> HIDE DEF c, q, a, h
  <2> QED
    BY <1>1, <2>1
<1>7. c.wire \in {0, 2}
  BY <1>2
<1> HIDE DEF c, q, a, h
<1>8. /\ tag \in 0 .. Word - 1 /\ tag < 128 /\ FieldNum(tag) = n /\ WireType(tag) = c.wire
  BY <1>2, <1>7, TagIs
<1>9. q[1] = tag
  BY <1>1
<1>10. Varint(d, at) = [ok |-> TRUE, value |-> tag, next |-> at + 1]
  <2> HIDE DEF tag
  <2> QED
    BY <1>5, <1>6, <1>8, <1>9, NextTag
<1>11. ASSUME c.kind = "number"
       PROVE  /\ at + Len(q) <= Len(d) => Varint(d, at + 1) = [ok |-> TRUE, value |-> p, next |-> at + Len(q)]
              /\ ~(at + Len(q) <= Len(d)) => ~Varint(d, at + 1).ok
  <2>1. /\ p \in 0 .. Word - 1 /\ h = encodeVarint[p]
        /\ Len(q) = 1 + Len(encodeVarint[p])
        /\ \A x \in 1 .. Len(encodeVarint[p]) : q[1 + x] = encodeVarint[p][x]
    BY <1>1, <1>3, <1>11 DEF h
  <2> QED
    BY <1>5, <2>1, NextNumber
<1>12. ASSUME c.kind # "number"
       PROVE  /\ at + Len(q) <= Len(d) =>
                   /\ Payload(d, at + 1).ok /\ Payload(d, at + 1).to = at + Len(q)
                   /\ Slice(d, Payload(d, at + 1).from, Payload(d, at + 1).to) = p
              /\ ~(at + Len(q) <= Len(d)) => ~Payload(d, at + 1).ok
  <2>1. /\ p \in Seq(Byte) /\ h = encodeVarint[Len(p)]
        /\ Len(q) = 1 + Len(encodeVarint[Len(p)]) + Len(p)
        /\ \A x \in 1 .. Len(encodeVarint[Len(p)]) : q[1 + x] = encodeVarint[Len(p)][x]
        /\ \A x \in 1 .. Len(p) : q[1 + Len(encodeVarint[Len(p)]) + x] = p[x]
    BY <1>1, <1>4, <1>12 DEF h
  <2> QED
    BY <1>5, <2>1, NextPayload
<1>13. n > 0 /\ c.wire # 4
  BY <1>2
<1> QED
  BY <1>8, <1>10, <1>11, <1>12, <1>13 DEF c, q, PieceSeen

\* A field that no type has is passed over.
LEMMA UnknownRead ==
  ASSUME NEW u, IsUnknown(u), NEW d, NEW at, NEW r, IsNext(d, at, <<>>, u, r)
  PROVE  /\ Varint(d, at).ok /\ WireType(Varint(d, at).value) # 4 /\ FieldNum(Varint(d, at).value) > 0
         /\ \A type \in DOMAIN Cases : FieldNum(Varint(d, at).value) \notin DOMAIN Cases[type]
         /\ skip(Slice(d, at, Len(d))) = [ok |-> TRUE, n |-> Len(u)]
         /\ Len(u) \in Nat \ {0} /\ Signed(at + Len(u), WordBits) >= 0 /\ at + Len(u) <= Len(d)
<1> DEFINE tag == Varint(u, 0)
<1>1. /\ u \in Seq(Byte) /\ Len(u) < MaxLength
      /\ tag.ok /\ WireType(tag.value) # 4 /\ FieldNum(tag.value) > 0
      /\ \A type \in DOMAIN Cases : FieldNum(tag.value) \notin DOMAIN Cases[type]
      /\ skip(u) = [ok |-> TRUE, n |-> Len(u)]
  BY DEF IsUnknown
<1>2. d \in Seq(Byte) /\ at \in Nat /\ Len(d) \in Nat /\ Len(d) < MaxLength
  BY NextIs
<1>3. at < Len(d) /\ Len(u) \in Nat
  BY NextIs
<1>4. \A x \in 1 .. Len(u) : at + x <= Len(d) => d[at + x] = u[x]
  BY NextIs
<1>5. r \in Seq(Byte) /\ Len(d) + 0 = at + Len(u) + Len(r)
  <2>1. r \in Seq(Byte)
    BY DEF IsNext
  <2>2. Len(d) + Len(<<>>) = at + Len(u) + Len(r)
    BY Seen
  <2>3. Len(<<>>) = 0
    BY EmptySeq
  <2> QED
    BY <2>1, <2>2, <2>3
<1>6. at + Len(u) <= Len(d)
  <2>1. Len(r) \in Nat
    BY <1>5, LenProperties
  <2> QED
    BY ONLY <1>2, <1>3, <1>5, <2>1
<1>7. Holds(d, at, u)
  <2>1. \A x \in 1 .. Len(u) : at + x <= Len(d)
    BY ONLY <1>2, <1>3, <1>6
  <2> QED
    BY <1>2, <1>4, <1>6, <2>1 DEF Holds
<1>8. Varint(d, at).ok /\ Varint(d, at).value = tag.value
  <2>1. Varint(d, at + 0) = [ok |-> TRUE, value |-> Varint(u, 0).value, next |-> at + Varint(u, 0).next]
    BY <1>1, <1>2, <1>7, VarintSame
  <2>2. at + 0 = at
    BY <1>2
  <2> QED
    BY <2>1, <2>2
<1>9. Len(u) > 0
  <2>1. Varint(u, 0).next \in 0 + 1 .. Len(u)
    BY <1>1, VarintType
  <2> QED
    BY <1>3, <2>1
<1>10. skip(Slice(d, at, Len(d))) = skip(u)
  <2> DEFINE s == Slice(d, at, Len(d))
             k == Len(d) - at
  <2>1. Len(d) \in at .. Len(d) /\ k \in Nat /\ k < MaxLength
    <3>1. MaxLength \in Nat
      BY Lengths
    <3> QED
      BY ONLY <1>2, <1>3, <3>1
  <2>2. /\ s \in Seq(Byte) /\ Len(s) = k
        /\ \A x \in 1 .. k : s[x] = d[at + x]
    BY <1>2, <2>1, SliceIs
  <2> HIDE DEF s
  <2>3. 0 + Len(u) <= k /\ \A x \in 1 .. Len(u) : x \in 1 .. k /\ at + x <= Len(d) /\ 0 + x = x
    BY ONLY <1>2, <1>3, <1>6
  <2>4. Holds(s, 0, u)
    BY <1>4, <2>2, <2>3 DEF Holds
  <2> QED
    BY <1>1, <2>1, <2>2, <2>4, SkipSame DEF s
<1>11. Signed(at + Len(u), WordBits) >= 0
  <2>1. MaxLength \in Nat
    BY Lengths
  <2>2. at + Len(u) \in 0 .. MaxLength - 1
    BY ONLY <1>2, <1>3, <1>6, <2>1
  <2>3. Signed(at + Len(u), WordBits) = at + Len(u)
    <3> DEFINE x == at + Len(u)
    <3>1. x \in 0 .. MaxLength - 1
      BY <2>2
    <3> HIDE DEF x
    <3>2. Signed(x, WordBits) = x
      BY <3>1, SignedIs
    <3> QED
      BY <3>2 DEF x
  <2> QED
    BY <1>2, <1>3, <2>3
<1> QED
  BY <1>1, <1>3, <1>6, <1>8, <1>9, <1>10, <1>11

-----------------------------------------------------------------------------
(* What is written.                                                         *)

\* Every message the model writes is a value of its type.
LEMMA BoundsIs ==
  /\ \A s \in Strings : s \in Seq(Byte)
  /\ \A c \in Coins : c \in CoinValues
  /\ \A md \in Metadatas : md \in MetadataValues
  /\ \A am \in AuthorityMetadatas : am \in DenomAuthorityMetadataValues
  /\ \A g \in GenesisDenoms : g \in GenesisDenomValues
  /\ \A p \in ParamsValues : p \in ParamsAll
  /\ \A S, V : S \subseteq V => ListsOf(S) \subseteq Seq(V)
<1>1. /\ Strings \subseteq Seq(Byte) /\ Coins \subseteq CoinValues /\ Metadatas \subseteq MetadataValues
      /\ Lists \subseteq Nat /\ Gas \subseteq 0 .. Word - 1
  BY CodecAssumption DEF CoinValues, MetadataValues
<1>2. AuthorityMetadatas \subseteq DenomAuthorityMetadataValues
  BY <1>1 DEF AuthorityMetadatas, DenomAuthorityMetadataValues
<1>3. GenesisDenoms \subseteq GenesisDenomValues
  BY <1>1, <1>2 DEF GenesisDenoms, GenesisDenomValues
<1>4. ASSUME NEW S, NEW V, S \subseteq V, NEW l \in ListsOf(S)
      PROVE  l \in Seq(V)
  <2>1. PICK n \in Lists : l \in [1 .. n -> S]
    BY <1>4 DEF ListsOf
  <2>2. n \in Nat /\ l \in [1 .. n -> V]
    BY <1>1, <1>4, <2>1
  <2> QED
    BY <2>2
<1>5. ParamsValues \subseteq ParamsAll
  <2>1. ListsOf(Coins) \subseteq Seq(CoinValues)
    BY <1>1, <1>4
  <2> QED
    BY <1>1, <2>1 DEF ParamsValues, ParamsAll
<1>6. \A S, V : S \subseteq V => ListsOf(S) \subseteq Seq(V)
  BY <1>4
<1> QED
  BY <1>1, <1>2, <1>3, <1>5, <1>6

\* A value is marshalled, as Marshal and Size of its type have it.
Writes == \E T \in DOMAIN Types : \E m \in Values[T] : Written(T, m, Marshal(T, m), SizeOf(T, m))

\* What is stored is a value of its type.
LEMMA WriteStoredIs == WriteStored => Writes
<1>1. ASSUME NEW m \in AuthorityMetadatas,
             Written("DenomAuthorityMetadata", m, MarshalDenomAuthorityMetadata(m),
                     SizeDenomAuthorityMetadata(m))
      PROVE  Writes
  <2>1. "DenomAuthorityMetadata" \in DOMAIN Types
    BY DEF Types
  <2>2. m \in Values["DenomAuthorityMetadata"]
    BY BoundsIs, DenomAuthorityMetadataIs
  <2>3. /\ Marshal("DenomAuthorityMetadata", m) = MarshalDenomAuthorityMetadata(m)
        /\ SizeOf("DenomAuthorityMetadata", m) = SizeDenomAuthorityMetadata(m)
    BY DEF Marshal, SizeOf
  <2> QED
    BY <1>1, <2>1, <2>2, <2>3, Zenon DEF Writes
<1>2. ASSUME NEW m \in ParamsValues,
             Written("Params", m, MarshalParams(m), SizeParams(m))
      PROVE  Writes
  <2>1. "Params" \in DOMAIN Types
    BY DEF Types
  <2>2. m \in Values["Params"]
    BY BoundsIs, ParamsIs
  <2>3. Marshal("Params", m) = MarshalParams(m) /\ SizeOf("Params", m) = SizeParams(m)
    BY DEF Marshal, SizeOf
  <2> QED
    BY <1>2, <2>1, <2>2, <2>3, Zenon DEF Writes
<1>3. ASSUME NEW m \in GenesisDenoms,
             Written("GenesisDenom", m, MarshalGenesisDenom(m), SizeGenesisDenom(m))
      PROVE  Writes
  <2>1. "GenesisDenom" \in DOMAIN Types
    BY DEF Types
  <2>2. m \in Values["GenesisDenom"]
    BY BoundsIs, GenesisDenomIs
  <2>3. /\ Marshal("GenesisDenom", m) = MarshalGenesisDenom(m)
        /\ SizeOf("GenesisDenom", m) = SizeGenesisDenom(m)
    BY DEF Marshal, SizeOf
  <2> QED
    BY <1>3, <2>1, <2>2, <2>3, Zenon DEF Writes
<1>4. ASSUME NEW m \in GenesisStates,
             Written("GenesisState", m, MarshalGenesisState(m), SizeGenesisState(m))
      PROVE  Writes
  <2>1. ListsOf(ListedDenoms) \subseteq Seq(GenesisDenomValues)
    <3>1. ListedDenoms \subseteq GenesisDenomValues
      BY CodecAssumption DEF GenesisDenomValues, DenomAuthorityMetadataValues
    <3> QED
      BY <3>1, BoundsIs
  <2>2. "GenesisState" \in DOMAIN Types
    BY DEF Types
  <2>3. m \in Values["GenesisState"]
    BY <2>1, BoundsIs, GenesisStateIs DEF GenesisStates
  <2>4. /\ Marshal("GenesisState", m) = MarshalGenesisState(m)
        /\ SizeOf("GenesisState", m) = SizeGenesisState(m)
    BY DEF Marshal, SizeOf
  <2> QED
    BY <1>4, <2>2, <2>3, <2>4, Zenon DEF Writes
<1> QED
  BY <1>1, <1>2, <1>3, <1>4, Zenon DEF WriteStored

\* So is every message,
LEMMA WriteMsgIs == WriteMsg => Writes
<1>1. ASSUME NEW m \in [sender : Strings, subdenom : Strings],
             Written("MsgCreateDenom", m, MarshalMsgCreateDenom(m), SizeMsgCreateDenom(m))
      PROVE  Writes
  <2>1. "MsgCreateDenom" \in DOMAIN Types
    BY DEF Types
  <2>2. m \in Values["MsgCreateDenom"]
    BY BoundsIs, MsgCreateDenomIs
  <2>3. /\ Marshal("MsgCreateDenom", m) = MarshalMsgCreateDenom(m)
        /\ SizeOf("MsgCreateDenom", m) = SizeMsgCreateDenom(m)
    BY DEF Marshal, SizeOf
  <2> QED
    BY <1>1, <2>1, <2>2, <2>3, Zenon DEF Writes
<1>2. ASSUME NEW m \in [sender : Strings, amount : Coins, mintToAddress : Strings],
             Written("MsgMint", m, MarshalMsgMint(m), SizeMsgMint(m))
      PROVE  Writes
  <2>1. "MsgMint" \in DOMAIN Types
    BY DEF Types
  <2>2. m \in Values["MsgMint"]
    BY BoundsIs, MsgMintIs
  <2>3. Marshal("MsgMint", m) = MarshalMsgMint(m) /\ SizeOf("MsgMint", m) = SizeMsgMint(m)
    BY DEF Marshal, SizeOf
  <2> QED
    BY <1>2, <2>1, <2>2, <2>3, Zenon DEF Writes
<1>3. ASSUME NEW m \in [sender : Strings, amount : Coins, burnFromAddress : Strings],
             Written("MsgBurn", m, MarshalMsgBurn(m), SizeMsgBurn(m))
      PROVE  Writes
  <2>1. "MsgBurn" \in DOMAIN Types
    BY DEF Types
  <2>2. m \in Values["MsgBurn"]
    BY BoundsIs, MsgBurnIs
  <2>3. Marshal("MsgBurn", m) = MarshalMsgBurn(m) /\ SizeOf("MsgBurn", m) = SizeMsgBurn(m)
    BY DEF Marshal, SizeOf
  <2> QED
    BY <1>3, <2>1, <2>2, <2>3, Zenon DEF Writes
<1>4. ASSUME NEW m \in [sender : Strings, denom : Strings, newAdmin : Strings],
             Written("MsgChangeAdmin", m, MarshalMsgChangeAdmin(m), SizeMsgChangeAdmin(m))
      PROVE  Writes
  <2>1. "MsgChangeAdmin" \in DOMAIN Types
    BY DEF Types
  <2>2. m \in Values["MsgChangeAdmin"]
    BY BoundsIs, MsgChangeAdminIs
  <2>3. /\ Marshal("MsgChangeAdmin", m) = MarshalMsgChangeAdmin(m)
        /\ SizeOf("MsgChangeAdmin", m) = SizeMsgChangeAdmin(m)
    BY DEF Marshal, SizeOf
  <2> QED
    BY <1>4, <2>1, <2>2, <2>3, Zenon DEF Writes
<1>5. ASSUME NEW m \in [sender : Strings, metadata : Metadatas],
             Written("MsgSetDenomMetadata", m, MarshalMsgSetDenomMetadata(m), SizeMsgSetDenomMetadata(m))
      PROVE  Writes
  <2>1. "MsgSetDenomMetadata" \in DOMAIN Types
    BY DEF Types
  <2>2. m \in Values["MsgSetDenomMetadata"]
    BY BoundsIs, MsgSetDenomMetadataIs
  <2>3. /\ Marshal("MsgSetDenomMetadata", m) = MarshalMsgSetDenomMetadata(m)
        /\ SizeOf("MsgSetDenomMetadata", m) = SizeMsgSetDenomMetadata(m)
    BY DEF Marshal, SizeOf
  <2> QED
    BY <1>5, <2>1, <2>2, <2>3, Zenon DEF Writes
<1>6. ASSUME NEW m \in [sender : Strings, amount : Coins, transferFromAddress : Strings,
              transferToAddress : Strings],
             Written("MsgForceTransfer", m, MarshalMsgForceTransfer(m), SizeMsgForceTransfer(m))
      PROVE  Writes
  <2>1. "MsgForceTransfer" \in DOMAIN Types
    BY DEF Types
  <2>2. m \in Values["MsgForceTransfer"]
    BY BoundsIs, MsgForceTransferIs
  <2>3. /\ Marshal("MsgForceTransfer", m) = MarshalMsgForceTransfer(m)
        /\ SizeOf("MsgForceTransfer", m) = SizeMsgForceTransfer(m)
    BY DEF Marshal, SizeOf
  <2> QED
    BY <1>6, <2>1, <2>2, <2>3, Zenon DEF Writes
<1> QED
  BY <1>1, <1>2, <1>3, <1>4, <1>5, <1>6, Zenon DEF WriteMsg

\* every response,
LEMMA WriteResponseIs == WriteResponse => Writes
<1>1. ASSUME NEW m \in [newTokenDenom : Strings],
             Written("MsgCreateDenomResponse", m, MarshalMsgCreateDenomResponse(m),
                     SizeMsgCreateDenomResponse(m))
      PROVE  Writes
  <2>1. "MsgCreateDenomResponse" \in DOMAIN Types
    BY DEF Types
  <2>2. m \in Values["MsgCreateDenomResponse"]
    BY BoundsIs, MsgCreateDenomResponseIs
  <2>3. /\ Marshal("MsgCreateDenomResponse", m) = MarshalMsgCreateDenomResponse(m)
        /\ SizeOf("MsgCreateDenomResponse", m) = SizeMsgCreateDenomResponse(m)
    BY DEF Marshal, SizeOf
  <2> QED
    BY <1>1, <2>1, <2>2, <2>3, Zenon DEF Writes
<1>2. ASSUME NEW T \in {"MsgMintResponse", "MsgBurnResponse", "MsgChangeAdminResponse",
                       "MsgSetDenomMetadataResponse", "MsgForceTransferResponse", "QueryParamsRequest"},
             Written(T, Nothing, MarshalNothing, SizeNothing)
      PROVE  Writes
  <2>1. T \in DOMAIN Types /\ Nothing \in Values[T]
    BY DEF Types, Values
  <2>2. Marshal(T, Nothing) = MarshalNothing /\ SizeOf(T, Nothing) = SizeNothing
    BY DEF Marshal, SizeOf
  <2> QED
    BY <1>2, <2>1, <2>2, Zenon DEF Writes
<1> QED
  BY <1>1, <1>2, Zenon DEF WriteResponse

\* and every query.
LEMMA WriteQueryIs == WriteQuery => Writes
<1>1. ASSUME NEW m \in [params : ParamsValues],
             Written("QueryParamsResponse", m, MarshalQueryParamsResponse(m), SizeQueryParamsResponse(m))
      PROVE  Writes
  <2>1. "QueryParamsResponse" \in DOMAIN Types
    BY DEF Types
  <2>2. m \in Values["QueryParamsResponse"]
    BY BoundsIs, QueryParamsResponseIs
  <2>3. /\ Marshal("QueryParamsResponse", m) = MarshalQueryParamsResponse(m)
        /\ SizeOf("QueryParamsResponse", m) = SizeQueryParamsResponse(m)
    BY DEF Marshal, SizeOf
  <2> QED
    BY <1>1, <2>1, <2>2, <2>3, Zenon DEF Writes
<1>2. ASSUME NEW m \in [denom : Strings],
             Written("QueryDenomAuthorityMetadataRequest", m, MarshalQueryDenomAuthorityMetadataRequest(m),
                     SizeQueryDenomAuthorityMetadataRequest(m))
      PROVE  Writes
  <2>1. "QueryDenomAuthorityMetadataRequest" \in DOMAIN Types
    BY DEF Types
  <2>2. m \in Values["QueryDenomAuthorityMetadataRequest"]
    BY BoundsIs, QueryDenomAuthorityMetadataRequestIs
  <2>3. /\ Marshal("QueryDenomAuthorityMetadataRequest", m) =
             MarshalQueryDenomAuthorityMetadataRequest(m)
        /\ SizeOf("QueryDenomAuthorityMetadataRequest", m) = SizeQueryDenomAuthorityMetadataRequest(m)
    BY DEF Marshal, SizeOf
  <2> QED
    BY <1>2, <2>1, <2>2, <2>3, Zenon DEF Writes
<1>3. ASSUME NEW m \in [authorityMetadata : AuthorityMetadatas],
             Written("QueryDenomAuthorityMetadataResponse", m, MarshalQueryDenomAuthorityMetadataResponse(m),
                     SizeQueryDenomAuthorityMetadataResponse(m))
      PROVE  Writes
  <2>1. "QueryDenomAuthorityMetadataResponse" \in DOMAIN Types
    BY DEF Types
  <2>2. m \in Values["QueryDenomAuthorityMetadataResponse"]
    BY BoundsIs, QueryDenomAuthorityMetadataResponseIs
  <2>3. /\ Marshal("QueryDenomAuthorityMetadataResponse", m) =
             MarshalQueryDenomAuthorityMetadataResponse(m)
        /\ SizeOf("QueryDenomAuthorityMetadataResponse", m) = SizeQueryDenomAuthorityMetadataResponse(m)
    BY DEF Marshal, SizeOf
  <2> QED
    BY <1>3, <2>1, <2>2, <2>3, Zenon DEF Writes
<1>4. ASSUME NEW m \in [creator : Strings],
             Written("QueryDenomsFromCreatorRequest", m, MarshalQueryDenomsFromCreatorRequest(m),
                     SizeQueryDenomsFromCreatorRequest(m))
      PROVE  Writes
  <2>1. "QueryDenomsFromCreatorRequest" \in DOMAIN Types
    BY DEF Types
  <2>2. m \in Values["QueryDenomsFromCreatorRequest"]
    BY BoundsIs, QueryDenomsFromCreatorRequestIs
  <2>3. /\ Marshal("QueryDenomsFromCreatorRequest", m) = MarshalQueryDenomsFromCreatorRequest(m)
        /\ SizeOf("QueryDenomsFromCreatorRequest", m) = SizeQueryDenomsFromCreatorRequest(m)
    BY DEF Marshal, SizeOf
  <2> QED
    BY <1>4, <2>1, <2>2, <2>3, Zenon DEF Writes
<1>5. ASSUME NEW m \in [denoms : ListsOf(Strings)],
             Written("QueryDenomsFromCreatorResponse", m, MarshalQueryDenomsFromCreatorResponse(m),
                     SizeQueryDenomsFromCreatorResponse(m))
      PROVE  Writes
  <2>1. ListsOf(Strings) \subseteq Seq(Seq(Byte))
    <3>1. Strings \subseteq Seq(Byte)
      BY BoundsIs
    <3> QED
      BY <3>1, BoundsIs
  <2>2. "QueryDenomsFromCreatorResponse" \in DOMAIN Types
    BY DEF Types
  <2>3. m \in Values["QueryDenomsFromCreatorResponse"]
    BY <2>1, BoundsIs, QueryDenomsFromCreatorResponseIs
  <2>4. /\ Marshal("QueryDenomsFromCreatorResponse", m) = MarshalQueryDenomsFromCreatorResponse(m)
        /\ SizeOf("QueryDenomsFromCreatorResponse", m) = SizeQueryDenomsFromCreatorResponse(m)
    BY DEF Marshal, SizeOf
  <2> QED
    BY <1>5, <2>2, <2>3, <2>4, Zenon DEF Writes
<1> QED
  BY <1>1, <1>2, <1>3, <1>4, <1>5, Zenon DEF WriteQuery

\* What is marshalled fits its buffer, and is its bytes.
LEMMA WrittenIs ==
  ASSUME NEW T \in DOMAIN Types, NEW m \in Values[T], Written(T, m, Marshal(T, m), SizeOf(T, m))
  PROVE  /\ sent' = [type |-> T, value |-> m] /\ status' = "sent" /\ data' = Marshal(T, m)
         /\ Len(Marshal(T, m)) < MaxLength /\ Marshal(T, m) \in Seq(Byte)
         /\ UNCHANGED <<change, frames>>
<1> DEFINE b == Marshal(T, m)
           size == SizeOf(T, m)
<1>1. b \in Seq(Byte) /\ size = Len(b)
  BY Marshals DEF Marshalled, Agrees
<1>2. /\ Len(b) < MaxLength /\ sent' = [type |-> T, value |-> m] /\ UNCHANGED <<change, frames>>
      /\ IF Fits(b, size) THEN status' = "sent" /\ data' = Buffered(b, size)
         ELSE status' = "panic" /\ data' = <<>>
  BY DEF Written
<1> HIDE DEF b, size
<1>3. Len(b) \in Nat
  BY <1>1, LenProperties
<1>4. Fits(b, size)
  BY <1>1, <1>3 DEF Fits
<1>5. Buffered(b, size) = b
  <2> DEFINE pad == [i \in 1 .. size - Len(b) |-> 0]
  <2>1. pad = <<>>
    <3>1. 1 .. size - Len(b) = {}
      BY <1>1, <1>3
    <3> QED
      BY <3>1
  <2>2. <<>> \o b = b
    BY <1>1, ConcatEmptySeq
  <2>3. SubSeq(b, 1, Len(b)) = b
    BY <1>1, SubSeqFull
  <2> QED
    BY <2>1, <2>2, <2>3 DEF Buffered
<1> QED
  BY <1>1, <1>2, <1>4, <1>5 DEF b

\* So is whatever is written.
LEMMA WriteIs == ASSUME Write PROVE status = "writing" /\ Writes
BY WriteStoredIs, WriteMsgIs, WriteResponseIs, WriteQueryIs DEF Write

-----------------------------------------------------------------------------
(* The calls of Unmarshal.                                                  *)

\* The calls there may be: each has a value of its type and is inside its bytes.
Intos == {Str("result")} \cup UNION {{Cases[T][n] : n \in DOMAIN Cases[T]} : T \in DOMAIN Types}

Frames ==
  {f \in [type : DOMAIN Types, value : AllValues, data : Seq(Byte), at : Nat, into : Intos] :
     f.value \in Values[f.type] /\ Len(f.data) < MaxLength /\ f.at <= Len(f.data)}

\* A call was made for a case of the one before it.
CalledFor(f, g, n) ==
  n \in DOMAIN Cases[f.type] /\ IsMessage(Cases[f.type][n])
  /\ g.into = Cases[f.type][n] /\ g.type = Cases[f.type][n].type

Calls(fs) ==
  fs \in Seq(Frames) /\ \A k \in 1 .. Len(fs) - 1 : \E n : CalledFor(fs[k], fs[k + 1], n)

\* What a call of Unmarshal is.
LEMMA FrameIs ==
  ASSUME NEW f \in Frames
  PROVE  /\ f.type \in DOMAIN Types /\ f.value \in Values[f.type] /\ f.data \in Seq(Byte)
         /\ Len(f.data) \in Nat /\ Len(f.data) < MaxLength /\ f.at \in Nat /\ f.at <= Len(f.data)
         /\ f.into \in Intos
         /\ f = [type |-> f.type, value |-> f.value, data |-> f.data, at |-> f.at, into |-> f.into]
<1>1. /\ f \in [type : DOMAIN Types, value : AllValues, data : Seq(Byte), at : Nat, into : Intos]
      /\ f.value \in Values[f.type] /\ Len(f.data) < MaxLength /\ f.at <= Len(f.data)
  BY DEF Frames
<1>2. f.data \in Seq(Byte)
  BY <1>1
<1>3. Len(f.data) \in Nat
  BY <1>2, LenProperties
<1> QED
  BY <1>1, <1>2, <1>3

\* What makes one.
LEMMA NewFrame ==
  ASSUME NEW T \in DOMAIN Types, NEW v \in Values[T], NEW d \in Seq(Byte), Len(d) < MaxLength,
         NEW at \in Nat, at <= Len(d), NEW into \in Intos
  PROVE  [type |-> T, value |-> v, data |-> d, at |-> at, into |-> into] \in Frames
<1>1. v \in AllValues
  BY DEF AllValues
<1> QED
  BY <1>1 DEF Frames

\* A call goes on.
Moved(f, v, to) == [f EXCEPT !.value = v, !.at = to]

\* A call goes on.
LEMMA FrameMoves ==
  ASSUME NEW f \in Frames, NEW v \in Values[f.type], NEW to \in Nat, to <= Len(f.data)
  PROVE  LET g == Moved(f, v, to) IN
         g \in Frames /\ g.type = f.type /\ g.value = v /\ g.data = f.data /\ g.at = to /\ g.into = f.into
<1> DEFINE g == Moved(f, v, to)
<1> USE DEF Moved
<1>1. /\ f \in [type : DOMAIN Types, value : AllValues, data : Seq(Byte), at : Nat, into : Intos]
      /\ f.type \in DOMAIN Types /\ Len(f.data) < MaxLength
  BY DEF Frames
<1>2. v \in AllValues
  BY <1>1 DEF AllValues
<1>3. g \in [type : DOMAIN Types, value : AllValues, data : Seq(Byte), at : Nat, into : Intos]
  BY <1>1, <1>2
<1>4. g.type = f.type /\ g.value = v /\ g.data = f.data /\ g.at = to /\ g.into = f.into
  BY <1>1, <1>2
<1> HIDE DEF g
<1>5. g \in Frames
  BY <1>1, <1>3, <1>4 DEF Frames
<1> QED
  BY <1>4, <1>5 DEF g

\* A call goes on to an index, and its value stays.
LEMMA FrameAt ==
  ASSUME NEW f \in Frames, NEW to \in Nat, to <= Len(f.data)
  PROVE  LET g == [f EXCEPT !.at = to] IN
         g \in Frames /\ g.type = f.type /\ g.value = f.value /\ g.data = f.data /\ g.at = to /\ g.into = f.into
<1>1. f \in [type : DOMAIN Types, value : AllValues, data : Seq(Byte), at : Nat, into : Intos]
  BY DEF Frames
<1>2. Moved(f, f.value, to) = [f EXCEPT !.at = to]
  BY <1>1 DEF Moved
<1>3. f.value \in Values[f.type]
  BY FrameIs
<1> DEFINE v == f.value
           g == Moved(f, v, to)
<1>4. g \in Frames /\ g.type = f.type /\ g.value = v /\ g.data = f.data /\ g.at = to /\ g.into = f.into
  <2> HIDE DEF v
  <2> QED
    BY <1>3, FrameMoves DEF v
<1> QED
  BY <1>2, <1>4

\* A call's value is set, and it stays where it is.
LEMMA FrameGets ==
  ASSUME NEW f \in Frames, NEW v \in Values[f.type]
  PROVE  LET g == [f EXCEPT !.value = v] IN
         g \in Frames /\ g.type = f.type /\ g.value = v /\ g.data = f.data /\ g.at = f.at /\ g.into = f.into
<1>1. f \in [type : DOMAIN Types, value : AllValues, data : Seq(Byte), at : Nat, into : Intos]
  BY DEF Frames
<1>2. Moved(f, v, f.at) = [f EXCEPT !.value = v]
  BY <1>1 DEF Moved
<1>3. f.at \in Nat /\ f.at <= Len(f.data)
  BY FrameIs
<1> DEFINE to == f.at
           g == Moved(f, v, to)
<1>4. to \in Nat /\ to <= Len(f.data)
  BY <1>3
<1>5. g \in Frames /\ g.type = f.type /\ g.value = v /\ g.data = f.data /\ g.at = to /\ g.into = f.into
  <2> HIDE DEF to
  <2> QED
    BY <1>4, FrameMoves
<1> QED
  BY <1>2, <1>5

\* What one call changes leaves the others as they are.
LEMMA CallsMove ==
  ASSUME NEW fs, Calls(fs), NEW k \in 1 .. Len(fs), NEW g \in Frames,
         g.type = fs[k].type, g.into = fs[k].into
  PROVE  LET gs == [fs EXCEPT ![k] = g] IN
         /\ Calls(gs) /\ Len(gs) = Len(fs) /\ gs[k] = g
         /\ \A j \in 1 .. Len(fs) : j # k => gs[j] = fs[j]
<1> DEFINE gs == [fs EXCEPT ![k] = g]
<1>1. fs \in Seq(Frames) /\ \A j \in 1 .. Len(fs) - 1 : \E n : CalledFor(fs[j], fs[j + 1], n)
  BY DEF Calls
<1>2. /\ gs \in Seq(Frames) /\ Len(gs) = Len(fs)
      /\ \A j \in 1 .. Len(fs) : gs[j] = IF j = k THEN g ELSE fs[j]
  BY <1>1, ExceptSeq
<1>3. Len(fs) \in Nat
  BY <1>1, LenProperties
<1> HIDE DEF gs
<1>4. \A j \in 1 .. Len(fs) : gs[j].type = fs[j].type /\ gs[j].into = fs[j].into
  BY <1>2
<1>5. ASSUME NEW j \in 1 .. Len(gs) - 1
      PROVE  \E n : CalledFor(gs[j], gs[j + 1], n)
  <2>1. j \in 1 .. Len(fs) - 1 /\ j \in 1 .. Len(fs) /\ j + 1 \in 1 .. Len(fs)
    BY <1>2, <1>3
  <2>2. PICK n : CalledFor(fs[j], fs[j + 1], n)
    BY <1>1, <2>1
  <2>3. CalledFor(gs[j], gs[j + 1], n)
    BY <1>4, <2>1, <2>2, Zenon DEF CalledFor
  <2> QED
    BY <2>3
<1>6. Calls(gs)
  BY <1>2, <1>5 DEF Calls
<1> QED
  BY <1>2, <1>6 DEF gs

\* One more call, for an embedded message.
LEMMA CallsGrow ==
  ASSUME NEW fs, Calls(fs), NEW g \in Frames, Len(fs) > 0, \E n : CalledFor(fs[Len(fs)], g, n)
  PROVE  LET gs == Append(fs, g) IN
         /\ Calls(gs) /\ Len(gs) = Len(fs) + 1 /\ gs[Len(fs) + 1] = g
         /\ \A j \in 1 .. Len(fs) : gs[j] = fs[j]
<1> DEFINE gs == Append(fs, g)
<1>1. fs \in Seq(Frames) /\ \A j \in 1 .. Len(fs) - 1 : \E n : CalledFor(fs[j], fs[j + 1], n)
  BY DEF Calls
<1>2. /\ gs \in Seq(Frames) /\ Len(gs) = Len(fs) + 1 /\ gs[Len(fs) + 1] = g
      /\ \A j \in 1 .. Len(fs) : gs[j] = fs[j]
  BY <1>1, AppendProperties
<1>3. Len(fs) \in Nat
  BY <1>1, LenProperties
<1> HIDE DEF gs
<1>4. ASSUME NEW j \in 1 .. Len(gs) - 1
      PROVE  \E n : CalledFor(gs[j], gs[j + 1], n)
  <2>1. CASE j = Len(fs)
    <3>1. gs[j] = fs[Len(fs)] /\ gs[j + 1] = g
      <4>1. Len(fs) \in 1 .. Len(fs)
        BY <1>3
      <4> QED
        BY <1>2, <2>1, <4>1
    <3> QED
      BY <3>1
  <2>2. CASE j # Len(fs)
    <3>1. j \in 1 .. Len(fs) - 1 /\ j \in 1 .. Len(fs) /\ j + 1 \in 1 .. Len(fs)
      BY <1>2, <1>3, <2>2
    <3> QED
      BY <1>1, <1>2, <3>1
  <2> QED
    BY <2>1, <2>2
<1>5. Calls(gs)
  BY <1>2, <1>4 DEF Calls
<1> QED
  BY <1>2, <1>5 DEF gs

\* One call fewer.
LEMMA CallsShrink ==
  ASSUME NEW fs, Calls(fs), Len(fs) > 0
  PROVE  LET gs == Front(fs) IN
         /\ Calls(gs) /\ Len(gs) = Len(fs) - 1
         /\ \A j \in 1 .. Len(fs) - 1 : gs[j] = fs[j]
<1> DEFINE gs == Front(fs)
<1>1. fs \in Seq(Frames) /\ \A j \in 1 .. Len(fs) - 1 : \E n : CalledFor(fs[j], fs[j + 1], n)
  BY DEF Calls
<1>2. Len(fs) \in Nat
  BY <1>1, LenProperties
<1>3. /\ gs \in Seq(Frames) /\ Len(gs) = Len(fs) - 1
      /\ \A j \in 1 .. Len(fs) - 1 : gs[j] = fs[j]
  <2>1. \A j \in 1 .. Len(fs) - 1 : fs[j] \in Frames
    BY <1>1, <1>2
  <2>2. /\ SubSeq(fs, 1, Len(fs) - 1) \in Seq(Frames)
        /\ Len(SubSeq(fs, 1, Len(fs) - 1)) = IF 1 <= Len(fs) - 1 THEN Len(fs) - 1 - 1 + 1 ELSE 0
        /\ \A j \in 1 .. Len(fs) - 1 - 1 + 1 : SubSeq(fs, 1, Len(fs) - 1)[j] = fs[1 + j - 1]
    <3>1. 1 \in Int /\ Len(fs) - 1 \in Int
      BY <1>2
    <3> QED
      BY <2>1, <3>1, SubSeqProperties
  <2>3. Len(fs) - 1 - 1 + 1 = Len(fs) - 1 /\ \A j \in Nat : 1 + j - 1 = j
    BY <1>2
  <2> QED
    BY <1>2, <2>2, <2>3 DEF Front
<1> HIDE DEF gs
<1>4. ASSUME NEW j \in 1 .. Len(gs) - 1
      PROVE  \E n : CalledFor(gs[j], gs[j + 1], n)
  <2>1. j \in 1 .. Len(fs) - 1 /\ j + 1 \in 1 .. Len(fs) - 1
    BY <1>3, <1>2
  <2> QED
    BY <1>1, <1>3, <2>1
<1>5. Calls(gs)
  BY <1>3, <1>4 DEF Calls
<1> QED
  BY <1>3, <1>5 DEF gs

\* A case reads a value of its field.
LEMMA AfterIs ==
  ASSUME NEW T \in DOMAIN Types, NEW n \in DOMAIN Cases[T], NEW v \in Values[T], NEW x,
         IF IsMessage(Cases[T][n]) THEN x \in Values[Cases[T][n].type] ELSE x \in PayloadSet(Cases[T][n])
  PROVE  After(Cases[T][n], v, x) \in Values[T]
<1> DEFINE c == Cases[T][n]
<1>1. FieldShape(T, n)
  BY Shapes DEF Shape
<1>2. c.kind \in {"text", "number", "message", "texts", "messages"}
  BY <1>1 DEF FieldShape
<1>3. v[c.name] \in FieldSet(c)
  BY <1>1 DEF FieldShape
<1>4. (IF c.kind \in {"texts", "messages"} THEN Append(v[c.name], x) ELSE x) \in FieldSet(c)
  <2>1. CASE c.kind \in {"text", "number", "message"}
    BY <2>1 DEF IsMessage, PayloadSet, FieldSet
  <2>2. CASE c.kind = "texts"
    <3>1. v[c.name] \in Seq(Seq(Byte)) /\ x \in Seq(Byte)
      BY <1>3, <2>2 DEF FieldSet, IsMessage, PayloadSet
    <3>2. Append(v[c.name], x) \in Seq(Seq(Byte))
      BY <3>1, AppendProperties
    <3> QED
      BY <2>2, <3>2 DEF FieldSet
  <2>3. CASE c.kind = "messages"
    <3>1. v[c.name] \in Seq(Values[c.type]) /\ x \in Values[c.type]
      BY <1>3, <2>3 DEF FieldSet, IsMessage
    <3>2. Append(v[c.name], x) \in Seq(Values[c.type])
      BY <3>1, AppendProperties
    <3> QED
      BY <2>3, <3>2 DEF FieldSet
  <2> QED
    BY <1>2, <2>1, <2>2, <2>3
<1> QED
  BY <1>1, <1>4 DEF After, FieldShape

\* The value an embedded message is read into.
LEMMA StartIs ==
  ASSUME NEW T \in DOMAIN Types, NEW n \in DOMAIN Cases[T], NEW v \in Values[T], IsMessage(Cases[T][n])
  PROVE  /\ Cases[T][n].type \in DOMAIN Types /\ Start(Cases[T][n], v) \in Values[Cases[T][n].type]
         /\ Cases[T][n] \in Intos
<1> DEFINE c == Cases[T][n]
<1>1. c.type \in DOMAIN Types /\ v[c.name] \in FieldSet(c)
  BY Shapes DEF Shape, FieldShape, IsMessage
<1>2. Types[c.type] \in Values[c.type]
  BY <1>1, Shapes DEF Shape
<1>3. c.kind = "message" => v[c.name] \in Values[c.type]
  BY <1>1 DEF FieldSet
<1>4. c \in Intos
  BY DEF Intos
<1> QED
  BY <1>1, <1>2, <1>3, <1>4 DEF Start

-----------------------------------------------------------------------------
(* The state.                                                               *)

\* What holds whatever happened to the bytes.
CodecType ==
  /\ sent.type \in DOMAIN Types /\ sent.value \in Values[sent.type]
  /\ data \in Seq(Byte) /\ Len(data) < MaxLength
  /\ change \in {"none", "unknown", "twice", "cut", "damaged"}
  /\ status \in {"writing", "sent", "reading", "read", "refused"}
  /\ Calls(frames)
  /\ status \in {"writing", "sent"} => frames = <<>>
  /\ status \in {"reading", "refused"} => Len(frames) > 0
  /\ status = "read" => Len(frames) = 1

\* The innermost call is there while a message is read.
LEMMA TopIs ==
  ASSUME CodecType, status = "reading"
  PROVE  /\ Len(frames) \in Nat \ {0} /\ Len(frames) \in 1 .. Len(frames) /\ frames \in Seq(Frames)
         /\ Top \in Frames /\ Top = frames[Len(frames)]
<1>1. frames \in Seq(Frames) /\ Len(frames) > 0
  BY DEF CodecType, Calls
<1>2. Len(frames) \in Nat
  BY <1>1, LenProperties
<1> QED
  BY <1>1, <1>2 DEF Top

\* What a case reads is inside the bytes, and a value of its kind.
LEMMA KnownIs ==
  ASSUME CodecType, status = "reading", Readable, Known
  PROVE  /\ Num \in DOMAIN Cases[Top.type] /\ Case = Cases[Top.type][Num]
         /\ Case.kind = "number" =>
              Amount.value \in 0 .. Word - 1 /\ Amount.next \in Nat /\ Amount.next <= Len(Top.data)
         /\ Case.kind # "number" =>
              /\ Bytes.to \in Nat /\ Bytes.to <= Len(Top.data)
              /\ Slice(Top.data, Bytes.from, Bytes.to) \in Seq(Byte)
              /\ Len(Slice(Top.data, Bytes.from, Bytes.to)) < MaxLength
<1>1. Num \in DOMAIN Cases[Top.type] /\ Case = Cases[Top.type][Num]
  BY DEF Known, Case
<1>2. Tag.ok /\ IF Case.kind = "number" THEN Amount.ok ELSE Bytes.ok
  BY DEF Readable
<1>3. /\ Top.data \in Seq(Byte) /\ Len(Top.data) \in Nat /\ Len(Top.data) < MaxLength /\ Top.at \in Nat
  BY TopIs, FrameIs
<1>4. Tag.next \in Nat
  BY <1>3, VarintType DEF Tag
<1>5. ASSUME Case.kind = "number"
      PROVE  Amount.value \in 0 .. Word - 1 /\ Amount.next \in Nat /\ Amount.next <= Len(Top.data)
  <2> DEFINE d == Top.data
             i == Tag.next
  <2>1. Varint(d, i).ok
    BY <1>2, <1>5 DEF Amount
  <2>2. d \in Seq(Byte) /\ i \in Nat /\ Len(d) \in Nat
    BY <1>3, <1>4
  <2> HIDE DEF d, i
  <2>3. /\ Varint(d, i).value \in 0 .. Word - 1 /\ Varint(d, i).next \in Nat
        /\ Varint(d, i).next \in i + 1 .. Len(d)
    BY <2>1, <2>2, VarintType
  <2>4. Varint(d, i).next <= Len(d)
    BY <2>2, <2>3
  <2> QED
    BY <2>3, <2>4 DEF Amount, d, i
<1>6. ASSUME Case.kind # "number"
      PROVE  /\ Bytes.to \in Nat /\ Bytes.to <= Len(Top.data)
             /\ Slice(Top.data, Bytes.from, Bytes.to) \in Seq(Byte)
             /\ Len(Slice(Top.data, Bytes.from, Bytes.to)) < MaxLength
  <2> DEFINE d == Top.data
             i == Tag.next
             from == Payload(d, i).from
             to == Payload(d, i).to
  <2>1. Payload(d, i).ok
    BY <1>2, <1>6 DEF Bytes
  <2>2. d \in Seq(Byte) /\ i \in Nat /\ Len(d) \in Nat /\ Len(d) < MaxLength
    BY <1>3, <1>4
  <2> HIDE DEF d, i
  <2>3. from \in i + 1 .. Len(d) /\ to \in from .. Len(d)
    BY <2>1, <2>2, PayloadType
  <2> HIDE DEF from, to
  <2>4. from \in Nat /\ to \in Nat /\ to <= Len(d) /\ to - from <= Len(d) /\ to - from \in Nat
    BY <2>2, <2>3
  <2>5. Slice(d, from, to) \in Seq(Byte) /\ Len(Slice(d, from, to)) = to - from
    BY <2>2, <2>3, <2>4, SliceIs
  <2>6. to - from < MaxLength
    <3>1. MaxLength \in Nat
      BY Lengths
    <3> QED
      BY ONLY <2>2, <2>4, <3>1
  <2> QED
    BY <2>4, <2>5, <2>6 DEF Bytes, d, i, from, to
<1> QED
  BY <1>1, <1>5, <1>6

\* What is passed over is inside the bytes.
LEMMA SkippedIs ==
  ASSUME CodecType, Unread, Readable, ~Known
  PROVE  Skip.to \in Nat /\ Skip.to <= Len(Top.data)
<1> DEFINE d == Top.data
           at == Top.at
           s == Slice(d, at, Len(d))
<1>1. status = "reading" /\ at < Len(d)
  BY DEF Unread
<1>2. d \in Seq(Byte) /\ Len(d) \in Nat /\ Len(d) < MaxLength /\ at \in Nat
  BY <1>1, TopIs, FrameIs
<1>3. skip(s).ok /\ at + skip(s).n <= Len(d) /\ Skip.to = at + skip(s).n
  BY DEF Readable, Skip
<1> HIDE DEF d, at
<1>4. Len(d) \in at .. Len(d)
  BY <1>1, <1>2
<1>5. s \in Seq(Byte) /\ Len(s) = Len(d) - at
  BY <1>2, <1>4, SliceIs
<1> HIDE DEF s
<1>6. Len(s) < MaxLength
  <2>1. MaxLength \in Nat
    BY Lengths
  <2> QED
    BY ONLY <1>1, <1>2, <1>5, <2>1
<1>7. skip(s).n \in Nat
  BY <1>3, <1>5, <1>6, SkipType
<1> QED
  BY <1>2, <1>3, <1>7 DEF d

\* The innermost call goes on.
LEMMA ContinueIs ==
  ASSUME CodecType, status = "reading", NEW v \in Values[Top.type], NEW to \in Nat, to <= Len(Top.data),
         Continue(v, to)
  PROVE  LET n == Len(frames) IN
         /\ Calls(frames') /\ Len(frames') = n
         /\ frames'[n] \in Frames
         /\ frames'[n].type = Top.type /\ frames'[n].value = v /\ frames'[n].data = Top.data
         /\ frames'[n].at = to /\ frames'[n].into = Top.into
         /\ \A k \in 1 .. n : k # n => frames'[k] = frames[k]
<1> DEFINE n == Len(frames)
           g == Moved(frames[n], v, to)
<1>1. n \in 1 .. Len(frames) /\ frames \in Seq(Frames) /\ Top \in Frames /\ Top = frames[n]
  BY TopIs
<1>2. frames' = [frames EXCEPT ![n] = g]
  <2>1. frames' = [frames EXCEPT ![n].value = v, ![n].at = to]
    BY DEF Continue
  <2> QED
    BY <1>1, <2>1 DEF Moved
<1>3. g \in Frames /\ g.type = Top.type /\ g.value = v /\ g.data = Top.data /\ g.at = to /\ g.into = Top.into
  <2>1. frames[n] \in Frames /\ v \in Values[frames[n].type] /\ to <= Len(frames[n].data)
    BY <1>1
  <2> QED
    BY <1>1, <2>1, FrameMoves
<1>4. Calls(frames)
  BY DEF CodecType
<1> HIDE DEF g
<1>5. g.type = frames[n].type /\ g.into = frames[n].into
  BY <1>1, <1>3
<1>6. /\ Calls(frames') /\ Len(frames') = Len(frames) /\ frames'[n] = g
      /\ \A j \in 1 .. Len(frames) : j # n => frames'[j] = frames[j]
  <2> DEFINE gs == [frames EXCEPT ![n] = g]
  <2>1. /\ Calls(gs) /\ Len(gs) = Len(frames) /\ gs[n] = g
        /\ \A j \in 1 .. Len(frames) : j # n => gs[j] = frames[j]
    BY <1>1, <1>3, <1>4, <1>5, CallsMove
  <2> QED
    BY <1>2, <2>1, Zenon
<1> QED
  BY <1>3, <1>6

\* A scalar is read.
LEMMA ReadScalarIs ==
  ASSUME CodecType, ReadScalar
  PROVE  \E v \in Values[Top.type], to \in Nat :
           /\ Known /\ ~IsMessage(Case) /\ to <= Len(Top.data) /\ Continue(v, to)
           /\ v = After(Case, Top.value, IF Case.kind = "number" THEN Amount.value
                                         ELSE Slice(Top.data, Bytes.from, Bytes.to))
           /\ to = IF Case.kind = "number" THEN Amount.next ELSE Bytes.to
<1> DEFINE x == IF Case.kind = "number" THEN Amount.value ELSE Slice(Top.data, Bytes.from, Bytes.to)
           to == IF Case.kind = "number" THEN Amount.next ELSE Bytes.to
           v == After(Case, Top.value, x)
<1>1. status = "reading" /\ Readable /\ Known /\ Case.kind \in {"text", "texts", "number"}
  BY DEF ReadScalar, Unread
<1>2. /\ Num \in DOMAIN Cases[Top.type] /\ Case = Cases[Top.type][Num]
      /\ Case.kind = "number" =>
           Amount.value \in 0 .. Word - 1 /\ Amount.next \in Nat /\ Amount.next <= Len(Top.data)
      /\ Case.kind # "number" =>
           /\ Bytes.to \in Nat /\ Bytes.to <= Len(Top.data)
           /\ Slice(Top.data, Bytes.from, Bytes.to) \in Seq(Byte)
  BY <1>1, KnownIs
<1>3. x \in PayloadSet(Case) /\ to \in Nat /\ to <= Len(Top.data) /\ ~IsMessage(Case)
  BY <1>1, <1>2 DEF PayloadSet, IsMessage
<1>4. Top.type \in DOMAIN Types /\ Top.value \in Values[Top.type]
  BY <1>1, TopIs, FrameIs
<1>5. v \in Values[Top.type]
  <2> HIDE DEF x
  <2> QED
    BY <1>2, <1>3, <1>4, AfterIs
<1>6. Continue(v, to)
  <2>1. CASE Case.kind = "text"
    <3>1. Continue([Top.value EXCEPT ![Case.name] = Slice(Top.data, Bytes.from, Bytes.to)], Bytes.to)
      BY <2>1 DEF ReadScalar
    <3> QED
      BY <2>1, <3>1 DEF After
  <2>2. CASE Case.kind = "texts"
    <3>1. Continue([Top.value EXCEPT ![Case.name] =
                      Append(Top.value[Case.name], Slice(Top.data, Bytes.from, Bytes.to))], Bytes.to)
      BY <2>2 DEF ReadScalar
    <3> QED
      BY <2>2, <3>1 DEF After
  <2>3. CASE Case.kind = "number"
    <3>1. Continue([Top.value EXCEPT ![Case.name] = Amount.value], Amount.next)
      BY <2>3 DEF ReadScalar
    <3> QED
      BY <2>3, <3>1 DEF After
  <2> QED
    BY <1>1, <2>1, <2>2, <2>3
<1> HIDE DEF v, x, to
<1> QED
  BY <1>1, <1>3, <1>5, <1>6 DEF v, x, to

\* An embedded message is read in a call of its own.
LEMMA ReadMessageIs ==
  ASSUME CodecType, ReadMessage
  PROVE  LET n == Len(frames)
             s == Slice(Top.data, Bytes.from, Bytes.to)
         IN
         /\ Known /\ IsMessage(Case) /\ Bytes.to \in Nat /\ Bytes.to <= Len(Top.data) /\ s \in Seq(Byte)
         /\ Calls(frames') /\ Len(frames') = n + 1
         /\ frames'[n + 1] = Frame(Case.type, Start(Case, Top.value), s, Case)
         /\ frames'[n].type = Top.type /\ frames'[n].value = Top.value /\ frames'[n].data = Top.data
         /\ frames'[n].at = Bytes.to /\ frames'[n].into = Top.into
         /\ \A k \in 1 .. n : k # n => frames'[k] = frames[k]
<1> DEFINE n == Len(frames)
           s == Slice(Top.data, Bytes.from, Bytes.to)
           f == [frames[n] EXCEPT !.at = Bytes.to]
           gs == [frames EXCEPT ![n] = f]
           g == Frame(Case.type, Start(Case, Top.value), s, Case)
<1>1. status = "reading" /\ Readable /\ Known /\ Case.kind \in {"message", "messages"}
  BY DEF ReadMessage, Unread
<1>2. IsMessage(Case)
  BY <1>1 DEF IsMessage
<1>3. /\ Num \in DOMAIN Cases[Top.type] /\ Case = Cases[Top.type][Num]
      /\ Bytes.to \in Nat /\ Bytes.to <= Len(Top.data) /\ s \in Seq(Byte) /\ Len(s) < MaxLength
  BY <1>1, KnownIs
<1>4. /\ n \in Nat \ {0} /\ n \in 1 .. Len(frames) /\ frames \in Seq(Frames)
      /\ Top \in Frames /\ Top = frames[n]
  BY <1>1, TopIs
<1>5. Top.type \in DOMAIN Types /\ Top.value \in Values[Top.type]
  BY <1>4, FrameIs
<1>6. frames' = Append(gs, g)
  <2>1. frames' = Append([frames EXCEPT ![n].at = Bytes.to], Frame(Case.type, Inner, s, Case))
    BY DEF ReadMessage
  <2>2. [frames EXCEPT ![n].at = Bytes.to] = gs
    BY <1>4
  <2>3. Inner = Start(Case, Top.value)
    BY DEF Inner, Start
  <2> QED
    BY <2>1, <2>2, <2>3
<1>7. /\ f \in Frames /\ f.type = Top.type /\ f.value = Top.value /\ f.data = Top.data
      /\ f.at = Bytes.to /\ f.into = Top.into
  BY <1>3, <1>4, FrameAt
<1>8. g \in Frames /\ g.type = Case.type /\ g.into = Case
  <2>1. /\ Case.type \in DOMAIN Types /\ Start(Case, Top.value) \in Values[Case.type] /\ Case \in Intos
    BY <1>2, <1>3, <1>5, StartIs
  <2>2. 0 \in Nat /\ 0 <= Len(s)
    BY <1>3, LenProperties
  <2> HIDE DEF s
  <2> QED
    BY <1>3, <2>1, <2>2, NewFrame DEF Frame
<1> HIDE DEF f, g, s
<1>9. /\ Calls(gs) /\ Len(gs) = n /\ gs[n] = f
      /\ \A j \in 1 .. Len(frames) : j # n => gs[j] = frames[j]
  <2>1. Calls(frames) /\ f.type = frames[n].type /\ f.into = frames[n].into
    BY <1>4, <1>7 DEF CodecType
  <2> QED
    BY <1>4, <1>7, <2>1, CallsMove
<1> HIDE DEF gs
<1>10. \E m : CalledFor(gs[Len(gs)], g, m)
  <2>1. CalledFor(f, g, Num)
    BY <1>2, <1>3, <1>7, <1>8 DEF CalledFor
  <2> QED
    BY <1>9, <2>1
<1>11. /\ Calls(frames') /\ Len(frames') = n + 1 /\ frames'[n + 1] = g
       /\ \A j \in 1 .. n : frames'[j] = gs[j]
  <2>1. Len(gs) > 0
    BY <1>4, <1>9
  <2> QED
    BY <1>6, <1>8, <1>9, <1>10, <2>1, CallsGrow
<1>12. frames'[n] = f /\ \A k \in 1 .. n : k # n => frames'[k] = frames[k]
  BY <1>4, <1>9, <1>11
<1> QED
  BY <1>1, <1>2, <1>3, <1>7, <1>11, <1>12 DEF g, s

\* A call returns into the one before it.
LEMMA ReturnIs ==
  ASSUME CodecType, Return, Len(frames) # 1
  PROVE  LET n == Len(frames) IN
         /\ n \in Nat /\ n > 1 /\ status' = status
         /\ Calls(frames') /\ Len(frames') = n - 1
         /\ frames'[n - 1].type = frames[n - 1].type
         /\ frames'[n - 1].value = After(Top.into, frames[n - 1].value, Top.value)
         /\ frames'[n - 1].data = frames[n - 1].data
         /\ frames'[n - 1].at = frames[n - 1].at /\ frames'[n - 1].into = frames[n - 1].into
         /\ \A k \in 1 .. n - 1 : k # n - 1 => frames'[k] = frames[k]
<1> DEFINE n == Len(frames)
           k == n - 1
<1>1. status = "reading"
  BY DEF Return
<1>2. n \in Nat /\ n > 1 /\ k \in 1 .. n - 1 /\ k + 1 = n /\ n \in 1 .. Len(frames)
  <2>1. n \in Nat \ {0} /\ n # 1
    BY <1>1, TopIs
  <2> HIDE DEF n
  <2>2. n \in Nat /\ n > 1 /\ k \in 1 .. n - 1 /\ k + 1 = n /\ n \in 1 .. n
    BY ONLY <2>1 DEF k
  <2> QED
    BY <2>2 DEF n
<1>3. frames \in Seq(Frames) /\ Top \in Frames /\ Top = frames[n] /\ Calls(frames)
  BY <1>1, TopIs DEF CodecType
<1> DEFINE c == Top.into
           outer == Front(frames)
           w == After(c, outer[k].value, Top.value)
           g == [outer[k] EXCEPT !.value = w]
<1>4. Calls(outer) /\ Len(outer) = k /\ \A j \in 1 .. n - 1 : outer[j] = frames[j]
  <2>1. Len(frames) > 0
    BY <1>2
  <2> QED
    BY <1>3, <2>1, CallsShrink
<1>5. PICK m : CalledFor(frames[k], Top, m)
  BY <1>2, <1>3 DEF Calls
<1>6. /\ m \in DOMAIN Cases[frames[k].type] /\ c = Cases[frames[k].type][m] /\ IsMessage(c)
      /\ Top.type = c.type
  BY <1>5 DEF CalledFor
<1>7. outer \in Seq(Frames) /\ k \in 1 .. Len(outer) /\ outer[k] = frames[k]
  BY <1>2, <1>4 DEF Calls
<1>8. frames' = [outer EXCEPT ![k] = g] /\ status' = status
  <2>1. /\ frames' = [outer EXCEPT ![Len(outer)].value[c.name] =
                        IF c.kind = "message" THEN Top.value ELSE Append(@, Top.value)]
        /\ status' = status
    BY DEF Return
  <2> HIDE DEF outer, c
  <2>2. [outer EXCEPT ![k].value[c.name] = IF c.kind = "message" THEN Top.value ELSE Append(@, Top.value)]
        = [outer EXCEPT ![k] = [outer[k] EXCEPT !.value = [outer[k].value EXCEPT ![c.name] =
             IF c.kind = "message" THEN Top.value ELSE Append(outer[k].value[c.name], Top.value)]]]
    BY <1>7
  <2>3. (IF c.kind = "message" THEN Top.value ELSE Append(outer[k].value[c.name], Top.value))
        = (IF c.kind \in {"texts", "messages"} THEN Append(outer[k].value[c.name], Top.value) ELSE Top.value)
    BY <1>6 DEF IsMessage
  <2> QED
    BY <1>4, <2>1, <2>2, <2>3 DEF After
<1>9. outer[k] \in Frames
  BY <1>7
<1>10. outer[k].type \in DOMAIN Types /\ outer[k].value \in Values[outer[k].type]
  BY <1>9, FrameIs
<1>11. Top.value \in Values[c.type]
  BY <1>3, <1>6, FrameIs
<1> HIDE DEF outer, c
<1>12. w \in Values[outer[k].type]
  BY <1>6, <1>7, <1>10, <1>11, AfterIs
<1> HIDE DEF w
<1>13. /\ g \in Frames /\ g.type = outer[k].type /\ g.value = w /\ g.data = outer[k].data
       /\ g.at = outer[k].at /\ g.into = outer[k].into
  BY <1>9, <1>12, FrameGets
<1> HIDE DEF g
<1>14. /\ Calls(frames') /\ Len(frames') = Len(outer) /\ frames'[k] = g
       /\ \A j \in 1 .. Len(outer) : j # k => frames'[j] = outer[j]
  <2> DEFINE gs == [outer EXCEPT ![k] = g]
  <2>1. /\ Calls(gs) /\ Len(gs) = Len(outer) /\ gs[k] = g
        /\ \A j \in 1 .. Len(outer) : j # k => gs[j] = outer[j]
    <3>1. g \in Frames /\ g.type = outer[k].type /\ g.into = outer[k].into
      BY <1>13
    <3>2. Calls(outer) /\ k \in 1 .. Len(outer)
      BY <1>4, <1>7
    <3> HIDE DEF k
    <3> QED
      BY <3>1, <3>2, CallsMove
  <2> QED
    BY <1>8, <2>1, Zenon
<1>15. \A j \in 1 .. n - 1 : j # n - 1 => frames'[j] = frames[j]
  BY <1>4, <1>14
<1> QED
  BY <1>2, <1>4, <1>7, <1>8, <1>13, <1>14, <1>15 DEF w, c

\* What others make of the bytes are bytes.
LEMMA ChangesIs ==
  ASSUME CodecType, AddUnknown \/ Repeat \/ Cut \/ Damage
  PROVE  \E kind \in {"unknown", "twice", "cut", "damaged"}, bytes \in Seq(Byte) : Changed(kind, bytes)
<1>1. data \in Seq(Byte) /\ Len(data) \in Nat
  BY LenProperties DEF CodecType
<1>2. CASE AddUnknown
  <2>1. PICK u \in UnknownFields : Changed("unknown", u \o data) \/ Changed("unknown", data \o u)
    BY <1>2 DEF AddUnknown
  <2>2. u \in Seq(Byte)
    BY CodecAssumption DEF IsUnknown
  <2>3. u \o data \in Seq(Byte) /\ data \o u \in Seq(Byte)
    BY <1>1, <2>2, ConcatProperties
  <2> QED
    BY <2>1, <2>3
<1>3. CASE Repeat
  <2>1. data \o data \in Seq(Byte)
    BY <1>1, ConcatProperties
  <2> QED
    BY <1>3, <2>1 DEF Repeat
<1>4. ASSUME NEW i \in Nat, NEW j \in Nat, 1 <= i, j <= Len(data)
      PROVE  SubSeq(data, i, j) \in Seq(Byte)
  <2>1. \A k \in i .. j : data[k] \in Byte
    BY <1>1, <1>4
  <2> QED
    BY <2>1, SubSeqProperties
<1>5. CASE Cut
  <2>1. PICK n \in 0 .. Len(data) - 1 : Changed("cut", SubSeq(data, 1, n))
    BY <1>5 DEF Cut
  <2>2. SubSeq(data, 1, n) \in Seq(Byte)
    BY <1>1, <1>4
  <2> QED
    BY <2>1, <2>2
<1>6. CASE Damage
  <2>1. PICK i \in DOMAIN data, b \in Damages :
          Changed("damaged", SubSeq(data, 1, i - 1) \o b \o SubSeq(data, i + 1, Len(data)))
    BY <1>6 DEF Damage
  <2>2. i \in 1 .. Len(data) /\ b \in Seq(Byte)
    BY <1>1, CodecAssumption
  <2>3. SubSeq(data, 1, i - 1) \in Seq(Byte)
    <3>1. i - 1 \in Nat /\ i - 1 <= Len(data)
      BY <1>1, <2>2
    <3> QED
      BY <1>4, <3>1
  <2>4. SubSeq(data, i + 1, Len(data)) \in Seq(Byte)
    <3>1. i + 1 \in Nat /\ 1 <= i + 1 /\ Len(data) <= Len(data)
      BY <1>1, <2>2
    <3> QED
      BY <1>1, <1>4, <3>1
  <2>5. SubSeq(data, 1, i - 1) \o b \in Seq(Byte)
    BY <2>2, <2>3, ConcatProperties
  <2>6. SubSeq(data, 1, i - 1) \o b \o SubSeq(data, i + 1, Len(data)) \in Seq(Byte)
    BY <2>4, <2>5, ConcatProperties
  <2> QED
    BY <2>1, <2>6
<1> QED
  BY <1>2, <1>3, <1>5, <1>6

\* The reader begins with one call.
LEMMA ReadIs ==
  ASSUME CodecType, Read
  PROVE  /\ Calls(frames') /\ Len(frames') = 1
         /\ frames'[1] = Frame(sent.type, Types[sent.type], data, Str("result"))
<1> DEFINE f == Frame(sent.type, Types[sent.type], data, Str("result"))
<1>1. frames' = <<f>>
  BY DEF Read
<1>2. sent.type \in DOMAIN Types /\ data \in Seq(Byte) /\ Len(data) < MaxLength /\ Len(data) \in Nat
  BY LenProperties DEF CodecType
<1>3. Types[sent.type] \in Values[sent.type]
  BY <1>2, Shapes DEF Shape
<1>4. Str("result") \in Intos
  BY DEF Intos
<1>5. f \in Frames
  <2>1. 0 \in Nat /\ 0 <= Len(data)
    BY <1>2
  <2> QED
    BY <1>2, <1>3, <1>4, <2>1, NewFrame DEF Frame
<1> HIDE DEF f
<1>6. <<f>> \in Seq(Frames) /\ Len(<<f>>) = 1 /\ <<f>>[1] = f
  BY <1>5
<1> QED
  BY <1>1, <1>6 DEF Calls, f

\* The type invariant, step by step.
LEMMA TypeInit == Init => CodecType
<1> SUFFICES ASSUME Init PROVE CodecType
  OBVIOUS
<1>1. /\ sent = [type |-> "QueryParamsRequest", value |-> Nothing]
      /\ data = <<>> /\ change = "none" /\ status = "writing" /\ frames = <<>>
  BY DEF Init
<1>2. sent.type \in DOMAIN Types /\ sent.value \in Values[sent.type]
  BY <1>1 DEF Types, Values
<1>3. data \in Seq(Byte) /\ Len(data) < MaxLength
  <2>1. <<>> \in Seq(Byte) /\ Len(<<>>) = 0
    BY EmptySeq
  <2> QED
    BY <1>1, <2>1, Lengths
<1>4. Calls(<<>>)
  <2>1. <<>> \in Seq(Frames) /\ Len(<<>>) = 0 /\ 1 .. 0 - 1 = {}
    BY EmptySeq
  <2> QED
    BY <2>1 DEF Calls
<1> QED
  BY <1>1, <1>2, <1>3, <1>4 DEF CodecType

\* Every step keeps the types.
LEMMA TypeNext == CodecType /\ [Next]_vars => CodecType'
<1> SUFFICES ASSUME CodecType, [Next]_vars PROVE CodecType'
  OBVIOUS
<1> USE DEF CodecType
<1>1. CASE Write
  <2>1. status = "writing" /\ Writes
    BY <1>1, WriteIs
  <2>2. PICK T \in DOMAIN Types : \E m \in Values[T] : Written(T, m, Marshal(T, m), SizeOf(T, m))
    BY <2>1 DEF Writes
  <2>3. PICK m \in Values[T] : Written(T, m, Marshal(T, m), SizeOf(T, m))
    BY <2>2
  <2>4. /\ sent' = [type |-> T, value |-> m] /\ status' = "sent" /\ data' = Marshal(T, m)
        /\ Len(Marshal(T, m)) < MaxLength /\ Marshal(T, m) \in Seq(Byte)
        /\ UNCHANGED <<change, frames>>
    BY <2>3, WrittenIs
  <2> QED
    BY <2>1, <2>4
<1>2. CASE AddUnknown \/ Repeat \/ Cut \/ Damage
  <2>1. PICK kind \in {"unknown", "twice", "cut", "damaged"}, bytes \in Seq(Byte) : Changed(kind, bytes)
    BY <1>2, ChangesIs
  <2>2. /\ status = "sent" /\ Len(bytes) < MaxLength /\ change' = kind /\ data' = bytes
        /\ UNCHANGED <<sent, status, frames>>
    BY <2>1 DEF Changed
  <2> QED
    BY <2>1, <2>2
<1>3. CASE Read
  <2>1. Calls(frames') /\ Len(frames') = 1
    BY <1>3, ReadIs
  <2>2. status' = "reading" /\ UNCHANGED <<sent, data, change>>
    BY <1>3 DEF Read
  <2> QED
    BY <2>1, <2>2
<1>4. CASE ReadScalar
  <2>1. PICK v \in Values[Top.type], to \in Nat : to <= Len(Top.data) /\ Continue(v, to)
    BY <1>4, ReadScalarIs
  <2>2. status = "reading" /\ UNCHANGED <<sent, data, change, status>>
    BY <1>4 DEF ReadScalar, Unread
  <2>3. Calls(frames') /\ Len(frames') = Len(frames)
    BY <2>1, <2>2, ContinueIs
  <2> QED
    BY <2>2, <2>3
<1>5. CASE ReadMessage
  <2>1. Calls(frames') /\ Len(frames') = Len(frames) + 1
    BY <1>5, ReadMessageIs
  <2>2. status = "reading" /\ UNCHANGED <<sent, data, change, status>>
    BY <1>5 DEF ReadMessage, Unread
  <2>3. Len(frames) \in Nat
    BY <2>2, TopIs
  <2> QED
    BY <2>1, <2>2, <2>3
<1>6. CASE SkipField
  <2>1. /\ Unread /\ Readable /\ ~Known /\ Continue(Top.value, Skip.to)
        /\ status = "reading" /\ UNCHANGED <<sent, data, change, status>>
    BY <1>6 DEF SkipField, Unread
  <2>2. Skip.to \in Nat /\ Skip.to <= Len(Top.data)
    BY <2>1, SkippedIs
  <2>3. Top.value \in Values[Top.type]
    BY <2>1, TopIs, FrameIs
  <2>4. Calls(frames') /\ Len(frames') = Len(frames)
    BY <2>1, <2>2, <2>3, ContinueIs
  <2> QED
    BY <2>1, <2>4
<1>7. CASE Refuse
  BY <1>7 DEF Refuse
<1>8. CASE Return
  <2>1. status = "reading" /\ UNCHANGED <<sent, data, change>>
    BY <1>8 DEF Return
  <2>2. CASE Len(frames) = 1
    <3>1. status' = "read" /\ UNCHANGED frames
      BY <1>8, <2>2 DEF Return
    <3> QED
      BY <2>1, <2>2, <3>1
  <2>3. CASE Len(frames) # 1
    <3>1. /\ Len(frames) \in Nat /\ Len(frames) > 1 /\ status' = status
          /\ Calls(frames') /\ Len(frames') = Len(frames) - 1
      BY <1>8, <2>3, ReturnIs
    <3> QED
      BY <2>1, <3>1
  <2> QED
    BY <2>2, <2>3
<1>9. CASE UNCHANGED vars
  BY <1>9 DEF vars
<1> QED
  BY <1>1, <1>2, <1>3, <1>4, <1>5, <1>6, <1>7, <1>8, <1>9 DEF Next, Reader

\* The types of the state: every call of Unmarshal has a value of its type, was
\* made for a field of the one around it, and no buffer of Marshal is too small.
THEOREM CodecTypes == Spec => []CodecType
<1> QED
  BY TypeInit, TypeNext, PTL DEF Spec

\* No reader leaves its bytes, whatever they are and whatever was damaged: the sums
\* of an index and a length are compared with zero and with the end.
THEOREM StaysInBounds == Spec => []InBounds
<1>1. CodecType => InBounds
  <2> SUFFICES ASSUME CodecType, NEW k \in DOMAIN frames
               PROVE  frames[k].at \in 0 .. Len(frames[k].data)
    BY DEF InBounds
  <2>1. frames \in Seq(Frames)
    BY DEF CodecType, Calls
  <2>2. frames[k] \in Frames
    BY <2>1
  <2> QED
    BY <2>2, FrameIs
<1> QED
  BY <1>1, CodecTypes, PTL

-----------------------------------------------------------------------------
(* The innermost call, one field at a time.                                 *)

\* The bytes a call has still to read.
Rest(f) == Slice(f.data, f.at, Len(f.data))

\* A piece that comes next is read by its case, unless some of it was lost.
LEMMA PieceAtTop ==
  ASSUME CodecType, Unread, NEW n \in DOMAIN Cases[Top.type], NEW p,
         p \in PayloadSet(Cases[Top.type][n]) \/ (IsMessage(Cases[Top.type][n]) /\ p \in Seq(Byte)),
         NEW l, NEW r, IsNext(Top.data, Top.at, l, Piece(Top.type, n, p), r)
  PROVE  /\ Known /\ Case = Cases[Top.type][n]
         /\ Readable \/ l # <<>>
         /\ Readable /\ Case.kind = "number" =>
              Amount.value = p /\ Slice(Top.data, Amount.next, Len(Top.data)) \o l = r
         /\ Readable /\ Case.kind # "number" =>
              /\ Slice(Top.data, Bytes.from, Bytes.to) = p
              /\ Slice(Top.data, Bytes.to, Len(Top.data)) \o l = r
<1> DEFINE T == Top.type
           d == Top.data
           at == Top.at
           c == Cases[T][n]
           q == Piece(T, n, p)
           end == at + Len(q)
           fits == end <= Len(d)
<1>1. /\ T \in DOMAIN Types /\ n \in DOMAIN Cases[T] /\ IsNext(d, at, l, q, r)
      /\ p \in PayloadSet(c) \/ (IsMessage(c) /\ p \in Seq(Byte))
  BY TopIs, FrameIs DEF Unread
<1> HIDE DEF T, d, at
<1>2. /\ Varint(d, at) = [ok |-> TRUE, value |-> 8 * n + c.wire, next |-> at + 1]
      /\ FieldNum(8 * n + c.wire) = n /\ n > 0 /\ WireType(8 * n + c.wire) = c.wire /\ c.wire # 4
      /\ c.kind = "number" =>
           /\ fits => Varint(d, at + 1) = [ok |-> TRUE, value |-> p, next |-> end]
           /\ ~fits => ~Varint(d, at + 1).ok
      /\ c.kind # "number" =>
           /\ fits =>
                /\ Payload(d, at + 1).ok /\ Payload(d, at + 1).to = end
                /\ Slice(d, Payload(d, at + 1).from, Payload(d, at + 1).to) = p
           /\ ~fits => ~Payload(d, at + 1).ok
  <2>1. PieceSeen(T, n, p, d, at)
    BY <1>1, PieceRead
  <2> HIDE DEF c, q
  <2> QED
    BY <2>1 DEF PieceSeen, c, q
<1>3. fits => Slice(d, end, Len(d)) \o l = r
  BY <1>1, NextIs, Zenon
<1>4. l = <<>> => fits
  <2> SUFFICES ASSUME l = <<>> PROVE fits
    OBVIOUS
  <2>1. Len(d) + Len(l) = end + Len(r)
    BY <1>1, Seen
  <2>2. Len(l) = 0
    BY EmptySeq
  <2>3. Len(r) \in Nat
    BY <1>1, LenProperties DEF IsNext
  <2>4. Len(d) \in Nat /\ end \in Nat
    <3>1. at \in Nat /\ Len(d) \in Nat /\ Len(q) \in Nat
      BY <1>1, NextIs
    <3> HIDE DEF q
    <3> QED
      BY <3>1
  <2> HIDE DEF end
  <2> QED
    BY ONLY <2>1, <2>2, <2>3, <2>4 DEF fits
<1> HIDE DEF fits, end
<1>5. Tag = [ok |-> TRUE, value |-> 8 * n + c.wire, next |-> at + 1]
  BY <1>2 DEF Tag, d, at
<1>6. Num = n /\ Known /\ Case = c
  BY <1>1, <1>2, <1>5 DEF Num, Known, Case, T
<1>7. Tag.ok /\ WireType(Tag.value) # 4 /\ Num > 0 /\ WireType(Tag.value) = Case.wire
  BY <1>2, <1>5, <1>6
<1>8. Readable <=> IF Case.kind = "number" THEN Amount.ok ELSE Bytes.ok
  BY <1>6, <1>7, Zenon DEF Readable
<1>9. Amount = Varint(d, at + 1) /\ Bytes = Payload(d, at + 1)
  BY <1>5 DEF Amount, Bytes, d
<1> HIDE DEF c, q
<1>10. Readable <=> fits
  BY <1>2, <1>6, <1>8, <1>9
<1>11. ASSUME Readable, c.kind = "number"
       PROVE  Amount.value = p /\ Slice(d, Amount.next, Len(d)) \o l = r
  <2>1. Amount.value = p /\ Amount.next = end
    BY <1>2, <1>9, <1>10, <1>11
  <2> QED
    BY <1>3, <1>10, <1>11, <2>1, Zenon
<1>12. ASSUME Readable, c.kind # "number"
       PROVE  Slice(d, Bytes.from, Bytes.to) = p /\ Slice(d, Bytes.to, Len(d)) \o l = r
  <2>1. Slice(d, Bytes.from, Bytes.to) = p /\ Bytes.to = end
    BY <1>2, <1>9, <1>10, <1>12, Zenon
  <2> QED
    BY <1>3, <1>10, <1>12, <2>1, Zenon
<1>13. Readable \/ l # <<>>
  BY <1>4, <1>10
<1> QED
  BY <1>6, <1>11, <1>12, <1>13, Zenon DEF d, c, T

\* A field that no type has is passed over.
LEMMA UnknownAtTop ==
  ASSUME CodecType, Unread, NEW u, IsUnknown(u), NEW r, IsNext(Top.data, Top.at, <<>>, u, r)
  PROVE  ~Known /\ Readable /\ Slice(Top.data, Skip.to, Len(Top.data)) \o <<>> = r
<1> DEFINE d == Top.data
           at == Top.at
<1>1. /\ Varint(d, at).ok /\ WireType(Varint(d, at).value) # 4 /\ FieldNum(Varint(d, at).value) > 0
      /\ \A type \in DOMAIN Cases : FieldNum(Varint(d, at).value) \notin DOMAIN Cases[type]
      /\ skip(Slice(d, at, Len(d))) = [ok |-> TRUE, n |-> Len(u)]
      /\ Len(u) \in Nat \ {0} /\ Signed(at + Len(u), WordBits) >= 0 /\ at + Len(u) <= Len(d)
  <2>1. IsNext(d, at, <<>>, u, r)
    OBVIOUS
  <2> HIDE DEF d, at
  <2> QED
    BY <2>1, UnknownRead
<1>2. Top.type \in DOMAIN Cases
  <2>1. Top.type \in DOMAIN Types
    BY TopIs, FrameIs DEF Unread
  <2> QED
    BY <2>1 DEF Types, Cases
<1>3. ~Known
  BY <1>1, <1>2 DEF Known, Num, Tag
<1>4. Skip.ok /\ Skip.to = at + Len(u)
  <2> DEFINE s == skip(Slice(d, at, Len(d)))
  <2>1. s.ok /\ s.n = Len(u)
    BY <1>1
  <2>2. Skip = [ok |-> s.ok /\ Signed(at + s.n, WordBits) >= 0 /\ at + s.n <= Len(d), to |-> at + s.n]
    BY DEF Skip
  <2> HIDE DEF s
  <2> QED
    BY <1>1, <2>1, <2>2
<1>5. Readable
  BY <1>1, <1>3, <1>4 DEF Readable, Num, Tag
<1>6. at + Len(u) <= Len(d) => Slice(d, at + Len(u), Len(d)) \o <<>> = r
  <2>1. IsNext(d, at, <<>>, u, r)
    OBVIOUS
  <2> HIDE DEF d, at
  <2> QED
    BY <2>1, NextIs, Zenon
<1> QED
  BY <1>1, <1>3, <1>4, <1>5, <1>6, Zenon

-----------------------------------------------------------------------------
(* What the calls under way have still to read.                             *)

\* The value call k goes on from when the calls it made have returned, and
\* the bytes that were lost at its end: only the outermost lost any.
Ends(fs, ws, k) == IF k = Len(fs) THEN fs[k].value ELSE After(fs[k + 1].into, fs[k].value, ws[k + 1])

LostOf(lost, k) == IF k = 1 THEN lost ELSE <<>>

\* A call that goes on from value e and reads what is left, and what was lost,
\* makes w of it.
Awaits(G, U, f, l, e, w) ==
  Len(f.data) + Len(l) < MaxLength /\ Runs(G, U, f.type, e, Rest(f) \o l, w)

AllAwait(G, U, fs, ws, lost) ==
  \A k \in 1 .. Len(fs) : Awaits(G, U, fs[k], LostOf(lost, k), Ends(fs, ws, k), ws[k])

\* What the runs are about, and what may be lost.
Lossy(G, U, lost) ==
  /\ Setting(G, U) /\ lost \in Seq(Byte)
  /\ \A u \in U : IsUnknown(u) /\ lost = <<>>

\* The bytes that are left are bytes.
LEMMA RestIs ==
  ASSUME NEW f \in Frames
  PROVE  /\ Rest(f) \in Seq(Byte) /\ Len(Rest(f)) = Len(f.data) - f.at
         /\ f.at = Len(f.data) => Rest(f) = <<>>
<1> DEFINE d == f.data
           at == f.at
<1>1. d \in Seq(Byte) /\ at \in Nat /\ Len(d) \in Nat /\ at <= Len(d)
  BY FrameIs
<1> HIDE DEF d, at
<1>2. Len(d) \in at .. Len(d)
  BY <1>1
<1>3. Slice(d, at, Len(d)) \in Seq(Byte) /\ Len(Slice(d, at, Len(d))) = Len(d) - at
  BY <1>1, <1>2, SliceIs
<1>4. at = Len(d) => Slice(d, at, Len(d)) = <<>>
  <2> SUFFICES ASSUME at = Len(d) PROVE Slice(d, at, Len(d)) = <<>>
    OBVIOUS
  <2>1. Len(Slice(d, at, Len(d))) = 0
    BY <1>1, <1>3
  <2> QED
    BY <1>3, <2>1, EmptySeq
<1> QED
  BY <1>3, <1>4 DEF Rest, d, at

\* What the next field of the innermost call is, and what is left after it.
ScalarNext(G, U, l, w) ==
  LET x  == IF Case.kind = "number" THEN Amount.value ELSE Slice(Top.data, Bytes.from, Bytes.to)
      to == IF Case.kind = "number" THEN Amount.next ELSE Bytes.to
  IN  Runs(G, U, Top.type, After(Case, Top.value, x), Slice(Top.data, to, Len(Top.data)) \o l, w)

MessageNext(G, U, l, w) ==
  \E w1 : /\ Runs(G, U, Case.type, Start(Case, Top.value), Slice(Top.data, Bytes.from, Bytes.to), w1)
          /\ Runs(G, U, Top.type, After(Case, Top.value, w1),
                  Slice(Top.data, Bytes.to, Len(Top.data)) \o l, w)

UnknownNext(G, U, l, w) ==
  Runs(G, U, Top.type, Top.value, Slice(Top.data, Skip.to, Len(Top.data)) \o l, w)

\* What the innermost call reads next is what it awaits, or else bytes were lost.
LEMMA NextAtTop ==
  ASSUME CodecType, Unread, NEW G, NEW U, NEW l, Lossy(G, U, l), NEW w,
         Awaits(G, U, Top, l, Top.value, w)
  PROVE  /\ Readable \/ l # <<>>
         /\ Readable /\ Known /\ ~IsMessage(Case) => ScalarNext(G, U, l, w)
         /\ Readable /\ Known /\ IsMessage(Case) => MessageNext(G, U, l, w)
         /\ Readable /\ ~Known => UnknownNext(G, U, l, w)
<1> DEFINE T == Top.type
           v == Top.value
           d == Top.data
           at == Top.at
           r == Rest(Top) \o l
<1>1. Top \in Frames
  BY TopIs DEF Unread
<1>2. d \in Seq(Byte) /\ at \in Nat /\ at < Len(d) /\ Len(d) + Len(l) < MaxLength /\ l \in Seq(Byte)
  BY <1>1, FrameIs DEF Unread, Awaits, Lossy
<1>3. Setting(G, U) /\ Runs(G, U, T, v, r, w)
  BY DEF Awaits, Lossy
<1>4. GoesOn(G, U, T, v, r, w)
  <2> HIDE DEF T, v, r
  <2> QED
    BY <1>3, RunsGoOn
<1>5. r # <<>>
  <2>1. Rest(Top) \in Seq(Byte) /\ Len(Rest(Top)) = Len(d) - at
    BY <1>1, RestIs
  <2>2. Len(r) = Len(Rest(Top)) + Len(l)
    BY <1>2, <2>1, ConcatProperties
  <2>3. Len(d) \in Nat /\ Len(l) \in Nat
    BY <1>2, LenProperties
  <2> HIDE DEF d, at, r
  <2>4. Len(r) # 0
    BY <1>2, <2>1, <2>2, <2>3
  <2> QED
    BY <2>4, EmptySeq
<1>6. ASSUME NEW q \in Seq(Byte), NEW r1 \in Seq(Byte), r = q \o r1
      PROVE  IsNext(d, at, l, q, r1)
  BY <1>2, <1>6 DEF IsNext, Rest
<1>7. CASE ReadsScalar(G, U, T, v, r, w)
  <2>1. PICK n \in DOMAIN Cases[T] : \E p \in PayloadSet(Cases[T][n]) : \E r1 \in Seq(Byte) :
          /\ ~IsMessage(Cases[T][n])
          /\ r = Piece(T, n, p) \o r1
          /\ Runs(G, U, T, After(Cases[T][n], v, p), r1, w)
    BY <1>7, Zenon DEF ReadsScalar
  <2>2. PICK p \in PayloadSet(Cases[T][n]) : \E r1 \in Seq(Byte) :
          /\ ~IsMessage(Cases[T][n])
          /\ r = Piece(T, n, p) \o r1
          /\ Runs(G, U, T, After(Cases[T][n], v, p), r1, w)
    BY <2>1, Zenon
  <2>3. PICK r1 \in Seq(Byte) :
          /\ ~IsMessage(Cases[T][n])
          /\ r = Piece(T, n, p) \o r1
          /\ Runs(G, U, T, After(Cases[T][n], v, p), r1, w)
    BY <2>2, Zenon
  <2>4. T \in DOMAIN Types
    BY <1>1, FrameIs
  <2>5. Piece(T, n, p) \in Seq(Byte)
    BY <2>4, PieceType, Zenon
  <2>6. IsNext(d, at, l, Piece(T, n, p), r1)
    BY <1>6, <2>3, <2>5, Zenon
  <2>7. /\ Known /\ Case = Cases[T][n]
        /\ Readable \/ l # <<>>
        /\ Readable /\ Case.kind = "number" => Amount.value = p /\ Slice(d, Amount.next, Len(d)) \o l = r1
        /\ Readable /\ Case.kind # "number" =>
             Slice(d, Bytes.from, Bytes.to) = p /\ Slice(d, Bytes.to, Len(d)) \o l = r1
    BY <2>6, PieceAtTop, Zenon
  <2>8. ~IsMessage(Case)
    BY <2>3, <2>7, Zenon
  <2>9. ASSUME Readable
        PROVE  ScalarNext(G, U, l, w)
    <3> DEFINE x == IF Case.kind = "number" THEN Amount.value ELSE Slice(d, Bytes.from, Bytes.to)
               to == IF Case.kind = "number" THEN Amount.next ELSE Bytes.to
    <3>1. x = p
      BY <2>7, <2>9
    <3>2. Slice(d, to, Len(d)) \o l = r1
      BY <2>7, <2>9, Zenon
    <3>3. Runs(G, U, T, After(Case, v, x), Slice(d, to, Len(d)) \o l, w)
      BY <2>3, <2>7, <3>1, <3>2, Zenon
    <3> QED
      BY <3>3, Zenon DEF ScalarNext
  <2> QED
    BY <2>7, <2>8, <2>9, Zenon
<1>8. CASE ReadsMessage(G, U, T, v, r, w)
  <2>1. PICK n \in DOMAIN Cases[T] : \E p \in Seq(Byte) : \E w1 : \E r1 \in Seq(Byte) :
          /\ IsMessage(Cases[T][n])
          /\ r = Piece(T, n, p) \o r1
          /\ Runs(G, U, Cases[T][n].type, Start(Cases[T][n], v), p, w1)
          /\ Runs(G, U, T, After(Cases[T][n], v, w1), r1, w)
    BY <1>8, Zenon DEF ReadsMessage
  <2>2. PICK p \in Seq(Byte) : \E w1 : \E r1 \in Seq(Byte) :
          /\ IsMessage(Cases[T][n])
          /\ r = Piece(T, n, p) \o r1
          /\ Runs(G, U, Cases[T][n].type, Start(Cases[T][n], v), p, w1)
          /\ Runs(G, U, T, After(Cases[T][n], v, w1), r1, w)
    BY <2>1, Zenon
  <2>3. PICK w1 : \E r1 \in Seq(Byte) :
          /\ IsMessage(Cases[T][n])
          /\ r = Piece(T, n, p) \o r1
          /\ Runs(G, U, Cases[T][n].type, Start(Cases[T][n], v), p, w1)
          /\ Runs(G, U, T, After(Cases[T][n], v, w1), r1, w)
    BY <2>2, Zenon
  <2>4. PICK r1 \in Seq(Byte) :
          /\ IsMessage(Cases[T][n])
          /\ r = Piece(T, n, p) \o r1
          /\ Runs(G, U, Cases[T][n].type, Start(Cases[T][n], v), p, w1)
          /\ Runs(G, U, T, After(Cases[T][n], v, w1), r1, w)
    BY <2>3, Zenon
  <2>5. T \in DOMAIN Types
    BY <1>1, FrameIs
  <2>6. Piece(T, n, p) \in Seq(Byte)
    BY <2>5, <2>4, PieceType, Zenon
  <2>7. IsNext(d, at, l, Piece(T, n, p), r1)
    BY <1>6, <2>4, <2>6, Zenon
  <2>8. /\ Known /\ Case = Cases[T][n]
        /\ Readable \/ l # <<>>
        /\ Readable /\ Case.kind # "number" =>
             Slice(d, Bytes.from, Bytes.to) = p /\ Slice(d, Bytes.to, Len(d)) \o l = r1
    BY <2>7, <2>4, PieceAtTop, Zenon
  <2>9. IsMessage(Case) /\ Case.kind # "number"
    BY <2>4, <2>8 DEF IsMessage
  <2>10. ASSUME Readable
        PROVE  MessageNext(G, U, l, w)
    <3>1. Slice(d, Bytes.from, Bytes.to) = p /\ Slice(d, Bytes.to, Len(d)) \o l = r1
      BY <2>8, <2>9, <2>10, Zenon
    <3>2. /\ Runs(G, U, Case.type, Start(Case, v), Slice(d, Bytes.from, Bytes.to), w1)
          /\ Runs(G, U, T, After(Case, v, w1), Slice(d, Bytes.to, Len(d)) \o l, w)
      BY <2>4, <2>8, <3>1, Zenon
    <3> QED
      BY <3>2, Zenon DEF MessageNext
  <2> QED
    BY <2>8, <2>9, <2>10, Zenon
<1>9. CASE SkipsField(G, U, T, v, r, w)
  <2>1. PICK u \in U : \E r1 \in Seq(Byte) : r = u \o r1 /\ Runs(G, U, T, v, r1, w)
    BY <1>9, Zenon DEF SkipsField
  <2>2. PICK r1 \in Seq(Byte) : r = u \o r1 /\ Runs(G, U, T, v, r1, w)
    BY <2>1, Zenon
  <2>3. IsUnknown(u) /\ l = <<>>
    BY DEF Lossy
  <2>4. u \in Seq(Byte)
    BY <2>3 DEF IsUnknown
  <2>5. IsNext(d, at, l, u, r1)
    BY <1>6, <2>2, <2>4, Zenon
  <2>6. IsNext(d, at, <<>>, u, r1)
    BY <2>3, <2>5, Zenon
  <2>7. ~Known /\ Readable /\ Slice(d, Skip.to, Len(d)) \o <<>> = r1
    BY <2>3, <2>6, UnknownAtTop, Zenon
  <2>8. Slice(d, Skip.to, Len(d)) \o l = r1
    BY <2>3, <2>7, Zenon
  <2>9. UnknownNext(G, U, l, w)
    BY <2>2, <2>8, Zenon DEF UnknownNext
  <2> QED
    BY <2>7, <2>9
<1>10. ~EndsHere(v, r, w)
  BY <1>5 DEF EndsHere
<1> HIDE DEF T, v, d, at, r
<1> QED
  BY <1>4, <1>7, <1>8, <1>9, <1>10 DEF GoesOn

\* A call at the end of its bytes, of which none were lost, has made its value.
LEMMA EndAtTop ==
  ASSUME NEW G, NEW U, Lossy(G, U, <<>>), NEW f \in Frames, f.at = Len(f.data), NEW w,
         Awaits(G, U, f, <<>>, f.value, w)
  PROVE  w = f.value
<1> DEFINE T == f.type
           v == f.value
<1>1. Rest(f) = <<>> /\ <<>> \in Seq(Byte) /\ <<>> \o <<>> = <<>>
  BY RestIs, EmptySeq, ConcatEmptySeq
<1>2. Runs(G, U, T, v, <<>>, w) /\ Setting(G, U)
  BY <1>1, Zenon DEF Awaits, Lossy
<1>3. GoesOn(G, U, T, v, <<>>, w)
  <2> HIDE DEF T, v
  <2> QED
    BY <1>2, RunsGoOn
<1>4. ASSUME NEW q \in Seq(Byte), NEW r \in Seq(Byte), Len(q) # 0
      PROVE  <<>> # q \o r
  <2>1. Len(q \o r) = Len(q) + Len(r) /\ Len(q) \in Nat /\ Len(r) \in Nat
    BY ConcatProperties, LenProperties
  <2>2. Len(<<>>) = 0
    BY EmptySeq
  <2>3. Len(q \o r) # 0
    BY <1>4, <2>1
  <2> QED
    BY <2>2, <2>3
<1>5. T \in DOMAIN Types
  BY FrameIs
<1> HIDE DEF T, v
<1>6. ASSUME NEW n \in DOMAIN Cases[T], NEW p, NEW r \in Seq(Byte),
             p \in PayloadSet(Cases[T][n]) \/ (IsMessage(Cases[T][n]) /\ p \in Seq(Byte))
      PROVE  <<>> # Piece(T, n, p) \o r
  <2>1. Piece(T, n, p) \in Seq(Byte) /\ Len(Piece(T, n, p)) \in Nat \ {0}
    BY <1>5, <1>6, PieceType
  <2> QED
    BY <1>4, <2>1
<1>7. ~ReadsScalar(G, U, T, v, <<>>, w)
  BY <1>6, Zenon DEF ReadsScalar
<1>8. ~ReadsMessage(G, U, T, v, <<>>, w)
  BY <1>6, Zenon DEF ReadsMessage
<1>9. ASSUME NEW u \in U
      PROVE  u \in Seq(Byte) /\ Len(u) # 0
  <2>1. u \in Seq(Byte) /\ Varint(u, 0).ok
    BY DEF Lossy, IsUnknown
  <2>2. Varint(u, 0).next \in 1 .. Len(u)
    BY <2>1, VarintType
  <2>3. Len(u) \in Nat
    BY <2>1, LenProperties
  <2> QED
    BY <2>1, <2>2, <2>3
<1>10. ~SkipsField(G, U, T, v, <<>>, w)
  BY <1>4, <1>9, Zenon DEF SkipsField
<1> QED
  BY <1>3, <1>7, <1>8, <1>10 DEF GoesOn, EndsHere, v

\* The calls below the innermost stay as they are.
LEMMA AwaitTop ==
  ASSUME NEW G, NEW U, NEW lost, NEW ws, NEW fs, NEW gs, AllAwait(G, U, fs, ws, lost),
         Len(fs) \in Nat, Len(gs) \in Nat, Len(gs) <= Len(fs), Len(gs) > 0,
         \A k \in 1 .. Len(gs) : k # Len(gs) => gs[k] = fs[k],
         gs[Len(gs)].into = fs[Len(gs)].into,
         Awaits(G, U, gs[Len(gs)], LostOf(lost, Len(gs)), gs[Len(gs)].value, ws[Len(gs)])
  PROVE  AllAwait(G, U, gs, ws, lost)
<1> SUFFICES ASSUME NEW k \in 1 .. Len(gs)
             PROVE  Awaits(G, U, gs[k], LostOf(lost, k), Ends(gs, ws, k), ws[k])
  BY DEF AllAwait
<1>1. CASE k = Len(gs)
  BY <1>1 DEF Ends
<1>2. CASE k # Len(gs)
  <2>1. /\ k + 1 \in 1 .. Len(gs) /\ k \in 1 .. Len(fs) /\ k # Len(fs)
    BY <1>2
  <2>2. gs[k] = fs[k] /\ gs[k + 1].into = fs[k + 1].into
    BY <1>2, <2>1
  <2>3. Ends(gs, ws, k) = Ends(fs, ws, k)
    BY <1>2, <2>1, <2>2 DEF Ends
  <2>4. Awaits(G, U, fs[k], LostOf(lost, k), Ends(fs, ws, k), ws[k])
    BY <2>1 DEF AllAwait
  <2> QED
    BY <2>2, <2>3, <2>4, Zenon
<1> QED
  BY <1>1, <1>2

\* One more call.
LEMMA AwaitMore ==
  ASSUME NEW G, NEW U, NEW lost, NEW ws, NEW fs, NEW gs, AllAwait(G, U, fs, ws, lost),
         Len(fs) \in Nat, Len(fs) > 0, Len(gs) = Len(fs) + 1,
         \A k \in 1 .. Len(fs) : k # Len(fs) => gs[k] = fs[k],
         gs[Len(fs)].into = fs[Len(fs)].into, NEW w1,
         Awaits(G, U, gs[Len(fs)], LostOf(lost, Len(fs)),
                After(gs[Len(fs) + 1].into, gs[Len(fs)].value, w1), ws[Len(fs)]),
         Awaits(G, U, gs[Len(fs) + 1], <<>>, gs[Len(fs) + 1].value, w1)
  PROVE  LET xs == [k \in 1 .. Len(fs) + 1 |-> IF k = Len(fs) + 1 THEN w1 ELSE ws[k]]
         IN  xs[1] = ws[1] /\ AllAwait(G, U, gs, xs, lost)
<1> DEFINE n == Len(fs)
           xs == [k \in 1 .. n + 1 |-> IF k = n + 1 THEN w1 ELSE ws[k]]
<1>1. xs[n + 1] = w1 /\ \A k \in 1 .. n : xs[k] = ws[k]
  OBVIOUS
<1>2. 1 \in 1 .. n
  OBVIOUS
<1> HIDE DEF xs
<1>3. ASSUME NEW k \in 1 .. Len(gs)
      PROVE  Awaits(G, U, gs[k], LostOf(lost, k), Ends(gs, xs, k), xs[k])
  <2>1. CASE k = n + 1
    <3>1. LostOf(lost, k) = <<>> /\ Ends(gs, xs, k) = gs[n + 1].value /\ xs[k] = w1
      BY <1>1, <2>1 DEF LostOf, Ends
    <3> QED
      BY <2>1, <3>1, Zenon
  <2>2. CASE k = n
    <3>1. Ends(gs, xs, k) = After(gs[n + 1].into, gs[n].value, w1) /\ xs[k] = ws[n]
      BY <1>1, <2>2 DEF Ends
    <3> QED
      BY <2>2, <3>1, Zenon
  <2>3. CASE k < n
    <3>1. k \in 1 .. n /\ k # n /\ k + 1 \in 1 .. n /\ k # Len(gs)
      BY <2>3
    <3>2. gs[k] = fs[k] /\ gs[k + 1].into = fs[k + 1].into /\ xs[k] = ws[k] /\ xs[k + 1] = ws[k + 1]
      BY <1>1, <3>1
    <3>3. Ends(gs, xs, k) = Ends(fs, ws, k)
      BY <3>1, <3>2 DEF Ends
    <3>4. Awaits(G, U, fs[k], LostOf(lost, k), Ends(fs, ws, k), ws[k])
      BY <3>1 DEF AllAwait
    <3> QED
      BY <3>2, <3>3, <3>4, Zenon
  <2> QED
    BY <2>1, <2>2, <2>3
<1> QED
  BY <1>1, <1>2, <1>3 DEF AllAwait, xs

\* The innermost call is the one that reads.
LEMMA TopAwaits ==
  ASSUME CodecType, status = "reading", NEW G, NEW U, NEW lost, Lossy(G, U, lost),
         NEW ws, AllAwait(G, U, frames, ws, lost)
  PROVE  LET l == LostOf(lost, Len(frames)) IN
         Lossy(G, U, l) /\ Awaits(G, U, Top, l, Top.value, ws[Len(frames)])
<1>1. Len(frames) \in 1 .. Len(frames) /\ Top = frames[Len(frames)]
  BY TopIs
<1>2. Ends(frames, ws, Len(frames)) = Top.value
  BY <1>1 DEF Ends
<1>3. Awaits(G, U, Top, LostOf(lost, Len(frames)), Top.value, ws[Len(frames)])
  BY <1>1, <1>2, Zenon DEF AllAwait
<1>4. Lossy(G, U, LostOf(lost, Len(frames)))
  BY EmptySeq DEF Lossy, LostOf
<1> QED
  BY <1>3, <1>4

\* A string or number is read: each call awaits what is left.
LEMMA ScalarAwaits ==
  ASSUME CodecType, ReadScalar, NEW G, NEW U, NEW lost, Lossy(G, U, lost),
         NEW ws, AllAwait(G, U, frames, ws, lost)
  PROVE  AllAwait(G, U, frames', ws, lost) /\ frames'[1].type = frames[1].type
<1> DEFINE n == Len(frames)
           l == LostOf(lost, n)
           x == IF Case.kind = "number" THEN Amount.value ELSE Slice(Top.data, Bytes.from, Bytes.to)
<1>1. Unread /\ status = "reading" /\ Readable
  BY DEF ReadScalar, Unread
<1>2. PICK v \in Values[Top.type], to \in Nat :
        /\ Known /\ ~IsMessage(Case) /\ to <= Len(Top.data) /\ Continue(v, to)
        /\ v = After(Case, Top.value, x)
        /\ to = IF Case.kind = "number" THEN Amount.next ELSE Bytes.to
  BY ReadScalarIs
<1>3. Lossy(G, U, l) /\ Awaits(G, U, Top, l, Top.value, ws[n])
  BY <1>1, TopAwaits
<1> HIDE DEF l
<1>4. ScalarNext(G, U, l, ws[n])
  BY <1>1, <1>2, <1>3, NextAtTop, Zenon
<1>5. Runs(G, U, Top.type, v, Slice(Top.data, to, Len(Top.data)) \o l, ws[n])
  BY <1>2, <1>4, Zenon DEF ScalarNext
<1>6. /\ Len(frames') = n /\ frames'[n].type = Top.type /\ frames'[n].value = v
      /\ frames'[n].data = Top.data /\ frames'[n].at = to /\ frames'[n].into = Top.into
      /\ \A k \in 1 .. n : k # n => frames'[k] = frames[k]
  BY <1>1, <1>2, ContinueIs
<1>7. Rest(frames'[n]) = Slice(Top.data, to, Len(Top.data))
  BY <1>6 DEF Rest
<1>8. Awaits(G, U, frames'[n], l, frames'[n].value, ws[n])
  BY <1>3, <1>5, <1>6, <1>7, Zenon DEF Awaits
<1>9. n \in Nat \ {0} /\ Top = frames[n]
  BY <1>1, TopIs
<1>10. AllAwait(G, U, frames', ws, lost)
  <2>1. Len(frames') \in Nat /\ Len(frames') <= n /\ Len(frames') > 0 /\ n \in Nat
    BY <1>6, <1>9
  <2>2. Awaits(G, U, frames'[Len(frames')], LostOf(lost, Len(frames')), frames'[Len(frames')].value,
               ws[Len(frames')])
    BY <1>6, <1>8, Zenon DEF l
  <2>3. /\ frames'[Len(frames')].into = frames[Len(frames')].into
        /\ \A k \in 1 .. Len(frames') : k # Len(frames') => frames'[k] = frames[k]
    BY <1>6, <1>9
  <2> QED
    BY <2>1, <2>2, <2>3, AwaitTop
<1>11. frames'[1].type = frames[1].type
  BY <1>6, <1>9
<1> QED
  BY <1>10, <1>11

\* An unknown field is passed over: nothing else changes.
LEMMA SkipAwaits ==
  ASSUME CodecType, SkipField, NEW G, NEW U, NEW lost, Lossy(G, U, lost),
         NEW ws, AllAwait(G, U, frames, ws, lost)
  PROVE  AllAwait(G, U, frames', ws, lost) /\ frames'[1].type = frames[1].type
<1> DEFINE n == Len(frames)
           l == LostOf(lost, n)
           v == Top.value
           to == Skip.to
<1>1. Unread /\ status = "reading" /\ Readable /\ ~Known /\ Continue(v, to)
  BY DEF SkipField, Unread
<1>2. v \in Values[Top.type] /\ to \in Nat /\ to <= Len(Top.data)
  BY <1>1, SkippedIs, TopIs, FrameIs
<1>3. Lossy(G, U, l) /\ Awaits(G, U, Top, l, v, ws[n])
  BY <1>1, TopAwaits
<1> HIDE DEF l
<1>4. UnknownNext(G, U, l, ws[n])
  BY <1>1, <1>3, NextAtTop, Zenon
<1>5. Runs(G, U, Top.type, v, Slice(Top.data, to, Len(Top.data)) \o l, ws[n])
  BY <1>4, Zenon DEF UnknownNext
<1> HIDE DEF v, to
<1>6. /\ Len(frames') = n /\ frames'[n].type = Top.type /\ frames'[n].value = v
      /\ frames'[n].data = Top.data /\ frames'[n].at = to /\ frames'[n].into = Top.into
      /\ \A k \in 1 .. n : k # n => frames'[k] = frames[k]
  BY <1>1, <1>2, ContinueIs
<1>7. Rest(frames'[n]) = Slice(Top.data, to, Len(Top.data))
  BY <1>6 DEF Rest
<1>8. Awaits(G, U, frames'[n], l, frames'[n].value, ws[n])
  BY <1>3, <1>5, <1>6, <1>7, Zenon DEF Awaits
<1>9. n \in Nat \ {0} /\ Top = frames[n]
  BY <1>1, TopIs
<1>10. AllAwait(G, U, frames', ws, lost)
  <2>1. Len(frames') \in Nat /\ Len(frames') <= n /\ Len(frames') > 0 /\ n \in Nat
    BY <1>6, <1>9
  <2>2. Awaits(G, U, frames'[Len(frames')], LostOf(lost, Len(frames')), frames'[Len(frames')].value,
               ws[Len(frames')])
    BY <1>6, <1>8, Zenon DEF l
  <2>3. /\ frames'[Len(frames')].into = frames[Len(frames')].into
        /\ \A k \in 1 .. Len(frames') : k # Len(frames') => frames'[k] = frames[k]
    BY <1>6, <1>9
  <2> QED
    BY <2>1, <2>2, <2>3, AwaitTop
<1>11. frames'[1].type = frames[1].type
  BY <1>6, <1>9
<1> QED
  BY <1>10, <1>11

\* A new call awaits the bytes of an embedded message, and the calls around it
\* await the value it will have made.
LEMMA MessageAwaits ==
  ASSUME CodecType, ReadMessage, NEW G, NEW U, NEW lost, Lossy(G, U, lost),
         NEW ws, AllAwait(G, U, frames, ws, lost)
  PROVE  \E xs : /\ xs[1] = ws[1] /\ AllAwait(G, U, frames', xs, lost)
                 /\ frames'[1].type = frames[1].type
<1> DEFINE n == Len(frames)
           l == LostOf(lost, n)
           s == Slice(Top.data, Bytes.from, Bytes.to)
<1>1. Unread /\ status = "reading" /\ Readable
  BY DEF ReadMessage, Unread
<1>2. /\ Known /\ IsMessage(Case) /\ s \in Seq(Byte)
      /\ Calls(frames') /\ Len(frames') = n + 1
      /\ frames'[n + 1] = Frame(Case.type, Start(Case, Top.value), s, Case)
      /\ frames'[n].type = Top.type /\ frames'[n].value = Top.value /\ frames'[n].data = Top.data
      /\ frames'[n].at = Bytes.to /\ frames'[n].into = Top.into
      /\ \A k \in 1 .. n : k # n => frames'[k] = frames[k]
  BY ReadMessageIs
<1>3. Lossy(G, U, l) /\ Awaits(G, U, Top, l, Top.value, ws[n])
  BY <1>1, TopAwaits
<1> HIDE DEF l
<1>4. MessageNext(G, U, l, ws[n])
  BY <1>1, <1>2, <1>3, NextAtTop, Zenon
<1>5. PICK w1 : /\ Runs(G, U, Case.type, Start(Case, Top.value), s, w1)
                /\ Runs(G, U, Top.type, After(Case, Top.value, w1),
                        Slice(Top.data, Bytes.to, Len(Top.data)) \o l, ws[n])
  BY <1>4, Zenon DEF MessageNext
<1>6. n \in Nat \ {0} /\ Top = frames[n]
  BY <1>1, TopIs
<1> HIDE DEF s
<1>7. /\ frames'[n + 1].type = Case.type /\ frames'[n + 1].value = Start(Case, Top.value)
      /\ frames'[n + 1].data = s /\ frames'[n + 1].at = 0 /\ frames'[n + 1].into = Case
  BY <1>2 DEF Frame
<1>8. Awaits(G, U, frames'[n], l, After(frames'[n + 1].into, frames'[n].value, w1), ws[n])
  <2>1. Rest(frames'[n]) = Slice(Top.data, Bytes.to, Len(Top.data))
    BY <1>2 DEF Rest
  <2> QED
    BY <1>2, <1>3, <1>5, <1>7, <2>1, Zenon DEF Awaits
<1>9. Awaits(G, U, frames'[n + 1], <<>>, frames'[n + 1].value, w1)
  <2>1. frames' \in Seq(Frames) /\ n + 1 \in 1 .. Len(frames')
    BY <1>2, <1>6 DEF Calls
  <2>2. frames'[n + 1] \in Frames
    BY <2>1
  <2>3. Len(s) < MaxLength /\ Len(s) \in Nat
    BY <1>7, <2>2, FrameIs
  <2>4. Len(s) + Len(<<>>) < MaxLength
    BY <2>3, EmptySeq
  <2>5. Rest(frames'[n + 1]) \o <<>> = s
    <3>1. Rest(frames'[n + 1]) = Slice(s, 0, Len(s))
      BY <1>7 DEF Rest
    <3>2. Slice(s, 0, Len(s)) = s
      BY <1>2, <2>3, SubSeqFull DEF Slice
    <3>3. s \o <<>> = s
      BY <1>2, ConcatEmptySeq
    <3> QED
      BY <3>1, <3>2, <3>3, Zenon
  <2> QED
    BY <1>5, <1>7, <2>4, <2>5, Zenon DEF Awaits
<1>10. LET xs == [k \in 1 .. n + 1 |-> IF k = n + 1 THEN w1 ELSE ws[k]]
       IN  xs[1] = ws[1] /\ AllAwait(G, U, frames', xs, lost)
  <2>1. /\ n \in Nat /\ n > 0 /\ frames'[n].into = frames[n].into
    BY <1>2, <1>6
  <2>2. Awaits(G, U, frames'[n], LostOf(lost, n), After(frames'[n + 1].into, frames'[n].value, w1), ws[n])
    BY <1>8 DEF l
  <2> QED
    BY <1>2, <1>9, <2>1, <2>2, AwaitMore
<1>11. frames'[1].type = frames[1].type
  BY <1>2, <1>6
<1> QED
  BY <1>10, <1>11, Zenon

\* A call that returns has made the value that the one around it awaits.
LEMMA ReturnAwaits ==
  ASSUME CodecType, Return, Len(frames) # 1, NEW G, NEW U, NEW lost, Lossy(G, U, lost),
         NEW ws, AllAwait(G, U, frames, ws, lost)
  PROVE  AllAwait(G, U, frames', ws, lost) /\ frames'[1].type = frames[1].type
<1> DEFINE n == Len(frames)
           m == n - 1
<1>1. status = "reading" /\ Top.at = Len(Top.data)
  BY DEF Return
<1>2. /\ n \in Nat /\ n > 1
      /\ Calls(frames') /\ Len(frames') = n - 1
      /\ frames'[n - 1].type = frames[n - 1].type
      /\ frames'[n - 1].value = After(Top.into, frames[n - 1].value, Top.value)
      /\ frames'[n - 1].data = frames[n - 1].data
      /\ frames'[n - 1].at = frames[n - 1].at /\ frames'[n - 1].into = frames[n - 1].into
      /\ \A k \in 1 .. n - 1 : k # n - 1 => frames'[k] = frames[k]
  BY ReturnIs
<1>3. m \in 1 .. n /\ m # n /\ m + 1 = n /\ m \in Nat /\ m > 0 /\ m <= n /\ LostOf(lost, n) = <<>>
  BY <1>2 DEF LostOf
<1>4. Lossy(G, U, <<>>) /\ Awaits(G, U, Top, <<>>, Top.value, ws[n])
  BY <1>1, <1>3, TopAwaits
<1>5. ws[n] = Top.value /\ Top = frames[n]
  BY <1>1, <1>4, TopIs, EndAtTop
<1>6. Awaits(G, U, frames[m], LostOf(lost, m), After(Top.into, frames[m].value, Top.value), ws[m])
  <2>1. Ends(frames, ws, m) = After(Top.into, frames[m].value, Top.value)
    BY <1>3, <1>5 DEF Ends
  <2> QED
    BY <1>3, <2>1, Zenon DEF AllAwait
<1>7. Awaits(G, U, frames'[m], LostOf(lost, m), frames'[m].value, ws[m])
  <2>1. Rest(frames'[m]) = Rest(frames[m])
    BY <1>2 DEF Rest
  <2> QED
    BY <1>2, <1>6, <2>1, Zenon DEF Awaits
<1>8. AllAwait(G, U, frames', ws, lost)
  <2>1. Len(frames') = m /\ n \in Nat
    BY <1>2
  <2>2. \A k \in 1 .. m : k # m => frames'[k] = frames[k]
    BY <1>2
  <2>3. frames'[m].into = frames[m].into
    BY <1>2
  <2> HIDE DEF m
  <2> QED
    BY <1>3, <1>7, <2>1, <2>2, <2>3, AwaitTop
<1>9. frames'[1].type = frames[1].type
  BY <1>2, <1>3
<1> QED
  BY <1>8, <1>9

\* What is refused lost something; what is read at last is what was to be read,
\* or lost something.
LEMMA RefuseAwaits ==
  ASSUME CodecType, Refuse, NEW G, NEW U, NEW lost, Lossy(G, U, lost),
         NEW ws, AllAwait(G, U, frames, ws, lost)
  PROVE  lost # <<>>
<1> DEFINE l == LostOf(lost, Len(frames))
<1>1. status = "reading"
  BY DEF Refuse
<1>2. Top.at <= Len(Top.data) /\ Top.at \in Nat /\ Len(Top.data) \in Nat
  BY <1>1, TopIs, FrameIs
<1>3. Unread /\ ~Readable
  BY <1>2 DEF Refuse
<1>4. Lossy(G, U, l) /\ Awaits(G, U, Top, l, Top.value, ws[Len(frames)])
  BY <1>1, TopAwaits
<1> HIDE DEF l
<1>5. l # <<>>
  BY <1>3, <1>4, NextAtTop, Zenon
<1> QED
  BY <1>5 DEF l, LostOf

\* The outermost call has made the message.
LEMMA ReadAwaits ==
  ASSUME CodecType, Return, Len(frames) = 1, NEW G, NEW U, NEW lost, Lossy(G, U, lost),
         NEW ws, AllAwait(G, U, frames, ws, lost)
  PROVE  Result \in G[frames[1].type] /\ (lost = <<>> => Result = ws[1])
<1>1. status = "reading" /\ Top.at = Len(Top.data)
  BY DEF Return
<1>2. Top = frames[1] /\ Top \in Frames /\ LostOf(lost, 1) = lost /\ Result = Top.value
  BY <1>1, TopIs DEF LostOf, Result
<1>3. Awaits(G, U, Top, lost, Top.value, ws[1])
  BY <1>1, <1>2, TopAwaits
<1>4. Result \in G[frames[1].type]
  <2>1. Runs(G, U, Top.type, Top.value, Rest(Top) \o lost, ws[1]) /\ Setting(G, U)
    BY <1>3 DEF Awaits, Lossy
  <2> QED
    BY <1>2, <2>1, RunsType, Zenon
<1>5. ASSUME lost = <<>>
      PROVE  Result = ws[1]
  <2>1. Lossy(G, U, <<>>) /\ Awaits(G, U, Top, <<>>, Top.value, ws[1])
    BY <1>3, <1>5, Zenon
  <2> QED
    BY <1>1, <1>2, <2>1, EndAtTop
<1> QED
  BY <1>4, <1>5

-----------------------------------------------------------------------------
(* What is read of a message, whatever happened to its bytes.               *)

\* The values on the way when the bytes of w are read into a new message.
OnTheWay(T, w) == [Values EXCEPT ![T] = Mids(T, Types[T], w)]

\* The readings that the invariant speaks of: any values on the way, with and
\* without unknown fields, or only what was read of w.
LEMMA SettingIs ==
  ASSUME NEW T \in DOMAIN Types, NEW w
  PROVE  /\ Setting(Values, {}) /\ Setting(Values, UnknownFields) /\ Setting(OnTheWay(T, w), {})
         /\ OnTheWay(T, w)[T] = Mids(T, Types[T], w)
         /\ \A S \in DOMAIN Types : Level(S) < Level(T) => OnTheWay(T, w)[S] = Values[S]
<1>1. DOMAIN Values = DOMAIN Types
  BY DEF Values, Types
<1>2. /\ OnTheWay(T, w)[T] = Mids(T, Types[T], w)
      /\ \A S \in DOMAIN Types : S # T => OnTheWay(T, w)[S] = Values[S]
  BY <1>1, Zenon DEF OnTheWay
<1>3. Mids(T, Types[T], w) \subseteq Values[T]
  BY DEF Mids
<1>4. Setting(OnTheWay(T, w), {})
  BY <1>2, <1>3 DEF Setting
<1>5. UnknownFields \subseteq Seq(Byte)
  <2>1. \A u \in UnknownFields : u \in Seq(Byte)
    BY CodecAssumption, Zenon DEF IsUnknown
  <2> QED
    BY <2>1
<1>6. \A S \in DOMAIN Types : Level(S) < Level(T) => S # T
  BY DEF Level
<1> QED
  BY <1>2, <1>4, <1>5, <1>6, Zenon DEF Setting

\* A message is read from its own bytes; on the way to what was sent it is part
\* of it.
LEMMA WrittenRuns ==
  ASSUME NEW T \in DOMAIN Types, NEW w \in Values[T]
  PROVE  /\ Marshal(T, w) \in Seq(Byte)
         /\ Runs(Values, {}, T, Types[T], Marshal(T, w), w)
         /\ Runs(Values, UnknownFields, T, Types[T], Marshal(T, w), w)
         /\ Runs(OnTheWay(T, w), {}, T, Types[T], Marshal(T, w), w)
         /\ Runs(Values, {}, T, w, Marshal(T, w), SetAll(T, w, w))
<1>1. Marshal(T, w) \in Seq(Byte)
  BY Marshals DEF Marshalled, Agrees
<1>2. Types[T] \in Values[T]
  BY Shapes DEF Shape
<1>3. SetAll(T, Types[T], w) = w
  BY AllZero DEF SetsZero
<1>4. ASSUME NEW G, NEW U, Setting(G, U), \A S \in DOMAIN Types : Level(S) < Level(T) => G[S] = Values[S],
             NEW v \in Values[T], Mids(T, v, w) \subseteq G[T]
      PROVE  Runs(G, U, T, v, Marshal(T, w), SetAll(T, v, w))
  BY <1>4, AllRead, Zenon DEF ReadsAll
<1>5. \A v : Mids(T, v, w) \subseteq Values[T]
  BY DEF Mids
<1> DEFINE z == Types[T]
<1>6. Runs(Values, {}, T, z, Marshal(T, w), SetAll(T, z, w))
  <2> HIDE DEF z
  <2> QED
    BY <1>2, <1>4, <1>5, SettingIs DEF z
<1>7. Runs(Values, UnknownFields, T, z, Marshal(T, w), SetAll(T, z, w))
  <2> HIDE DEF z
  <2> QED
    BY <1>2, <1>4, <1>5, SettingIs DEF z
<1>8. Runs(OnTheWay(T, w), {}, T, z, Marshal(T, w), SetAll(T, z, w))
  <2>1. Mids(T, z, w) \subseteq OnTheWay(T, w)[T]
    BY SettingIs
  <2> HIDE DEF z
  <2> QED
    BY <1>2, <1>4, <2>1, SettingIs DEF z
<1>9. Runs(Values, {}, T, w, Marshal(T, w), SetAll(T, w, w))
  BY <1>4, <1>5, SettingIs
<1> QED
  BY <1>1, <1>3, <1>6, <1>7, <1>8, <1>9, Zenon

\* It is read from its bytes with an unknown field before or after them.
LEMMA UnknownRuns ==
  ASSUME NEW T \in DOMAIN Types, NEW w \in Values[T], NEW u \in UnknownFields,
         NEW b, b = u \o Marshal(T, w) \/ b = Marshal(T, w) \o u
  PROVE  Runs(Values, UnknownFields, T, Types[T], b, w)
<1>1. u \in Seq(Byte) /\ Setting(Values, UnknownFields)
  BY CodecAssumption, SettingIs DEF IsUnknown
<1>2. Runs(Values, UnknownFields, T, Types[T], Marshal(T, w), w)
  BY WrittenRuns
<1>3. Types[T] \in Values[T]
  BY Shapes DEF Shape
<1>4. Runs(Values, UnknownFields, T, Types[T], u \o Marshal(T, w), w)
  BY <1>2, <1>3, RunsUnknown
<1>5. Runs(Values, UnknownFields, T, w, u \o <<>>, w)
  BY RunsEmpty, RunsUnknown
<1>6. u \o <<>> = u
  BY <1>1, ConcatEmptySeq
<1>7. Runs(Values, UnknownFields, T, w, u, w)
  BY <1>5, <1>6, Zenon
<1>8. Runs(Values, UnknownFields, T, Types[T], Marshal(T, w) \o u, w)
  BY <1>1, <1>2, <1>7, RunsJoin, Zenon
<1> QED
  BY <1>4, <1>8, Zenon

\* And from its bytes written twice it is read with every field merged.
LEMMA TwiceRuns ==
  ASSUME NEW T \in DOMAIN Types, NEW w \in Values[T]
  PROVE  Runs(Values, {}, T, Types[T], Marshal(T, w) \o Marshal(T, w), SetAll(T, w, w))
BY SettingIs, WrittenRuns, RunsJoin, Zenon

\* Bytes that lost their end are those that are left and those that were lost.
LEMMA CutIs ==
  ASSUME NEW d \in Seq(Byte), NEW n \in 0 .. Len(d) - 1
  PROVE  LET lost == SubSeq(d, n + 1, Len(d)) IN
         lost \in Seq(Byte) /\ SubSeq(d, 1, n) \o lost = d
         /\ Len(SubSeq(d, 1, n)) + Len(lost) = Len(d)
<1> DEFINE lost == SubSeq(d, n + 1, Len(d))
           left == SubSeq(d, 1, n)
<1>1. Len(d) \in Nat /\ n \in Nat /\ n \in 0 .. Len(d) /\ Len(d) \in n .. Len(d)
  BY LenProperties
<1>2. Slice(d, n, Len(d)) \in Seq(Byte) /\ Len(Slice(d, n, Len(d))) = Len(d) - n
      /\ \A x \in 1 .. Len(d) - n : Slice(d, n, Len(d))[x] = d[n + x]
  BY <1>1, SliceIs
<1>3. Slice(d, 0, n) \in Seq(Byte) /\ Len(Slice(d, 0, n)) = n - 0
      /\ \A x \in 1 .. n - 0 : Slice(d, 0, n)[x] = d[0 + x]
  BY <1>1, SliceIs
<1>4. lost = Slice(d, n, Len(d)) /\ left = Slice(d, 0, n) /\ n - 0 = n /\ \A x \in Nat : 0 + x = x
  BY <1>1 DEF Slice
<1>5. /\ lost \in Seq(Byte) /\ Len(lost) = Len(d) - n /\ \A x \in 1 .. Len(d) - n : lost[x] = d[n + x]
      /\ left \in Seq(Byte) /\ Len(left) = n /\ \A x \in 1 .. n : left[x] = d[x]
  BY <1>2, <1>3, <1>4
<1> HIDE DEF lost, left
<1>6. /\ left \o lost \in Seq(Byte) /\ Len(left \o lost) = Len(left) + Len(lost)
      /\ \A x \in 1 .. Len(left) : (left \o lost)[x] = left[x]
      /\ \A x \in 1 .. Len(lost) : (left \o lost)[Len(left) + x] = lost[x]
  BY <1>5, TwoParts
<1>7. Len(left \o lost) = Len(d)
  BY <1>1, <1>5, <1>6
<1>8. ASSUME NEW x \in 1 .. Len(d)
      PROVE  (left \o lost)[x] = d[x]
  <2>1. CASE x <= n
    <3>1. x \in 1 .. n /\ x \in 1 .. Len(left)
      BY <1>1, <1>5, <2>1
    <3> QED
      BY <1>5, <1>6, <3>1
  <2>2. CASE ~(x <= n)
    <3> DEFINE y == x - n
    <3>1. y \in 1 .. Len(d) - n /\ y \in 1 .. Len(lost) /\ n + y = x
      BY <1>1, <1>5, <2>2
    <3> HIDE DEF y
    <3>2. (left \o lost)[n + y] = lost[y]
      BY <1>5, <1>6, <3>1
    <3>3. lost[y] = d[n + y]
      BY <1>5, <3>1
    <3> QED
      BY <3>1, <3>2, <3>3
  <2> QED
    BY <2>1, <2>2
<1>9. left \o lost = d
  BY <1>6, <1>7, <1>8, SeqEqual
<1>10. Len(left) + Len(lost) = Len(d)
  BY <1>1, <1>5
<1> QED
  BY <1>5, <1>9, <1>10 DEF lost, left

\* The values on the way, the fields passed over and the value read at last,
\* by what happened to the bytes.
Between == IF change = "cut" THEN OnTheWay(sent.type, sent.value) ELSE Values
Passed  == IF change = "unknown" THEN UnknownFields ELSE {}
Goal    == IF change = "twice" THEN SetAll(sent.type, sent.value, sent.value) ELSE sent.value

\* How far the message is read, if these bytes were lost.
AsRead(lost) ==
  /\ lost \in Seq(Byte) /\ (lost # <<>> => change = "cut")
  /\ status = "sent" =>
       /\ Len(data) + Len(lost) < MaxLength
       /\ Runs(Between, Passed, sent.type, Types[sent.type], data \o lost, Goal)
  /\ status = "reading" =>
       /\ frames[1].type = sent.type
       /\ \E ws : ws[1] = Goal /\ AllAwait(Between, Passed, frames, ws, lost)
  /\ status = "read" => Result \in Between[sent.type] /\ (lost = <<>> => Result = Goal)
  /\ status = "refused" => lost # <<>>

\* The bytes on their way are those of the message, or what the change made of
\* them; unless a byte was damaged the message is read as far as it got.
CodecInv ==
  /\ CodecType
  /\ status = "writing" => change = "none"
  /\ status = "sent" /\ change = "none" => data = Marshal(sent.type, sent.value)
  /\ change # "damaged" /\ status # "writing" => \E lost : AsRead(lost)

\* Where bytes were lost they were lost by a cut.
LEMMA LossyIs ==
  ASSUME CodecType, NEW lost \in Seq(Byte), lost # <<>> => change = "cut"
  PROVE  Lossy(Between, Passed, lost)
<1>1. sent.type \in DOMAIN Types
  BY DEF CodecType
<1> DEFINE T == sent.type
           w == sent.value
<1>2. Setting(Values, {}) /\ Setting(Values, UnknownFields) /\ Setting(OnTheWay(T, w), {})
  <2> HIDE DEF T, w
  <2> QED
    BY <1>1, SettingIs DEF T
<1>3. Setting(Between, Passed)
  BY <1>2, Zenon DEF Between, Passed
<1>4. ASSUME NEW u \in Passed
      PROVE  IsUnknown(u) /\ lost = <<>>
  <2>1. change = "unknown" /\ u \in UnknownFields
    BY <1>4, Zenon DEF Passed
  <2> QED
    BY <2>1, CodecAssumption, Zenon
<1> QED
  BY <1>3, <1>4, Zenon DEF Lossy

\* The invariant holds before anything is written.
LEMMA CodecInit == Init => CodecInv
<1>1. Init => status = "writing" /\ change = "none"
  BY DEF Init
<1> QED
  BY <1>1, TypeInit DEF CodecInv

\* What was written can be read.
LEMMA WriteKeeps ==
  ASSUME CodecInv, CodecType', Write
  PROVE  CodecInv'
<1>1. status = "writing" /\ Writes /\ change = "none"
  BY WriteIs DEF CodecInv
<1>2. PICK T \in DOMAIN Types : \E m \in Values[T] : Written(T, m, Marshal(T, m), SizeOf(T, m))
  BY <1>1 DEF Writes
<1>3. PICK m \in Values[T] : Written(T, m, Marshal(T, m), SizeOf(T, m))
  BY <1>2
<1>4. /\ sent' = [type |-> T, value |-> m] /\ status' = "sent" /\ data' = Marshal(T, m)
      /\ Len(Marshal(T, m)) < MaxLength /\ Marshal(T, m) \in Seq(Byte) /\ change' = "none"
  BY <1>1, <1>3, WrittenIs
<1>5. sent'.type = T /\ sent'.value = m
  BY <1>4
<1>6. Runs(Values, {}, T, Types[T], Marshal(T, m), m)
  BY WrittenRuns
<1>7. Between' = Values /\ Passed' = {} /\ Goal' = m
  BY <1>4, <1>5 DEF Between, Passed, Goal
<1>8. data' \o <<>> = Marshal(T, m) /\ Len(data') + Len(<<>>) < MaxLength /\ <<>> \in Seq(Byte)
  <2>1. Len(Marshal(T, m)) \in Nat
    BY <1>4, LenProperties
  <2>2. Len(Marshal(T, m)) + Len(<<>>) < MaxLength
    BY <1>4, <2>1, EmptySeq
  <2> QED
    BY <1>4, <2>2, ConcatEmptySeq, EmptySeq, Zenon
<1>9. AsRead(<<>>)'
  <2>1. Runs(Between, Passed, sent.type, Types[sent.type], data \o <<>>, Goal)'
    BY <1>5, <1>6, <1>7, <1>8, Zenon
  <2> QED
    BY <1>4, <1>8, <2>1 DEF AsRead
<1> QED
  BY <1>4, <1>5, <1>9 DEF CodecInv

\* So can what others made of it, unless a byte was damaged.
LEMMA ChangeKeeps ==
  ASSUME CodecInv, CodecType', AddUnknown \/ Repeat \/ Cut \/ Damage
  PROVE  CodecInv'
<1> DEFINE T == sent.type
           w == sent.value
           b == Marshal(T, w)
<1>1. PICK kind \in {"unknown", "twice", "cut", "damaged"}, bytes \in Seq(Byte) : Changed(kind, bytes)
  BY ChangesIs DEF CodecInv
<1>2. status = "sent" /\ change = "none" /\ status' = "sent" /\ sent' = sent /\ change' # "none"
  BY <1>1 DEF Changed
<1>3. data = b /\ T \in DOMAIN Types /\ w \in Values[T] /\ b \in Seq(Byte) /\ Len(data) < MaxLength
  <2>1. T \in DOMAIN Types /\ w \in Values[T] /\ data = b /\ Len(data) < MaxLength
    BY <1>2 DEF CodecInv, CodecType
  <2> HIDE DEF T, w
  <2> QED
    BY <2>1, WrittenRuns
<1>4. SUFFICES ASSUME change' # "damaged"
               PROVE  \E lost : AsRead(lost)'
  BY <1>2 DEF CodecInv
<1>5. ASSUME NEW lost \in Seq(Byte), lost # <<>> => change' = "cut",
             Len(data') + Len(lost) < MaxLength,
             Runs(Between', Passed', T, Types[T], data' \o lost, Goal')
      PROVE  AsRead(lost)'
  BY <1>2, <1>5 DEF AsRead
<1>6. ASSUME NEW kind2, NEW d, Changed(kind2, d)
      PROVE  change' = kind2 /\ data' = d /\ Len(d) < MaxLength
  BY <1>6 DEF Changed
<1>7. ASSUME data' \in Seq(Byte)
      PROVE  <<>> \in Seq(Byte) /\ data' \o <<>> = data' /\ Len(data') + Len(<<>>) = Len(data')
  <2>1. Len(data') \in Nat /\ Len(<<>>) = 0
    BY <1>7, LenProperties, EmptySeq
  <2> QED
    BY <1>7, <2>1, EmptySeq, ConcatEmptySeq
<1>8. data' \in Seq(Byte) /\ Len(data') < MaxLength
  BY DEF CodecType
<1>9. CASE AddUnknown
  <2>1. PICK u \in UnknownFields : Changed("unknown", u \o data) \/ Changed("unknown", data \o u)
    BY <1>9 DEF AddUnknown
  <2>2. change' = "unknown" /\ (data' = u \o b \/ data' = b \o u)
    BY <1>3, <1>6, <2>1
  <2>3. Between' = Values /\ Passed' = UnknownFields /\ Goal' = w
    BY <1>2, <2>2 DEF Between, Passed, Goal
  <2>4. Runs(Values, UnknownFields, T, Types[T], data', w)
    <3> HIDE DEF T, w
    <3> QED
      BY <1>3, <2>2, UnknownRuns DEF b
  <2> HIDE DEF T, w, b
  <2>5. Runs(Between', Passed', T, Types[T], data' \o <<>>, Goal')
    BY <1>7, <1>8, <2>3, <2>4, Zenon
  <2>6. AsRead(<<>>)'
    BY <1>5, <1>7, <1>8, <2>5, Zenon
  <2> QED
    BY <2>6
<1>10. CASE Repeat
  <2>1. change' = "twice" /\ data' = b \o b
    BY <1>3, <1>6, <1>10 DEF Repeat
  <2>2. Between' = Values /\ Passed' = {} /\ Goal' = SetAll(T, w, w)
    BY <1>2, <2>1 DEF Between, Passed, Goal
  <2>3. Runs(Values, {}, T, Types[T], data', SetAll(T, w, w))
    <3> HIDE DEF T, w
    <3> QED
      BY <1>3, <2>1, TwiceRuns DEF b
  <2> HIDE DEF T, w, b
  <2>4. Runs(Between', Passed', T, Types[T], data' \o <<>>, Goal')
    BY <1>7, <1>8, <2>2, <2>3, Zenon
  <2>5. AsRead(<<>>)'
    BY <1>5, <1>7, <1>8, <2>4, Zenon
  <2> QED
    BY <2>5
<1>11. CASE Cut
  <2>1. PICK n \in 0 .. Len(data) - 1 : Changed("cut", SubSeq(data, 1, n))
    BY <1>11 DEF Cut
  <2> DEFINE lost == SubSeq(b, n + 1, Len(b))
  <2>2. change' = "cut" /\ data' = SubSeq(b, 1, n)
    BY <1>3, <1>6, <2>1
  <2>3. lost \in Seq(Byte) /\ SubSeq(b, 1, n) \o lost = b /\ Len(SubSeq(b, 1, n)) + Len(lost) = Len(b)
    <3>1. b \in Seq(Byte) /\ n \in 0 .. Len(b) - 1
      BY <1>3, <2>1
    <3> HIDE DEF b
    <3> QED
      BY <3>1, CutIs
  <2>4. Between' = OnTheWay(T, w) /\ Passed' = {} /\ Goal' = w
    BY <1>2, <2>2 DEF Between, Passed, Goal
  <2>5. Runs(OnTheWay(T, w), {}, T, Types[T], b, w)
    <3> HIDE DEF T, w
    <3> QED
      BY <1>3, WrittenRuns DEF b
  <2> HIDE DEF T, w, b, lost
  <2>6. PICK end : end = lost
    OBVIOUS
  <2>7. Runs(Between', Passed', T, Types[T], data' \o end, Goal')
    BY <2>2, <2>3, <2>4, <2>5, <2>6, Zenon
  <2>8. /\ Len(data') + Len(end) < MaxLength
        /\ end \in Seq(Byte) /\ (end # <<>> => change' = "cut")
    BY <1>3, <2>2, <2>3, <2>6
  <2>9. AsRead(end)'
    BY <1>5, <2>7, <2>8
  <2> QED
    BY <2>9
<1>12. ~Damage
  <2> SUFFICES ASSUME Damage PROVE FALSE
    OBVIOUS
  <2>1. PICK i \in DOMAIN data, x \in Damages :
          Changed("damaged", SubSeq(data, 1, i - 1) \o x \o SubSeq(data, i + 1, Len(data)))
    BY DEF Damage
  <2> QED
    BY <1>4, <1>6, <2>1
<1> QED
  BY <1>9, <1>10, <1>11, <1>12

\* The reader begins.
LEMMA ReadKeeps ==
  ASSUME CodecInv, CodecType', Read
  PROVE  CodecInv'
<1>1. status = "sent" /\ status' = "reading" /\ UNCHANGED <<sent, data, change>>
  BY DEF Read
<1>2. /\ Len(frames') = 1
      /\ frames'[1] = Frame(sent.type, Types[sent.type], data, Str("result"))
  BY ReadIs DEF CodecInv
<1>3. /\ frames'[1].type = sent.type /\ frames'[1].value = Types[sent.type] /\ frames'[1].data = data
      /\ frames'[1].at = 0
  BY <1>2 DEF Frame
<1>4. Between' = Between /\ Passed' = Passed /\ Goal' = Goal
  BY <1>1 DEF Between, Passed, Goal
<1>5. SUFFICES ASSUME change' # "damaged"
               PROVE  \E lost : AsRead(lost)'
  BY <1>1 DEF CodecInv
<1>6. PICK lost : AsRead(lost)
  BY <1>1, <1>5 DEF CodecInv
<1>7. /\ Len(data) + Len(lost) < MaxLength
      /\ Runs(Between, Passed, sent.type, Types[sent.type], data \o lost, Goal)
  BY <1>1, <1>6 DEF AsRead
<1>8. Rest(frames'[1]) = data
  <2>1. Rest(frames'[1]) = SubSeq(data, 0 + 1, Len(data))
    BY <1>3 DEF Rest, Slice
  <2>2. SubSeq(data, 1, Len(data)) = data
    BY SubSeqFull DEF CodecInv, CodecType
  <2> QED
    BY <2>1, <2>2
<1> DEFINE ws == <<Goal>>
<1>9. ws[1] = Goal
  OBVIOUS
<1> HIDE DEF ws
<1>10. AllAwait(Between, Passed, frames', ws, lost)
  <2>1. Awaits(Between, Passed, frames'[1], lost, Types[sent.type], ws[1])
    BY <1>3, <1>7, <1>8, <1>9, Zenon DEF Awaits
  <2>2. LostOf(lost, 1) = lost /\ Ends(frames', ws, 1) = Types[sent.type]
    BY <1>2, <1>3 DEF LostOf, Ends
  <2>3. 1 .. Len(frames') = {1}
    BY <1>2
  <2> QED
    BY <2>1, <2>2, <2>3, Zenon DEF AllAwait
<1>11. AsRead(lost)'
  <2>1. \E xs : xs[1] = Goal /\ AllAwait(Between, Passed, frames', xs, lost)
    BY <1>9, <1>10
  <2>2. (\E xs : xs[1] = Goal /\ AllAwait(Between, Passed, frames, xs, lost))'
    BY <1>4, <2>1, Zenon
  <2> QED
    BY <1>1, <1>3, <1>6, <2>2 DEF AsRead
<1> QED
  BY <1>11

\* The reader goes on, refuses or returns.
LEMMA ReaderKeeps ==
  ASSUME CodecInv, CodecType', ReadScalar \/ ReadMessage \/ SkipField \/ Refuse \/ Return
  PROVE  CodecInv'
<1>1. CodecType /\ status = "reading" /\ UNCHANGED <<sent, data, change>>
  BY DEF CodecInv, ReadScalar, ReadMessage, SkipField, Refuse, Return, Unread
<1>2. Between' = Between /\ Passed' = Passed /\ Goal' = Goal
  BY <1>1 DEF Between, Passed, Goal
<1>3. status' \in {"reading", "read", "refused"}
  BY <1>1 DEF ReadScalar, ReadMessage, SkipField, Refuse, Return
<1>4. SUFFICES ASSUME change # "damaged"
               PROVE  \E lost : AsRead(lost)'
  BY <1>1, <1>3 DEF CodecInv
<1>5. PICK lost : AsRead(lost)
  BY <1>1, <1>4 DEF CodecInv
<1>6. /\ lost \in Seq(Byte) /\ (lost # <<>> => change = "cut")
      /\ frames[1].type = sent.type
      /\ \E ws : ws[1] = Goal /\ AllAwait(Between, Passed, frames, ws, lost)
  BY <1>1, <1>5 DEF AsRead
<1>7. PICK G : G = Between
  OBVIOUS
<1>8. PICK U : U = Passed
  OBVIOUS
<1>9. PICK ws : ws[1] = Goal /\ AllAwait(G, U, frames, ws, lost)
  BY <1>6, <1>7, <1>8, Zenon
<1>10. Lossy(G, U, lost)
  BY <1>1, <1>6, <1>7, <1>8, LossyIs, Zenon
<1>11. ASSUME status' = "reading", frames'[1].type = frames[1].type, NEW xs, xs[1] = Goal,
              AllAwait(G, U, frames', xs, lost)
       PROVE  AsRead(lost)'
  <2>1. (\E ys : ys[1] = Goal /\ AllAwait(Between, Passed, frames, ys, lost))'
    BY <1>2, <1>7, <1>8, <1>11, Zenon
  <2>2. (frames[1].type = sent.type)'
    BY <1>1, <1>6, <1>11
  <2> QED
    BY <1>1, <1>6, <1>11, <2>1, <2>2 DEF AsRead
<1>12. CASE ReadScalar
  <2>1. AllAwait(G, U, frames', ws, lost) /\ frames'[1].type = frames[1].type
    BY <1>1, <1>9, <1>10, <1>12, ScalarAwaits
  <2>2. status' = "reading"
    BY <1>1, <1>12 DEF ReadScalar
  <2> QED
    BY <1>9, <1>11, <2>1, <2>2, Zenon
<1>13. CASE ReadMessage
  <2>1. PICK xs : /\ xs[1] = ws[1] /\ AllAwait(G, U, frames', xs, lost)
                  /\ frames'[1].type = frames[1].type
    BY <1>1, <1>9, <1>10, <1>13, MessageAwaits
  <2>2. status' = "reading"
    BY <1>1, <1>13 DEF ReadMessage
  <2>3. xs[1] = Goal
    BY <1>9, <2>1
  <2> QED
    BY <1>11, <2>1, <2>2, <2>3, Zenon
<1>14. CASE SkipField
  <2>1. AllAwait(G, U, frames', ws, lost) /\ frames'[1].type = frames[1].type
    BY <1>1, <1>9, <1>10, <1>14, SkipAwaits
  <2>2. status' = "reading"
    BY <1>1, <1>14 DEF SkipField
  <2> QED
    BY <1>9, <1>11, <2>1, <2>2, Zenon
<1>15. CASE Refuse
  <2>1. lost # <<>>
    BY <1>1, <1>9, <1>10, <1>15, RefuseAwaits
  <2>2. status' = "refused"
    BY <1>15 DEF Refuse
  <2>3. AsRead(lost)'
    BY <1>1, <1>6, <2>1, <2>2 DEF AsRead
  <2> QED
    BY <2>3
<1>16. CASE Return /\ Len(frames) = 1
  <2>1. Result \in G[frames[1].type] /\ (lost = <<>> => Result = ws[1])
    BY <1>1, <1>9, <1>10, <1>16, ReadAwaits
  <2>2. status' = "read" /\ frames' = frames
    BY <1>16 DEF Return
  <2>3. Result' = Result
    BY <2>2 DEF Result
  <2>4. (Result \in Between[sent.type] /\ (lost = <<>> => Result = Goal))'
    BY <1>1, <1>2, <1>6, <1>7, <1>9, <2>1, <2>3
  <2>5. AsRead(lost)'
    BY <1>1, <1>6, <2>2, <2>4 DEF AsRead
  <2> QED
    BY <2>5
<1>17. CASE Return /\ Len(frames) # 1
  <2>1. AllAwait(G, U, frames', ws, lost) /\ frames'[1].type = frames[1].type
    BY <1>1, <1>9, <1>10, <1>17, ReturnAwaits
  <2>2. status' = "reading"
    BY <1>1, <1>17 DEF Return
  <2> QED
    BY <1>9, <1>11, <2>1, <2>2, Zenon
<1> QED
  BY <1>12, <1>13, <1>14, <1>15, <1>16, <1>17

\* Every step keeps the invariant.
LEMMA CodecNext == CodecInv /\ [Next]_vars => CodecInv'
<1> SUFFICES ASSUME CodecInv, [Next]_vars PROVE CodecInv'
  OBVIOUS
<1>1. CodecType'
  BY TypeNext DEF CodecInv
<1>2. CASE Write
  BY <1>1, <1>2, WriteKeeps
<1>3. CASE AddUnknown \/ Repeat \/ Cut \/ Damage
  BY <1>1, <1>3, ChangeKeeps
<1>4. CASE Read
  BY <1>1, <1>4, ReadKeeps
<1>5. CASE ReadScalar \/ ReadMessage \/ SkipField \/ Refuse \/ Return
  BY <1>1, <1>5, ReaderKeeps
<1>6. CASE UNCHANGED vars
  <2>1. UNCHANGED <<sent, data, change, status, frames>>
    BY <1>6 DEF vars
  <2>2. Between' = Between /\ Passed' = Passed /\ Goal' = Goal /\ Result' = Result
    BY <2>1 DEF Between, Passed, Goal, Result
  <2>3. \A lost : AsRead(lost) => AsRead(lost)'
    BY <2>1, <2>2 DEF AsRead
  <2> QED
    BY <1>1, <2>1, <2>3 DEF CodecInv
<1> QED
  BY <1>2, <1>3, <1>4, <1>5, <1>6 DEF Next, Reader

\* The invariant of the codec: what has been read, what is still to be read
\* and what was lost make up the message.
THEOREM CodecInvariant == Spec => []CodecInv
<1> QED
  BY CodecInit, CodecNext, PTL DEF Spec

\* What was written is what is read, whatever the type and the value: each Marshal
\* and Size of types/*.pb.go writes what the cases of its Unmarshal read.
THEOREM RoundTrips == Spec => []RoundTrip
<1>1. CodecInv => RoundTrip
  <2> SUFFICES ASSUME CodecInv PROVE RoundTrip
    OBVIOUS
  <2>1. status # "panic"
    BY DEF CodecInv, CodecType
  <2>2. ASSUME change = "none"
        PROVE  status # "refused" /\ (status = "read" => Result = sent.value)
    <3>1. status # "writing" => \E lost : AsRead(lost)
      BY <2>2 DEF CodecInv
    <3>2. \A lost : AsRead(lost) => lost = <<>>
      BY <2>2 DEF AsRead
    <3>3. Goal = sent.value
      BY <2>2 DEF Goal
    <3> QED
      BY <3>1, <3>2, <3>3 DEF AsRead
  <2> QED
    BY <2>1, <2>2 DEF RoundTrip
<1> QED
  BY <1>1, CodecInvariant, PTL

\* Readers pass over the fields of a later version, before or after their own,
\* and read the rest: the default case of each Unmarshal, and skipTx and its like.
THEOREM IgnoresUnknown == Spec => []UnknownIgnored
<1>1. CodecInv => UnknownIgnored
  <2> SUFFICES ASSUME CodecInv, change = "unknown"
               PROVE  status # "refused" /\ (status = "read" => Result = sent.value)
    BY DEF UnknownIgnored
  <2>1. \E lost : AsRead(lost)
    BY DEF CodecInv
  <2>2. \A lost : AsRead(lost) => lost = <<>>
    BY DEF AsRead
  <2>3. Goal = sent.value
    BY DEF Goal
  <2> QED
    BY <2>1, <2>2, <2>3 DEF AsRead
<1> QED
  BY <1>1, CodecInvariant, PTL

\* Bytes written twice over are read as one message, in which embedded messages
\* are merged into what is there and only repeated fields have grown: Unmarshal
\* reads into the field, it does not reset it.
THEOREM ReadsTwice == Spec => []Merges
<1>1. CodecInv => Merges
  <2> DEFINE T == sent.type
             w == sent.value
  <2> SUFFICES ASSUME CodecInv, change = "twice"
               PROVE  /\ status # "refused"
                      /\ status = "read" => Result = IF w = Nothing THEN Nothing ELSE Twice(T, w)
    BY DEF Merges
  <2>1. \E lost : AsRead(lost)
    BY DEF CodecInv
  <2>2. \A lost : AsRead(lost) => lost = <<>>
    BY DEF AsRead
  <2>3. status # "refused" /\ (status = "read" => Result \in Between[T] /\ Result = Goal)
    BY <2>1, <2>2 DEF AsRead
  <2>4. Goal = SetAll(T, w, w) /\ Between = Values
    BY DEF Goal, Between
  <2>5. T \in DOMAIN Types /\ w \in Values[T]
    BY DEF CodecInv, CodecType
  <2> HIDE DEF T, w
  <2>6. CASE DOMAIN Cases[T] = {} /\ Values[T] = {Nothing}
    BY <2>3, <2>4, <2>5, <2>6
  <2>7. CASE DOMAIN Types[T] = {Cases[T][n].name : n \in DOMAIN Cases[T]} /\ "none" \notin DOMAIN Types[T]
    <3>1. w = [f \in DOMAIN Types[T] |-> w[f]]
      BY <2>5, Shapes DEF Shape
    <3>2. w # Nothing
      <4>1. DOMAIN w = DOMAIN Types[T] /\ DOMAIN Nothing = {"none"}
        BY <3>1 DEF Nothing
      <4> QED
        BY <2>7, <4>1
    <3> QED
      BY <2>3, <2>4, <2>5, <2>7, <3>2, TwiceIs
  <2> QED
    BY <2>5, <2>6, <2>7, Shapes DEF Shape
<1> QED
  BY <1>1, CodecInvariant, PTL

\* The first entries of a list are a prefix of it.
LEMMA FirstEntries ==
  ASSUME NEW B, NEW y \in Seq(B), NEW j \in 0 .. Len(y)
  PROVE  <<>> \o SubSeq(y, 1, j) = SubSeq(y, 1, j) /\ IsPrefix(SubSeq(y, 1, j), y)
<1> DEFINE x == SubSeq(y, 1, j)
<1>1. Len(y) \in Nat /\ j \in Nat /\ j <= Len(y)
  BY LenProperties
<1>2. \A i \in 1 .. j : y[i] \in B
  BY <1>1
<1>3. x \in Seq(B) /\ Len(x) = IF 1 <= j THEN j - 1 + 1 ELSE 0
  BY <1>1, <1>2, SubSeqProperties
<1>4. Len(x) = j
  BY <1>1, <1>3
<1> HIDE DEF x
<1>5. SubSeq(x, 1, Len(x)) = x /\ <<>> \o x = x
  BY <1>3, SubSeqFull, ConcatEmptySeq
<1>6. SubSeq(x, 1, Len(x)) = SubSeq(y, 1, Len(x))
  BY <1>4, <1>5 DEF x
<1> QED
  BY <1>1, <1>4, <1>5, <1>6 DEF IsPrefix, x

\* A value on the way to w has fields of w, zero fields and the first entries
\* of repeated fields.
LEMMA OnTheWayIs ==
  ASSUME NEW T \in DOMAIN Types, NEW w \in Values[T], NEW m \in Mids(T, Types[T], w), NEW f \in DOMAIN m
  PROVE  \/ m[f] \in {w[f], Types[T][f]}
         \/ IsRepeated(T, f) /\ IsPrefix(m[f], w[f])
<1>1. Shape(T)
  BY Shapes
<1>2. /\ m \in Values[T] /\ Types[T] \in Values[T]
      /\ \A n \in DOMAIN Cases[T] : Get(T, n, m) \in Steps(T, n, Get(T, n, Types[T]), Get(T, n, w))
  BY <1>1 DEF Mids, Shape
<1>3. CASE Values[T] = {Nothing}
  <2>1. m = w
    BY <1>2, <1>3
  <2> QED
    BY <2>1
<1>4. CASE DOMAIN Types[T] = {Cases[T][n].name : n \in DOMAIN Cases[T]}
  <2>1. m = [g \in DOMAIN Types[T] |-> m[g]]
    BY <1>1, <1>2 DEF Shape
  <2>2. f \in DOMAIN Types[T]
    BY <2>1
  <2>3. PICK n \in DOMAIN Cases[T] : f = Cases[T][n].name
    BY <1>4, <2>2
  <2> DEFINE z == Types[T][f]
             y == w[f]
  <2>4. m[f] \in Steps(T, n, z, y)
    BY <1>2, <2>3 DEF Get
  <2>5. Merged(T, n, z, y) = y
    <3>1. SetAll(T, Types[T], w) = w
      BY AllZero DEF SetsZero
    <3>2. Get(T, n, SetAll(T, Types[T], w)) = Merged(T, n, Get(T, n, Types[T]), Get(T, n, w))
      BY <1>2, AllSet DEF SetsAll
    <3> QED
      BY <2>3, <3>1, <3>2 DEF Get
  <2>6. CASE m[f] \in {z, Merged(T, n, z, y)}
    BY <2>5, <2>6
  <2>7. ASSUME Cases[T][n].kind \in {"texts", "messages"}, NEW j \in 0 .. Len(y), m[f] = z \o SubSeq(y, 1, j)
        PROVE  IsRepeated(T, f) /\ IsPrefix(m[f], y)
    <3>1. IsRepeated(T, f)
      BY <2>3, <2>7, CaseOfIs DEF IsRepeated
    <3>2. z = <<>>
      <4>1. FieldShape(T, n)
        BY <1>1 DEF Shape
      <4>2. ~(T = "Coin" /\ n = 2)
        BY <2>7, <4>1 DEF FieldShape
      <4> QED
        BY <2>3, <2>7, <4>1, <4>2 DEF FieldShape, ZeroOf
    <3>3. \E B : y \in Seq(B)
      <4>1. y \in FieldSet(Cases[T][n])
        BY <1>1, <2>3 DEF Shape, FieldShape
      <4> QED
        BY <2>7, <4>1 DEF FieldSet
    <3> HIDE DEF y
    <3>4. <<>> \o SubSeq(y, 1, j) = SubSeq(y, 1, j) /\ IsPrefix(SubSeq(y, 1, j), y)
      BY <3>3, FirstEntries
    <3>5. m[f] = SubSeq(y, 1, j)
      BY <2>7, <3>2, <3>4
    <3> QED
      BY <3>1, <3>4, <3>5
  <2> QED
    BY <2>4, <2>6, <2>7 DEF Steps
<1> QED
  BY <1>1, <1>3, <1>4 DEF Shape

\* Bytes that lost their end are refused, or read as the message without its last
\* fields or entries: a length that points past the end is io.ErrUnexpectedEOF.
THEOREM NoticesCut == Spec => []CutIsNoticed
<1>1. CodecInv => CutIsNoticed
  <2> DEFINE T == sent.type
             w == sent.value
  <2> SUFFICES ASSUME CodecInv, change = "cut", status = "read", NEW f \in DOMAIN Result
               PROVE  \/ Result[f] \in {w[f], Types[T][f]}
                      \/ IsRepeated(T, f) /\ IsPrefix(Result[f], w[f])
    BY DEF CutIsNoticed
  <2>1. T \in DOMAIN Types /\ w \in Values[T]
    BY DEF CodecInv, CodecType
  <2>2. Result \in OnTheWay(T, w)[T]
    BY DEF CodecInv, AsRead, Between
  <2> HIDE DEF T, w
  <2>3. Result \in Mids(T, Types[T], w)
    BY <2>1, <2>2, SettingIs
  <2> QED
    BY <2>1, <2>3, OnTheWayIs
<1> QED
  BY <1>1, CodecInvariant, PTL
=============================================================================
