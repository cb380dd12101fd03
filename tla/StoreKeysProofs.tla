--------------------------- MODULE StoreKeysProofs ---------------------------
(***************************************************************************)
(* A query by creator is exact, for every set of creators, denoms and      *)
(* strings asked for.  The argument is about the separator: a key of the   *)
(* index holds it in second place and once after that, behind the creator, *)
(* and a prefix ends with it.  A key that begins with the prefix of a      *)
(* string must have its own creator end where that string ends.            *)
(***************************************************************************)
EXTENDS StoreKeys, SequenceTheorems, TLAPS

USE KeyAssumption

Names == {str \in Seq(Symbols) : Plain(str)}

-----------------------------------------------------------------------------
(* The layout of keys.                                                      *)

\* What stands where in a prefix.
LEMMA PrefixLayout ==
  ASSUME NEW word \in Symbols, NEW name \in Seq(Symbols)
  PROVE  LET p == Prefix(word, name) IN
         /\ p \in Seq(Symbols)
         /\ Len(p) = Len(name) + 3
         /\ p[1] = word /\ p[2] = Separator
         /\ \A i \in 1 .. Len(name) : p[i + 2] = name[i]
         /\ p[Len(name) + 3] = Separator
<1> DEFINE front == <<word, Separator>> \o name
<1>1. /\ front \in Seq(Symbols) /\ Len(front) = Len(name) + 2
      /\ front[1] = word /\ front[2] = Separator
      /\ \A i \in 1 .. Len(name) : front[i + 2] = name[i]
  OBVIOUS
<1> HIDE DEF front
<1>2. Prefix(word, name) = front \o <<Separator>>
  BY DEF Prefix, front
<1> QED
  BY <1>1, <1>2

\* A prefix stays in place when the rest of the key is put behind it.
LEMMA KeyLayout ==
  ASSUME NEW word \in Symbols, NEW name \in Seq(Symbols), NEW rest \in Seq(Symbols)
  PROVE  LET p == Prefix(word, name)
             k == p \o rest IN
         /\ k \in Seq(Symbols)
         /\ Len(k) = Len(name) + 3 + Len(rest)
         /\ \A i \in 1 .. Len(name) + 3 : k[i] = p[i]
         /\ \A i \in 1 .. Len(rest) : k[Len(name) + 3 + i] = rest[i]
<1> DEFINE p == Prefix(word, name)
<1>1. p \in Seq(Symbols) /\ Len(p) = Len(name) + 3
  BY PrefixLayout
<1> HIDE DEF p
<1>2. /\ p \o rest \in Seq(Symbols)
      /\ Len(p \o rest) = Len(p) + Len(rest)
      /\ \A i \in 1 .. Len(p) + Len(rest) :
           (p \o rest)[i] = IF i <= Len(p) THEN p[i] ELSE rest[i - Len(p)]
  BY <1>1, ConcatProperties
<1>3. Len(rest) \in Nat /\ Len(name) \in Nat
  OBVIOUS
<1>4. \A i \in 1 .. Len(p) : (p \o rest)[i] = p[i]
  BY <1>1, <1>2, <1>3
<1>5. \A i \in 1 .. Len(rest) : (p \o rest)[Len(p) + i] = rest[i]
  BY <1>1, <1>2, <1>3
<1> QED
  BY <1>1, <1>2, <1>4, <1>5 DEF p

\* A key begins with the word of its prefix and the separator.
LEMMA KeyFront ==
  ASSUME NEW word \in Symbols, NEW name \in Seq(Symbols), NEW rest \in Seq(Symbols)
  PROVE  LET k == Prefix(word, name) \o rest IN
         /\ k \in Seq(Symbols) /\ Len(k) >= 2
         /\ k[1] = word /\ k[2] = Separator
<1> DEFINE p == Prefix(word, name)
           k == p \o rest
<1>1. p[1] = word /\ p[2] = Separator
  BY PrefixLayout
<1>2. /\ k \in Seq(Symbols) /\ Len(k) = Len(name) + 3 + Len(rest)
      /\ \A i \in 1 .. Len(name) + 3 : k[i] = p[i]
  BY KeyLayout
<1>3. Len(name) \in Nat /\ Len(rest) \in Nat
  OBVIOUS
<1> HIDE DEF p, k
<1>4. k[1] = p[1] /\ k[2] = p[2] /\ Len(k) >= 2
  BY <1>2, <1>3
<1> QED
  BY <1>1, <1>2, <1>4 DEF p, k

-----------------------------------------------------------------------------
(* Ranges.                                                                  *)

\* A key of the index lies in the range of its own creator and of no other
\* string.
LEMMA IndexInOwnRange ==
  ASSUME NEW c \in Names, NEW d \in Names, NEW str \in Seq(Symbols)
  PROVE  BeginsWith(IndexKey(c, d), GetCreatorPrefix(str)) <=> c = str
<1> DEFINE k == IndexKey(c, d)
           p == GetCreatorPrefix(c)
           q == GetCreatorPrefix(str)
<1>1. /\ Creator \in Symbols /\ c \in Seq(Symbols) /\ d \in Seq(Symbols)
      /\ \A i \in 1 .. Len(c) : c[i] # Separator
      /\ \A i \in 1 .. Len(d) : d[i] # Separator
  BY DEF Names, Plain
<1>2. /\ p \in Seq(Symbols) /\ Len(p) = Len(c) + 3
      /\ p[1] = Creator /\ p[2] = Separator
      /\ \A i \in 1 .. Len(c) : p[i + 2] = c[i]
      /\ p[Len(c) + 3] = Separator
  BY <1>1, PrefixLayout DEF GetCreatorPrefix
<1>3. /\ q \in Seq(Symbols) /\ Len(q) = Len(str) + 3
      /\ \A i \in 1 .. Len(str) : q[i + 2] = str[i]
      /\ q[Len(str) + 3] = Separator
  BY <1>1, PrefixLayout DEF GetCreatorPrefix
<1>4. /\ k \in Seq(Symbols) /\ Len(k) = Len(c) + 3 + Len(d)
      /\ \A i \in 1 .. Len(c) + 3 : k[i] = p[i]
      /\ \A i \in 1 .. Len(d) : k[Len(c) + 3 + i] = d[i]
  BY <1>1, KeyLayout, SMTT(30) DEF IndexKey, GetCreatorPrefix
<1>5. Len(c) \in Nat /\ Len(d) \in Nat /\ Len(str) \in Nat
  BY <1>1
<1> HIDE DEF k, p, q
<1>6. ASSUME c = str PROVE BeginsWith(k, q)
  <2>1. p = q
    BY <1>6 DEF p, q
  <2> QED
    BY <1>2, <1>4, <1>5, <2>1 DEF BeginsWith
<1>7. ASSUME BeginsWith(k, q) PROVE c = str
  <2>1. /\ Len(str) + 3 <= Len(c) + 3 + Len(d)
        /\ \A i \in 1 .. Len(str) + 3 : k[i] = q[i]
    BY <1>3, <1>4, <1>7 DEF BeginsWith
  <2>2. \A i \in 1 .. Len(c) : k[i + 2] # Separator
    BY <1>1, <1>2, <1>4, <1>5
  <2>3. k[Len(str) + 3] = Separator
    BY <1>3, <1>5, <2>1
  <2>4. ~ Len(str) < Len(c)
    <3> SUFFICES ASSUME Len(str) < Len(c) PROVE FALSE
      OBVIOUS
    <3>1. Len(str) + 1 \in 1 .. Len(c) /\ (Len(str) + 1) + 2 = Len(str) + 3
      BY <1>5
    <3> QED
      BY <2>2, <2>3, <3>1
  <2>5. ~ Len(c) < Len(str)
    <3> SUFFICES ASSUME Len(c) < Len(str) PROVE FALSE
      OBVIOUS
    <3>1. /\ Len(str) - Len(c) \in 1 .. Len(d)
          /\ Len(c) + 3 + (Len(str) - Len(c)) = Len(str) + 3
      BY <1>5, <2>1
    <3> QED
      BY <1>1, <1>4, <2>3, <3>1
  <2>6. Len(c) = Len(str)
    BY <1>5, <2>4, <2>5
  <2>7. ASSUME NEW i \in 1 .. Len(c) PROVE c[i] = str[i]
    <3>1. i + 2 \in 1 .. Len(c) + 3 /\ i \in 1 .. Len(str)
      BY <1>5, <2>6
    <3> QED
      BY <1>2, <1>3, <1>4, <2>1, <2>6, <3>1
  <2> QED
    BY <1>1, <2>6, <2>7, SeqEqual
<1> QED
  BY <1>6, <1>7 DEF k, q

\* No record lies in the range of a creator.
LEMMA RecordInNoRange ==
  ASSUME NEW d \in Names, NEW str \in Seq(Symbols)
  PROVE  ~BeginsWith(AuthorityKey(d), GetCreatorPrefix(str))
<1>1. /\ Creator \in Symbols /\ Denom \in Symbols /\ d \in Seq(Symbols)
      /\ <<Authority>> \in Seq(Symbols)
  BY DEF Names
<1>2. Len(GetCreatorPrefix(str)) = Len(str) + 3 /\ GetCreatorPrefix(str)[1] = Creator
      /\ GetCreatorPrefix(str) \in Seq(Symbols)
  BY <1>1, PrefixLayout DEF GetCreatorPrefix
<1>3. AuthorityKey(d)[1] = Denom
  BY <1>1, KeyFront DEF AuthorityKey, GetDenomPrefixStore
<1>4. 1 \in DOMAIN GetCreatorPrefix(str)
  <2>1. Len(str) \in Nat
    OBVIOUS
  <2> QED
    BY <1>2, <2>1
<1> QED
  BY <1>2, <1>3, <1>4 DEF BeginsWith

\* What the iterator of a creator's store calls the key is the denom.
LEMMA DenomAfterPrefix ==
  ASSUME NEW c \in Names, NEW d \in Names
  PROVE  After(IndexKey(c, d), GetCreatorPrefix(c)) = d
<1> DEFINE k == IndexKey(c, d)
<1>1. Creator \in Symbols /\ c \in Seq(Symbols) /\ d \in Seq(Symbols)
  BY DEF Names
<1>2. Len(GetCreatorPrefix(c)) = Len(c) + 3
  BY <1>1, PrefixLayout DEF GetCreatorPrefix
<1>3. /\ k \in Seq(Symbols) /\ Len(k) = Len(c) + 3 + Len(d)
      /\ \A i \in 1 .. Len(d) : k[Len(c) + 3 + i] = d[i]
  BY <1>1, KeyLayout DEF IndexKey, GetCreatorPrefix
<1>4. Len(c) \in Nat /\ Len(d) \in Nat
  BY <1>1
<1> HIDE DEF k
<1> DEFINE a == SubSeq(k, Len(c) + 4, Len(k))
<1>5. /\ a \in Seq(Symbols) /\ Len(a) = Len(d)
      /\ \A i \in 1 .. Len(d) : a[i] = d[i]
  BY <1>3, <1>4
<1>6. a = d
  <2> HIDE DEF a
  <2> QED
    BY <1>1, <1>5, SeqEqual
<1> QED
  BY <1>2, <1>4, <1>6 DEF After, k

-----------------------------------------------------------------------------
(* The keys of the store.                                                   *)

IndexKeys(pairs) == {IndexKey(pair[1], pair[2]) : pair \in pairs}

RecordKeys(recs) == {AuthorityKey(r[1]) : r \in recs}

\* The store holds a key for every pair added and every current record, and no
\* other; the value at the key of a pair is its denom, at that of a record its
\* admin.
KeysInv ==
  /\ added \subseteq Creators \X DenomNames
  /\ records \subseteq DenomNames \X Admins
  /\ DOMAIN store = IndexKeys(added) \cup RecordKeys(records)
  /\ \A pair \in added : store[IndexKey(pair[1], pair[2])] = pair[2]
  /\ \A r \in records : store[AuthorityKey(r[1])] = r[2]

\* The creators and the denoms are plain strings, and so are sequences of
\* symbols like the strings asked for.
LEMMA Strings ==
  /\ Creators \subseteq Names /\ DenomNames \subseteq Names
  /\ Creators \cup DenomNames \cup Queries \subseteq Seq(Symbols)
  BY DEF Names, Plain

\* Two pairs of names have different keys, two strings have different keys of
\* records, and no key is that of a pair and of a record.
LEMMA KeysDiffer ==
  /\ \A c, d, c2, d2 \in Names : IndexKey(c, d) = IndexKey(c2, d2) => c = c2 /\ d = d2
  /\ \A c, d \in Names, str \in Seq(Symbols) : IndexKey(c, d) # AuthorityKey(str)
  /\ \A str, other \in Seq(Symbols) : AuthorityKey(str) = AuthorityKey(other) => str = other
<1>1. ASSUME NEW c \in Names, NEW d \in Names, NEW c2 \in Names, NEW d2 \in Names,
             IndexKey(c, d) = IndexKey(c2, d2)
      PROVE  c = c2 /\ d = d2
  <2>1. c \in Seq(Symbols) /\ BeginsWith(IndexKey(c, d), GetCreatorPrefix(c))
    BY IndexInOwnRange DEF Names
  <2>2. c = c2
    BY <1>1, <2>1, IndexInOwnRange
  <2> QED
    BY <1>1, <2>2, DenomAfterPrefix
<1>2. ASSUME NEW c \in Names, NEW d \in Names, NEW str \in Seq(Symbols)
      PROVE  IndexKey(c, d) # AuthorityKey(str)
  <2>1. /\ {Creator, Denom} \subseteq Symbols /\ <<Authority>> \in Seq(Symbols)
        /\ c \in Seq(Symbols) /\ d \in Seq(Symbols)
    BY DEF Names
  <2>2. IndexKey(c, d)[1] = Creator
    BY <2>1, KeyFront DEF IndexKey, GetCreatorPrefix
  <2>3. AuthorityKey(str)[1] = Denom
    BY <2>1, KeyFront DEF AuthorityKey, GetDenomPrefixStore
  <2> QED
    BY <2>2, <2>3
<1>3. ASSUME NEW str \in Seq(Symbols), NEW other \in Seq(Symbols),
             AuthorityKey(str) = AuthorityKey(other)
      PROVE  str = other
  <2> DEFINE Laid(k, s) == /\ Len(k) = Len(s) + 4
                           /\ \A i \in 1 .. Len(s) : k[i + 2] = s[i]
  <2>1. ASSUME NEW s \in Seq(Symbols) PROVE Laid(AuthorityKey(s), s)
    <3> DEFINE k == AuthorityKey(s)
               p == GetDenomPrefixStore(s)
    <3>1. Denom \in Symbols /\ <<Authority>> \in Seq(Symbols) /\ Len(<<Authority>>) = 1
      OBVIOUS
    <3>2. \A i \in 1 .. Len(s) : p[i + 2] = s[i]
      BY <3>1, PrefixLayout DEF GetDenomPrefixStore
    <3>3. Len(k) = Len(s) + 3 + 1 /\ \A i \in 1 .. Len(s) + 3 : k[i] = p[i]
      BY <3>1, KeyLayout DEF AuthorityKey, GetDenomPrefixStore
    <3>4. Len(s) \in Nat
      OBVIOUS
    <3> HIDE DEF k, p
    <3>5. ASSUME NEW i \in 1 .. Len(s) PROVE k[i + 2] = s[i]
      <4>1. i + 2 \in 1 .. Len(s) + 3
        BY <3>4
      <4> QED
        BY <3>2, <3>3, <4>1
    <3>6. Len(k) = Len(s) + 4
      BY <3>3, <3>4
    <3> QED
      BY <3>5, <3>6 DEF k
  <2>2. Laid(AuthorityKey(str), str) /\ Laid(AuthorityKey(str), other)
    BY <1>3, <2>1
  <2>3. Len(str) \in Nat /\ Len(other) \in Nat
    OBVIOUS
  <2>4. Len(str) = Len(other) /\ \A i \in 1 .. Len(str) : str[i] = other[i]
    BY <2>2, <2>3
  <2> QED
    BY <2>4, SeqEqual
<1> QED
  BY <1>1, <1>2, <1>3

\* The empty store has the invariant.
LEMMA InitKeys == Init => KeysInv
  BY DEF Init, KeysInv, IndexKeys, RecordKeys

\* One more pair is one more key.
LEMMA OneMorePair ==
  ASSUME NEW pairs, NEW c, NEW d
  PROVE  IndexKeys(pairs \cup {<<c, d>>}) = IndexKeys(pairs) \cup {IndexKey(c, d)}
<1> DEFINE more == pairs \cup {<<c, d>>}
<1>1. ASSUME NEW pair \in more
      PROVE  IndexKey(pair[1], pair[2]) \in IndexKeys(pairs) \cup {IndexKey(c, d)}
  <2>1. CASE pair \in pairs
    BY <2>1 DEF IndexKeys
  <2>2. CASE pair = <<c, d>>
    <3>1. pair[1] = c /\ pair[2] = d
      BY <2>2
    <3> QED
      BY <3>1
  <2> QED
    BY <2>1, <2>2
<1>2. ASSUME NEW pair \in pairs PROVE IndexKey(pair[1], pair[2]) \in IndexKeys(more)
  BY DEF IndexKeys
<1>3. IndexKey(c, d) \in IndexKeys(more)
  <2>1. <<c, d>>[1] = c /\ <<c, d>>[2] = d /\ <<c, d>> \in more
    OBVIOUS
  <2>2. IndexKey(<<c, d>>[1], <<c, d>>[2]) \in IndexKeys(more)
    BY <2>1, Zenon DEF IndexKeys
  <2> QED
    BY <2>1, <2>2
<1> HIDE DEF more
<1>4. IndexKeys(more) = IndexKeys(pairs) \cup {IndexKey(c, d)}
  BY <1>1, <1>2, <1>3 DEF IndexKeys
<1> QED
  BY <1>4 DEF more

\* A record set anew is at its key, and no other key comes or goes.
LEMMA RecordSetAnew ==
  ASSUME NEW recs, NEW d, NEW a
  PROVE  RecordKeys({r \in recs : r[1] # d} \cup {<<d, a>>})
           = RecordKeys(recs) \cup {AuthorityKey(d)}
<1> DEFINE anew == {r \in recs : r[1] # d} \cup {<<d, a>>}
<1>1. <<d, a>> \in anew /\ <<d, a>>[1] = d
  OBVIOUS
<1>2. AuthorityKey(d) \in RecordKeys(anew)
  <2>1. AuthorityKey(<<d, a>>[1]) \in RecordKeys(anew)
    BY <1>1, Zenon DEF RecordKeys
  <2> QED
    BY <1>1, <2>1
<1>3. ASSUME NEW r \in anew
      PROVE  AuthorityKey(r[1]) \in RecordKeys(recs) \cup {AuthorityKey(d)}
  <2>1. CASE r \in recs
    BY <2>1 DEF RecordKeys
  <2>2. CASE r = <<d, a>>
    <3>1. r[1] = d
      BY <2>2
    <3> QED
      BY <3>1
  <2> QED
    BY <2>1, <2>2
<1>4. ASSUME NEW r \in recs PROVE AuthorityKey(r[1]) \in RecordKeys(anew)
  <2>1. CASE r[1] = d
    BY <1>2, <2>1
  <2>2. CASE r[1] # d
    <3>1. r \in anew
      BY <2>2
    <3> QED
      BY <3>1 DEF RecordKeys
  <2> QED
    BY <2>1, <2>2
<1> HIDE DEF anew
<1>5. RecordKeys(anew) = RecordKeys(recs) \cup {AuthorityKey(d)}
  BY <1>2, <1>3, <1>4 DEF RecordKeys
<1> QED
  BY <1>5 DEF anew

\* Adding a denom keeps it: the one key written is that of the pair.
LEMMA AddKeepsKeys ==
  ASSUME KeysInv, NEW creator \in Creators, NEW denom \in DenomNames,
         addDenomFromCreator(creator, denom)
  PROVE  KeysInv'
<1> DEFINE key == IndexKey(creator, denom)
<1>1. /\ added' = added \cup {<<creator, denom>>} /\ records' = records
      /\ store' = [k \in DOMAIN store \cup {key} |->
                     IF k = key THEN denom ELSE store[k]]
  BY DEF addDenomFromCreator, Set
<1>2. /\ added' \subseteq Creators \X DenomNames
      /\ records' \subseteq DenomNames \X Admins
  BY <1>1 DEF KeysInv
<1>3. IndexKeys(added') = IndexKeys(added) \cup {key}
  BY <1>1, OneMorePair
<1>4. DOMAIN store' = IndexKeys(added') \cup RecordKeys(records')
  <2> HIDE DEF key
  <2> QED
    BY <1>1, <1>3 DEF KeysInv
<1>5. ASSUME NEW pair \in added'
      PROVE  store'[IndexKey(pair[1], pair[2])] = pair[2]
  <2>1. CASE pair = <<creator, denom>>
    <3>1. IndexKey(pair[1], pair[2]) = key /\ pair[2] = denom
      BY <2>1
    <3> HIDE DEF key
    <3> QED
      BY <1>1, <3>1
  <2>2. CASE pair \in added
    <3>1. /\ IndexKey(pair[1], pair[2]) \in DOMAIN store
          /\ store[IndexKey(pair[1], pair[2])] = pair[2]
      BY <2>2 DEF KeysInv, IndexKeys
    <3>2. pair[1] \in Names /\ pair[2] \in Names /\ creator \in Names /\ denom \in Names
      BY <2>2, Strings DEF KeysInv
    <3>3. IndexKey(pair[1], pair[2]) = key => pair[2] = denom
      BY <3>2, KeysDiffer
    <3> HIDE DEF key
    <3> QED
      BY <1>1, <3>1, <3>3
  <2> QED
    BY <1>1, <2>1, <2>2
<1>6. ASSUME NEW r \in records' PROVE store'[AuthorityKey(r[1])] = r[2]
  <2>1. /\ AuthorityKey(r[1]) \in DOMAIN store
        /\ store[AuthorityKey(r[1])] = r[2]
    BY <1>1 DEF KeysInv, RecordKeys
  <2>2. r[1] \in Seq(Symbols) /\ creator \in Names /\ denom \in Names
    BY <1>1, Strings DEF KeysInv, Names
  <2>3. AuthorityKey(r[1]) # key
    BY <2>2, KeysDiffer
  <2> HIDE DEF key
  <2> QED
    BY <1>1, <2>1, <2>3
<1> QED
  BY <1>2, <1>4, <1>5, <1>6 DEF KeysInv

\* Setting a record keeps it: the one key written is that of no pair and of no
\* other denom's record.
LEMMA SetKeepsKeys ==
  ASSUME KeysInv, NEW denom \in DenomNames, NEW admin \in Admins,
         setAuthorityMetadata(denom, admin)
  PROVE  KeysInv'
<1> DEFINE key == AuthorityKey(denom)
<1>1. /\ added' = added
      /\ records' = {r \in records : r[1] # denom} \cup {<<denom, admin>>}
      /\ store' = [k \in DOMAIN store \cup {key} |->
                     IF k = key THEN admin ELSE store[k]]
  BY DEF setAuthorityMetadata, Set
<1>2. /\ added' \subseteq Creators \X DenomNames
      /\ records' \subseteq DenomNames \X Admins
  BY <1>1 DEF KeysInv
<1>3. RecordKeys(records') = RecordKeys(records) \cup {key}
  BY <1>1, RecordSetAnew
<1>4. DOMAIN store' = IndexKeys(added') \cup RecordKeys(records')
  <2> HIDE DEF key
  <2> QED
    BY <1>1, <1>3 DEF KeysInv
<1>5. ASSUME NEW pair \in added'
      PROVE  store'[IndexKey(pair[1], pair[2])] = pair[2]
  <2>1. /\ IndexKey(pair[1], pair[2]) \in DOMAIN store
        /\ store[IndexKey(pair[1], pair[2])] = pair[2]
    BY <1>1 DEF KeysInv, IndexKeys
  <2>2. pair[1] \in Names /\ pair[2] \in Names /\ denom \in Seq(Symbols)
    BY <1>1, Strings DEF KeysInv, Names
  <2>3. IndexKey(pair[1], pair[2]) # key
    BY <2>2, KeysDiffer
  <2> HIDE DEF key
  <2> QED
    BY <1>1, <2>1, <2>3
<1>6. ASSUME NEW r \in records' PROVE store'[AuthorityKey(r[1])] = r[2]
  <2>1. CASE r = <<denom, admin>>
    <3>1. AuthorityKey(r[1]) = key /\ r[2] = admin
      BY <2>1
    <3> HIDE DEF key
    <3> QED
      BY <1>1, <3>1
  <2>2. CASE r \in records /\ r[1] # denom
    <3>1. /\ AuthorityKey(r[1]) \in DOMAIN store
          /\ store[AuthorityKey(r[1])] = r[2]
      BY <2>2 DEF KeysInv, RecordKeys
    <3>2. r[1] \in Seq(Symbols) /\ denom \in Seq(Symbols)
      BY <2>2, Strings DEF KeysInv, Names
    <3>3. AuthorityKey(r[1]) # key
      BY <2>2, <3>2, KeysDiffer
    <3> HIDE DEF key
    <3> QED
      BY <1>1, <3>1, <3>3
  <2> QED
    BY <1>1, <2>1, <2>2
<1> QED
  BY <1>2, <1>4, <1>5, <1>6 DEF KeysInv

\* The store holds the keys of what was written and no other.
LEMMA KeysAlways == Spec => []KeysInv
<1>1. KeysInv /\ [Next]_vars => KeysInv'
  <2> SUFFICES ASSUME KeysInv, [Next]_vars PROVE KeysInv'
    OBVIOUS
  <2>1. CASE \E creator \in Creators, denom \in DenomNames :
               addDenomFromCreator(creator, denom)
    BY <2>1, AddKeepsKeys
  <2>2. CASE \E denom \in DenomNames, admin \in Admins :
               setAuthorityMetadata(denom, admin)
    BY <2>2, SetKeepsKeys
  <2>3. CASE UNCHANGED vars
    BY <2>3 DEF vars, KeysInv, IndexKeys, RecordKeys
  <2> QED
    BY <2>1, <2>2, <2>3 DEF Next
<1> QED
  BY <1>1, InitKeys, PTL DEF Spec

-----------------------------------------------------------------------------
(* What queries find.                                                       *)

\* The keys in the range of a string are those of the denoms added under it.
LEMMA KeysAnswer == KeysInv => CreatorQueriesExact
<1> SUFFICES ASSUME KeysInv, NEW str \in Creators \cup Queries
             PROVE  getDenomsFromCreator(str) =
                      {pair[2] : pair \in {p \in added : p[1] = str}}
  BY DEF CreatorQueriesExact
<1> DEFINE prefix == GetCreatorPrefix(str)
           inRange == {k \in DOMAIN store : BeginsWith(k, prefix)}
           under == {p \in added : p[1] = str}
<1>1. str \in Seq(Symbols)
  BY Strings
<1>2. ASSUME NEW pair \in added
      PROVE  /\ pair[1] \in Names /\ pair[2] \in Names
             /\ IndexKey(pair[1], pair[2]) \in DOMAIN store
             /\ BeginsWith(IndexKey(pair[1], pair[2]), prefix) <=> pair[1] = str
  <2>1. pair[1] \in Names /\ pair[2] \in Names
    BY Strings DEF KeysInv
  <2> QED
    BY <1>1, <2>1, IndexInOwnRange DEF KeysInv, IndexKeys
<1>3. ASSUME NEW k \in inRange
      PROVE  \E pair \in under : k = IndexKey(pair[1], pair[2])
  <2>1. k \notin RecordKeys(records)
    <3>1. ASSUME NEW r \in records PROVE k # AuthorityKey(r[1])
      <4>1. r[1] \in Names
        BY Strings DEF KeysInv
      <4> QED
        BY <1>1, <4>1, RecordInNoRange
    <3> QED
      BY <3>1 DEF RecordKeys
  <2>2. PICK pair \in added : k = IndexKey(pair[1], pair[2])
    BY <2>1 DEF KeysInv, IndexKeys
  <2> QED
    BY <1>2, <2>2
<1>4. ASSUME NEW pair \in under
      PROVE  /\ IndexKey(pair[1], pair[2]) \in inRange
             /\ After(IndexKey(pair[1], pair[2]), prefix) = pair[2]
  BY <1>2, DenomAfterPrefix
<1> HIDE DEF inRange, under, prefix
<1>5. {After(k, prefix) : k \in inRange} = {pair[2] : pair \in under}
  BY <1>3, <1>4
<1> QED
  BY <1>5 DEF getDenomsFromCreator, inRange, under, prefix

\* The keys under all creators are those of the index, with the denoms for
\* values.
LEMMA KeysExport == KeysInv => ExportSeesAllDenoms
<1> SUFFICES ASSUME KeysInv PROVE AllDenoms = {pair[2] : pair \in added}
  BY DEF ExportSeesAllDenoms
<1> DEFINE inRange == {k \in DOMAIN store : BeginsWith(k, GetCreatorsPrefix)}
<1>1. /\ GetCreatorsPrefix \in Seq(Symbols) /\ Len(GetCreatorsPrefix) = 2
      /\ GetCreatorsPrefix[1] = Creator /\ GetCreatorsPrefix[2] = Separator
  BY DEF GetCreatorsPrefix
<1>2. ASSUME NEW pair \in added
      PROVE  /\ IndexKey(pair[1], pair[2]) \in inRange
             /\ store[IndexKey(pair[1], pair[2])] = pair[2]
  <2> DEFINE k == IndexKey(pair[1], pair[2])
  <2>1. /\ pair[1] \in Seq(Symbols) /\ pair[2] \in Seq(Symbols) /\ Creator \in Symbols
    BY Strings DEF KeysInv, Names
  <2>2. /\ k \in Seq(Symbols) /\ Len(k) >= 2
        /\ k[1] = Creator /\ k[2] = Separator
    BY <2>1, KeyFront, ZenonT(60) DEF IndexKey, GetCreatorPrefix
  <2>3. BeginsWith(k, GetCreatorsPrefix)
    <3> HIDE DEF k
    <3> QED
      BY <1>1, <2>2 DEF BeginsWith
  <2> QED
    BY <2>3 DEF KeysInv, IndexKeys
<1>3. ASSUME NEW k \in inRange
      PROVE  \E pair \in added : k = IndexKey(pair[1], pair[2])
  <2>1. k[1] = Creator
    BY <1>1 DEF BeginsWith
  <2>2. ASSUME NEW r \in records PROVE k # AuthorityKey(r[1])
    <3>1. r[1] \in Seq(Symbols) /\ Denom \in Symbols
          /\ <<Authority>> \in Seq(Symbols)
      BY Strings DEF KeysInv, Names
    <3>2. AuthorityKey(r[1])[1] = Denom
      BY <3>1, KeyFront DEF AuthorityKey, GetDenomPrefixStore
    <3> QED
      BY <2>1, <3>2
  <2> QED
    BY <2>2 DEF KeysInv, IndexKeys, RecordKeys
<1> HIDE DEF inRange
<1>4. {store[k] : k \in inRange} = {pair[2] : pair \in added}
  BY <1>2, <1>3
<1> QED
  BY <1>4 DEF AllDenoms, inRange

\* The one key asked for is that of the record of the denom, if it has one.
LEMMA KeysGiveRecord == KeysInv => RecordQueriesExact
<1> SUFFICES ASSUME KeysInv, NEW str \in DenomNames \cup Queries
             PROVE  LET of == {r \in records : r[1] = str} IN
                    IF of = {} THEN GetAuthorityMetadata(str) = Absent
                    ELSE \A r \in of : GetAuthorityMetadata(str) = r[2]
  BY DEF RecordQueriesExact
<1> DEFINE of == {r \in records : r[1] = str}
           key == AuthorityKey(str)
<1>1. str \in Seq(Symbols)
  BY Strings
<1>2. ASSUME of = {} PROVE GetAuthorityMetadata(str) = Absent
  <2>1. key \notin RecordKeys(records)
    <3>1. ASSUME NEW r \in records PROVE AuthorityKey(r[1]) # key
      <4>1. r[1] \in Seq(Symbols) /\ r[1] # str
        BY <1>2, Strings DEF KeysInv
      <4> QED
        BY <1>1, <4>1, KeysDiffer
    <3> QED
      BY <3>1 DEF RecordKeys
  <2>2. key \notin IndexKeys(added)
    <3>1. ASSUME NEW pair \in added PROVE IndexKey(pair[1], pair[2]) # key
      <4>1. pair[1] \in Names /\ pair[2] \in Names
        BY Strings DEF KeysInv
      <4> QED
        BY <1>1, <4>1, KeysDiffer
    <3> QED
      BY <3>1 DEF IndexKeys
  <2> QED
    BY <2>1, <2>2 DEF KeysInv, GetAuthorityMetadata, Get
<1>3. ASSUME NEW r \in of PROVE GetAuthorityMetadata(str) = r[2]
  <2>1. key \in DOMAIN store /\ store[key] = r[2]
    BY DEF KeysInv, RecordKeys
  <2> QED
    BY <2>1 DEF GetAuthorityMetadata, Get
<1> QED
  BY <1>2, <1>3

\* A query by creator answers with the denoms added under the string it is
\* asked for, in every state (creators.go:12, grpc_query.go:31).
THEOREM CreatorQueriesStayExact == Spec => []CreatorQueriesExact
  BY KeysAlways, KeysAnswer, PTL

\* A query for the admin of a denom answers with its last record, and for any
\* other string with none, in every state (admins.go:11).
THEOREM RecordQueriesStayExact == Spec => []RecordQueriesExact
  BY KeysAlways, KeysGiveRecord, PTL

\* The export finds the denoms that were added and nothing else, in every state
\* (creators.go:25, genesis.go:38).
THEOREM ExportStaysComplete == Spec => []ExportSeesAllDenoms
  BY KeysAlways, KeysExport, PTL
=============================================================================
