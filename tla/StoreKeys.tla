------------------------------ MODULE StoreKeys ------------------------------
(***************************************************************************)
(* The key-value store of x/tokenfactory: which keys its two kinds of      *)
(* records are stored under (types/keys.go), and what the queries find     *)
(* there.  TokenFactory takes the records for a function and the index for *)
(* a set of pairs; here is why it may.                                     *)
(*                                                                         *)
(* A string is a sequence of symbols: the words of the key scheme, the     *)
(* separator, and pieces of names.  Keys are put together by concatenation *)
(* and ranges of them are those that begin with a prefix.                  *)
(***************************************************************************)
EXTENDS Integers, Sequences

CONSTANTS
  Separator,    \* "|", KeySeparator
  Creator,      \* "creator", CreatorPrefixKey
  Denom,        \* "denoms", DenomsPrefixKey
  Authority,    \* "authoritymetadata", DenomAuthorityMetadataKey
  Symbols,      \* these and the pieces of names
  Creators,     \* creator strings that denoms are added under
  DenomNames,   \* denoms that are added, and get an authority record
  Admins,       \* values of the authority records
  Queries,      \* bound: the strings clients ask for, in place of a creator or a denom
  Absent        \* Get returns nil

Plain(str) == str \in Seq(Symbols) /\ \A i \in DOMAIN str : str[i] # Separator

\* Neither a bech32 address nor a denom that ValidateDenom accepts holds the
\* separator; what a client asks for may be any string.
ASSUME KeyAssumption ==
  /\ {Separator, Creator, Denom, Authority} \subseteq Symbols
  /\ Creator # Denom /\ Separator \notin {Creator, Denom, Authority}
  /\ \A str \in Creators \cup DenomNames : Plain(str)
  /\ Queries \subseteq Seq(Symbols)
  /\ Absent \notin Admins

VARIABLES
  store,    \* the module's store: a function from keys to values
  added,    \* history: the <<creator, denom>> pairs added
  records   \* history: the <<denom, admin>> records that are current

vars == <<store, added, records>>

-----------------------------------------------------------------------------
(* Keys.                                                                    *)

\* strings.Join([word, name, ""], "|")
Prefix(word, name) == <<word, Separator>> \o name \o <<Separator>>

\* Mutant: the name is missing from the prefix.
SharedPrefix(denom) == <<Denom, Separator>>

GetDenomPrefixStore(denom) == Prefix(Denom, denom)

\* Mutant: the prefix does not end with the separator.
OpenPrefix(creator) == <<Creator, Separator>> \o creator

GetCreatorPrefix(creator) == Prefix(Creator, creator)

GetCreatorsPrefix == <<Creator, Separator>>

\* Mutant: records are kept with the denoms of a creator.
RecordAmongCreators(denom) == Prefix(Creator, denom) \o <<Authority>>

AuthorityKey(denom) == GetDenomPrefixStore(denom) \o <<Authority>>

IndexKey(creator, denom) == GetCreatorPrefix(creator) \o denom

BeginsWith(key, prefix) ==
  /\ Len(prefix) <= Len(key)
  /\ \A i \in DOMAIN prefix : key[i] = prefix[i]

\* What a prefix store calls the key: the part after its prefix.
After(key, prefix) == SubSeq(key, Len(prefix) + 1, Len(key))

-----------------------------------------------------------------------------
(* Reads.                                                                   *)

Get(key) == IF key \in DOMAIN store THEN store[key] ELSE Absent

GetAuthorityMetadata(denom) == Get(AuthorityKey(denom))

\* The keys of the creator's store.
getDenomsFromCreator(creator) ==
  LET prefix == GetCreatorPrefix(creator) IN
  {After(key, prefix) : key \in {k \in DOMAIN store : BeginsWith(k, prefix)}}

\* The VALUES under all creators.
AllDenoms ==
  {store[key] : key \in {k \in DOMAIN store : BeginsWith(k, GetCreatorsPrefix)}}

-----------------------------------------------------------------------------
(* Writes.                                                                  *)

Set(key, value) ==
  store' = [k \in DOMAIN store \cup {key} |-> IF k = key THEN value ELSE store[k]]

addDenomFromCreator(creator, denom) ==
  /\ Set(IndexKey(creator, denom), denom)
  /\ added' = added \cup {<<creator, denom>>}
  /\ UNCHANGED records

setAuthorityMetadata(denom, admin) ==
  /\ Set(AuthorityKey(denom), admin)
  /\ records' = {r \in records : r[1] # denom} \cup {<<denom, admin>>}
  /\ UNCHANGED added

Init == store = <<>> /\ added = {} /\ records = {}

Next ==
  \/ \E creator \in Creators, denom \in DenomNames : addDenomFromCreator(creator, denom)
  \/ \E denom \in DenomNames, admin \in Admins : setAuthorityMetadata(denom, admin)

Spec == Init /\ [][Next]_vars

-----------------------------------------------------------------------------
(* Properties.                                                              *)

\* DenomsFromCreator answers with the denoms added under the string it is
\* asked for, whatever that string is: no creator's range of keys reaches into
\* another's, or into the records (creators.go:12, grpc_query.go:31).
CreatorQueriesExact ==
  \A str \in Creators \cup Queries :
    getDenomsFromCreator(str) = {pair[2] : pair \in {p \in added : p[1] = str}}

\* DenomAuthorityMetadata answers with the last record set for the denom, and
\* with none for any other string (admins.go:11).
RecordQueriesExact ==
  \A str \in DenomNames \cup Queries :
    LET of == {r \in records : r[1] = str} IN
    IF of = {} THEN GetAuthorityMetadata(str) = Absent
    ELSE \A r \in of : GetAuthorityMetadata(str) = r[2]

\* The export finds every denom that was added and nothing else: no record is
\* taken for an index entry (creators.go:25, genesis.go:38-41).
ExportSeesAllDenoms == AllDenoms = {pair[2] : pair \in added}
=============================================================================
