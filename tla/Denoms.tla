------------------------------- MODULE Denoms -------------------------------
(***************************************************************************)
(* Denom names: types.GetTokenDenom builds factory/{creator}/{subdenom},   *)
(* types.DeconstructDenom takes a name apart.  TokenFactory treats a name  *)
(* as the pair of its creator and subdenom; here is why it may.            *)
(*                                                                         *)
(* A string is the sequence of the parts between its slashes, so that      *)
(* joining two strings with a slash is concatenation, and strings.Split is *)
(* the identity.  A part has a length and may hold characters that denoms  *)
(* do not allow.                                                           *)
(***************************************************************************)
EXTENDS Integers, Sequences, FiniteSets, Functions

CONSTANTS
  Parts,        \* texts without a slash
  PartLen,      \* their lengths
  Factory,      \* "factory", types.ModuleDenomPrefix
  Bech32Parts,  \* the parts that are bech32 addresses ...
  CanonicalOf,  \* ... and the string AccAddress.String gives for each
  BadParts,     \* parts with characters sdk.ValidateDenom refuses
  Creators,     \* bound: the creator strings that names are asked for
  Subdenoms     \* bound: the subdenom strings

MaxSubdenomLength == 44
MaxHrpLength      == 16
MaxCreatorLength  == 59 + MaxHrpLength
MaxDenomLength    == 128   \* of the SDK

ASSUME PartsAssumption ==
  /\ PartLen \in [Parts -> Nat]
  /\ Factory \in Parts /\ PartLen[Factory] = 7
  /\ Bech32Parts \subseteq Parts
  /\ CanonicalOf \in [Bech32Parts -> Bech32Parts]
  /\ BadParts \subseteq Parts /\ Factory \notin BadParts
  /\ Creators \subseteq Seq(Parts) \ {<<>>}
  /\ Subdenoms \subseteq Seq(Parts) \ {<<>>}

VARIABLES
  names,    \* the names built so far, with what they were built from
  refused   \* the requests that GetTokenDenom refused

-----------------------------------------------------------------------------

\* len(str): the parts and the slashes between them.
Length(str) == Len(str) - 1 + SumFunction([k \in DOMAIN str |-> PartLen[str[k]]])

HasSlash(str) == Len(str) > 1

\* err == nil of sdk.ValidateDenom: the length and the characters.  The first
\* character is a letter, for the names in question start with "factory".
ValidateDenom(str) ==
  /\ Length(str) \in 3 .. MaxDenomLength
  /\ \A i \in DOMAIN str : str[i] \notin BadParts

TokenDenom(creator, subdenom) == <<Factory>> \o creator \o subdenom

\* Mutant: the creator may hold a slash.
AcceptsSlash(creator, subdenom) ==
  /\ Length(subdenom) <= MaxSubdenomLength
  /\ Length(creator) <= MaxCreatorLength
  /\ ValidateDenom(TokenDenom(creator, subdenom))

\* Mutant: a subdenom of the maximal length is refused.
AcceptsShorter(creator, subdenom) ==
  /\ Length(subdenom) < MaxSubdenomLength
  /\ Length(creator) <= MaxCreatorLength
  /\ ~HasSlash(creator)
  /\ ValidateDenom(TokenDenom(creator, subdenom))

\* err == nil of GetTokenDenom.
Accepts(creator, subdenom) ==
  /\ Length(subdenom) <= MaxSubdenomLength
  /\ Length(creator) <= MaxCreatorLength
  /\ ~HasSlash(creator)
  /\ ValidateDenom(TokenDenom(creator, subdenom))

\* Mutant: the subdenom ends at its first slash.
SubdenomOfThird(denom) == <<denom[3]>>

SubdenomOf(denom) == SubSeq(denom, 3, Len(denom))

\* err == nil of DeconstructDenom, and what it returns.
IsTokenDenom(denom) ==
  /\ ValidateDenom(denom)
  /\ Len(denom) >= 3
  /\ denom[1] = Factory
  /\ denom[2] \in Bech32Parts

DeconstructDenom(denom) ==
  [creator |-> <<CanonicalOf[denom[2]]>>, subdenom |-> SubdenomOf(denom)]

-----------------------------------------------------------------------------
(* Two names are asked for, one after the other.                            *)

Init == names = {} /\ refused = {}

MaxNames == 2

Build(creator, subdenom) ==
  /\ Cardinality(names) < MaxNames /\ refused = {}
  /\ Accepts(creator, subdenom)
  /\ names' = names \cup {[creator |-> creator, subdenom |-> subdenom,
                           denom |-> TokenDenom(creator, subdenom)]}
  /\ UNCHANGED refused

Refuse(creator, subdenom) ==
  /\ names = {} /\ refused = {}
  /\ ~Accepts(creator, subdenom)
  /\ refused' = {[creator |-> creator, subdenom |-> subdenom]}
  /\ UNCHANGED names

Next == \E creator \in Creators, subdenom \in Subdenoms :
          Build(creator, subdenom) \/ Refuse(creator, subdenom)

Spec == Init /\ [][Next]_<<names, refused>>

-----------------------------------------------------------------------------
(* Properties.                                                              *)

\* A name determines the creator and the subdenom it was built from, slashes
\* in subdenoms notwithstanding: no two requests collide (GetTokenDenom).
NamesDoNotCollide ==
  \A x, y \in names : x.denom = y.denom => x = y

\* DeconstructDenom inverts GetTokenDenom for creators that are addresses, up
\* to the spelling of the address, and refuses every other name.
DeconstructInverts ==
  \A x \in names :
    IF x.creator[1] \in Bech32Parts
    THEN /\ IsTokenDenom(x.denom)
         /\ DeconstructDenom(x.denom)
              = [creator |-> <<CanonicalOf[x.creator[1]]>>, subdenom |-> x.subdenom]
    ELSE ~IsTokenDenom(x.denom)

\* The limits on creator and subdenom are exactly what the SDK's limit on
\* denoms leaves room for (types/denoms.go:12-18): a request within them is
\* refused for its characters only, and the longest name has 128 characters.
LimitsFit ==
  /\ \A r \in refused :
       \/ Length(r.creator) > MaxCreatorLength
       \/ Length(r.subdenom) > MaxSubdenomLength
       \/ HasSlash(r.creator)
       \/ \E i \in DOMAIN r.creator : r.creator[i] \in BadParts
       \/ \E i \in DOMAIN r.subdenom : r.subdenom[i] \in BadParts
  /\ \A x \in names : Length(x.denom) <= MaxDenomLength
=============================================================================
