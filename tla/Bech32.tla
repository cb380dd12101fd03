------------------------------- MODULE Bech32 -------------------------------
(***************************************************************************)
(* Address strings, as the module uses them through the Cosmos SDK.        *)
(*                                                                         *)
(* Every address field of a message, the admin of a denom and the creator  *)
(* part of a denom name is a bech32 STRING; accounts are the byte strings  *)
(* they decode to.  A bech32 string may be written in lower case or in     *)
(* upper case, so several strings decode to one account, while             *)
(* AccAddress.String() always writes the lower-case one.  The code         *)
(* compares strings in some places and accounts in others, so the model    *)
(* keeps the two apart.                                                    *)
(***************************************************************************)

EXTENDS FiniteSets

CONSTANTS
  Accounts,     \* accounts: the byte strings addresses decode to
  AddrStrings,  \* the well-formed bech32 strings
  AccOf,        \* sdk.AccAddressFromBech32 on them
  StringOf,     \* sdk.AccAddress.String
  Empty,        \* the empty string
  Garbage       \* a non-empty string that is no bech32 address

\* What the SDK guarantees.  The last conjunct is about the conversion
\* sdk.AccAddress(str), which takes the characters of str as address bytes
\* instead of decoding them: no account of the model has such an address.
ASSUME AddressAssumption ==
  /\ AccOf \in [AddrStrings -> Accounts]
  /\ StringOf \in [Accounts -> AddrStrings]
  /\ \A a \in Accounts : AccOf[StringOf[a]] = a
  /\ Empty \notin AddrStrings
  /\ Garbage \notin AddrStrings
  /\ Garbage # Empty
  /\ Accounts \cap AddrStrings = {}

\* An address has at most 255 bytes (address.MaxAddrLen of the SDK).
ASSUME AccountsAssumption == IsFiniteSet(Accounts)

\* err == nil of sdk.AccAddressFromBech32.
IsAddress(str) == str \in AddrStrings

\* The string AccAddress.String() gives for the account str names.
Canonical(str) == StringOf[AccOf[str]]

=============================================================================
