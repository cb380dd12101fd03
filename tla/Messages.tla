------------------------------ MODULE Messages ------------------------------
(***************************************************************************)
(* The messages of x/tokenfactory and what ValidateBasic asks of each,     *)
(* over the accounts, strings and denoms of the application.               *)
(***************************************************************************)
EXTENDS Bank, Bech32, Functions

CONSTANTS
  Users,               \* accounts somebody holds the key of
  TokenFactoryModule,  \* the module account of x/tokenfactory
  DistributionModule,  \* the module account that backs the community pool
  NativeDenoms,        \* denoms other than those of x/tokenfactory
  Senders,             \* bound: the sender strings of the messages users submit
  Creators,            \* bound: the senders that create denoms
  Subdenoms,           \* the subdenoms users ask for ...
  ValidSubdenoms,      \* ... and those GetTokenDenom accepts
  Amounts,             \* the amounts users put in messages
  Fees,                \* the denom creation fees governance may set
  CustomMetadata,      \* bank metadata that passes Metadata.Validate
  MinimalMetadata,     \* what CreateDenom writes; it does not pass Validate
  NoMetadata,          \* the bank has no metadata for the denom
  NoRecord,            \* no authority metadata stored for the denom
  GenesisDenoms,       \* denoms the chain's first genesis may list
  GenesisBalances,     \* bank genesis: the balances the chain may start with
  GenesisMetadata      \* bank genesis: the denom metadata it may start with

ModuleAccounts == {TokenFactoryModule, DistributionModule}

\* factory/{creator}/{subdenom}, as the pair of its creator string and subdenom.
FactoryDenoms == (Creators \cap AddrStrings) \X ValidSubdenoms
Denoms        == FactoryDenoms \cup NativeDenoms
Strings       == AddrStrings \cup {Empty, Garbage}
Metadata      == CustomMetadata \cup {MinimalMetadata}

ASSUME ConstantsAssumption ==
  /\ Users \subseteq Accounts
  /\ ModuleAccounts \subseteq Accounts \ Users
  /\ TokenFactoryModule # DistributionModule
  /\ Creators \subseteq Senders
  /\ Senders \subseteq Strings
  /\ ValidSubdenoms \subseteq Subdenoms
  /\ FactoryDenoms \cap NativeDenoms = {}
  /\ Amounts \subseteq Amount
  /\ Fees \subseteq [NativeDenoms -> Amount]
  /\ NoMetadata \notin Metadata
  /\ MinimalMetadata \notin CustomMetadata
  /\ NoRecord \notin Strings

ASSUME GenesisAssumption ==
  /\ GenesisDenoms \subseteq FactoryDenoms
  /\ GenesisBalances \subseteq [Denoms -> [Accounts -> Amount]]
  /\ \A purses \in GenesisBalances, d \in Denoms :
       FoldFunction(+, 0, purses[d]) \in Amount
  /\ GenesisMetadata \subseteq [Denoms -> CustomMetadata \cup {NoMetadata}]

\* The bank's blocked recipients: simapp blocks every module account.
Blocked(a) == a \in ModuleAccounts

-----------------------------------------------------------------------------
(* Messages.  Any field may hold any string or denom of the model: whether  *)
(* a message is well formed is what ValidateBasic and the handlers decide.  *)

CreateDenomMsgs == [type : {"create_denom"}, sender : Creators, subdenom : Subdenoms]
MintMsgs        == [type : {"mint"}, sender : Senders, denom : Denoms,
                    amount : Amounts, to : Strings]
BurnMsgs        == [type : {"burn"}, sender : Senders, denom : Denoms,
                    amount : Amounts, from : Strings]
ForceTransferMsgs == [type : {"force_transfer"}, sender : Senders, denom : Denoms,
                      amount : Amounts, from : Strings, to : Strings]
ChangeAdminMsgs == [type : {"change_admin"}, sender : Senders, denom : Denoms,
                    newAdmin : Strings]
SetDenomMetadataMsgs == [type : {"set_denom_metadata"}, sender : Senders,
                         denom : Denoms, metadata : Metadata]
BankSendMsgs    == [type : {"bank_send"}, sender : Senders, denom : Denoms,
                    amount : Amounts, to : Strings]
Governance      == [type |-> "governance"]
Upgrade         == [type |-> "upgrade"]

Messages == CreateDenomMsgs \cup MintMsgs \cup BurnMsgs \cup ForceTransferMsgs
              \cup ChangeAdminMsgs \cup SetDenomMetadataMsgs \cup BankSendMsgs

\* A transaction is signed by the account its message's sender decodes to.
Signed(m) == IsAddress(m.sender) /\ AccOf[m.sender] \in Users

-----------------------------------------------------------------------------
(* ValidateBasic: what a message must satisfy before its handler runs.      *)

\* err == nil of DeconstructDenom.
IsFactoryDenom(d) == d \in FactoryDenoms

ValidCreateDenom(m) == IsAddress(m.sender) /\ m.subdenom \in ValidSubdenoms

\* Neither MintToAddress nor BurnFromAddress is looked at.
ValidMint(m) == IsAddress(m.sender) /\ m.amount > 0
ValidBurn(m) == IsAddress(m.sender) /\ m.amount > 0

\* A forced transfer of zero coins passes.
ValidForceTransfer(m) == IsAddress(m.sender) /\ IsAddress(m.from) /\ IsAddress(m.to)

\* The empty new admin does not pass, although the keeper would store it.
ValidChangeAdmin(m) ==
  IsAddress(m.sender) /\ IsAddress(m.newAdmin) /\ IsFactoryDenom(m.denom)

ValidSetDenomMetadata(m) ==
  IsAddress(m.sender) /\ m.metadata \in CustomMetadata /\ IsFactoryDenom(m.denom)

-----------------------------------------------------------------------------
(* What handlers and the bank derive from a message.                        *)

OrSender(str, m) == IF str = Empty THEN m.sender ELSE str

\* DenomAuthorityMetadata.Validate, which setAuthorityMetadata calls.
ValidAdmin(str) == str = Empty \/ IsAddress(str)

=============================================================================
