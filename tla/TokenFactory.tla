---------------------------- MODULE TokenFactory ----------------------------
(***************************************************************************)
(* The x/tokenfactory module: its message server, keeper and genesis, over *)
(* the bank, distribution and params modules it calls.                     *)
(*                                                                         *)
(* A step is one transaction with one message, one bank transfer of a user *)
(* (the bank module's own message), one governance parameter change, or a  *)
(* restart of the chain from its exported genesis.  A transaction that     *)
(* fails is rolled back by the SDK, so a message either passes ValidateBasic *)
(* and every check of its handler and takes its whole effect, or leaves    *)
(* everything as it was.                                                   *)
(***************************************************************************)
EXTENDS Messages

VARIABLES
  balances,       \* bank: the holdings of each denom
  supply,         \* bank: the recorded supply of each denom
  denomMetadata,  \* bank: the metadata of each denom
  communityPool,  \* distribution: the community pool's share of its account
  creationFee,    \* params: DenomCreationFee
  authority,      \* x/tokenfactory: the admin string of each denom
  creators,       \* x/tokenfactory: the <<creator string, denom>> index
  tx              \* the last transaction, with its result; read by no action

state == <<balances, supply, denomMetadata, communityPool, creationFee,
           authority, creators>>
vars  == <<state, tx>>

Done(m)   == tx' = [msg |-> m, code |-> "ok"]
Failed(m) == tx' = [msg |-> m, code |-> "error"]

-----------------------------------------------------------------------------
(* Reading the stores.                                                      *)

\* GetAuthorityMetadata: a denom without a record reads as one with admin "".
Admin(d) == IF authority[d] = NoRecord THEN Empty ELSE authority[d]

HasMetadata(d) == denomMetadata[d] # NoMetadata

\* The bank deletes the supply of a denom that falls to zero.
HasSupply(d) == d \in NativeDenoms /\ supply[d] > 0

-----------------------------------------------------------------------------
(* CreateDenom: validateCreateDenom, chargeForCreateDenom, then             *)
(* createDenomAfterValidation, which genesis shares.                        *)

\* FundCommunityPool fails unless the payer holds every coin of the fee.
CanPayFee(payer) ==
  \A n \in NativeDenoms :
    CanSend(balances[n], payer, DistributionModule, creationFee[n])

\* Mutant: the fee goes to the account without the community pool recording it.
chargeWithoutPool(payer) ==
  /\ balances' = [d \in Denoms |->
                    IF d \in NativeDenoms
                    THEN Send(balances[d], payer, DistributionModule, creationFee[d])
                    ELSE balances[d]]
  /\ UNCHANGED communityPool

\* Mutant: the fee is charged when validating and again when creating.
chargeTwice(payer) ==
  /\ balances' = [d \in Denoms |->
                    IF d \in NativeDenoms
                    THEN Send(balances[d], payer, DistributionModule, 2 * creationFee[d])
                    ELSE balances[d]]
  /\ communityPool' = [n \in NativeDenoms |-> communityPool[n] + 2 * creationFee[n]]

chargeForCreateDenom(payer) ==
  /\ balances' = [d \in Denoms |->
                    IF d \in NativeDenoms
                    THEN Send(balances[d], payer, DistributionModule, creationFee[d])
                    ELSE balances[d]]
  /\ communityPool' = [n \in NativeDenoms |-> communityPool[n] + creationFee[n]]

\* Mutant: a denom is taken to exist when it has supply.
validateBySupply(m) ==
  /\ m.subdenom \in ValidSubdenoms
  /\ supply[<<m.sender, m.subdenom>>] = 0

validateCreateDenom(m) ==
  /\ ~HasSupply(m.subdenom)
  /\ m.subdenom \in ValidSubdenoms
  /\ ~HasMetadata(<<m.sender, m.subdenom>>)

\* Mutant: creation relies on the admin to set the metadata later.
LeaveMetadata(metadata, denoms) == metadata

\* The bank metadata after createDenomAfterValidation on each of the denoms.
WithMetadata(metadata, denoms) ==
  [d \in Denoms |-> IF d \in denoms /\ metadata[d] = NoMetadata
                    THEN MinimalMetadata ELSE metadata[d]]

CreateDenomOk(m) ==
  /\ Signed(m) /\ ValidCreateDenom(m)
  /\ validateCreateDenom(m)
  /\ CanPayFee(AccOf[m.sender])

CreateDenom(m) ==
  LET denom == <<m.sender, m.subdenom>> IN
  /\ CreateDenomOk(m)
  /\ chargeForCreateDenom(AccOf[m.sender])
  /\ denomMetadata' = WithMetadata(denomMetadata, {denom})
  /\ authority' = [authority EXCEPT ![denom] = m.sender]
  /\ creators' = creators \cup {<<m.sender, denom>>}
  /\ Done(m)
  /\ UNCHANGED <<supply, creationFee>>

-----------------------------------------------------------------------------
(* The admin's messages.  Each handler compares the sender's string with    *)
(* the stored admin string.                                                 *)

\* Mutant: the creator keeps the admin's rights.
IsCreator(m) == IsFactoryDenom(m.denom) /\ m.sender = m.denom[1]

IsAdmin(m) == m.sender = Admin(m.denom)

\* The holdings of a denom after the keeper's three bank actions on it.
mintTo(purse, n, to) ==
  Send(Credit(purse, TokenFactoryModule, n), TokenFactoryModule, to, n)

\* Mutant: the coins are collected, and taken off the supply, but not burnt.
collectFrom(purse, n, from) == Send(purse, from, TokenFactoryModule, n)

burnFrom(purse, n, from) ==
  Debit(Send(purse, from, TokenFactoryModule, n), TokenFactoryModule, n)

forceTransfer(purse, n, from, to) == Send(purse, from, to, n)

MintOk(m) ==
  LET to     == OrSender(m.to, m)
      minted == Credit(balances[m.denom], TokenFactoryModule, m.amount)
  IN
  /\ Signed(m) /\ ValidMint(m)
  /\ HasMetadata(m.denom)
  /\ IsAdmin(m)
  /\ IsFactoryDenom(m.denom)
  /\ CanMintCoins(balances[m.denom], supply[m.denom], TokenFactoryModule, m.amount)
  /\ IsAddress(to)
  /\ ~Blocked(AccOf[to])
  /\ CanSend(minted, TokenFactoryModule, AccOf[to], m.amount)

Mint(m) ==
  /\ MintOk(m)
  /\ balances' = [balances EXCEPT ![m.denom] =
                    mintTo(@, m.amount, AccOf[OrSender(m.to, m)])]
  /\ supply' = [supply EXCEPT ![m.denom] = @ + m.amount]
  /\ Done(m)
  /\ UNCHANGED <<denomMetadata, communityPool, creationFee, authority, creators>>

\* The handler looks up the account whose address is the CHARACTERS of the
\* string, sdk.AccAddress(msg.BurnFromAddress), not the address it spells.
IsModuleAccount(str) == str \in ModuleAccounts

\* Mutant: the coins are to be burnt before they are collected.
BurnBeforeCollecting(m) ==
  LET from == OrSender(m.from, m) IN
  /\ Signed(m) /\ ValidBurn(m)
  /\ IsAdmin(m)
  /\ ~IsModuleAccount(from)
  /\ IsFactoryDenom(m.denom)
  /\ IsAddress(from)
  /\ CanBurnCoins(balances[m.denom], supply[m.denom], TokenFactoryModule, m.amount)
  /\ CanSend(balances[m.denom], AccOf[from], TokenFactoryModule, m.amount)

BurnOk(m) ==
  LET from   == OrSender(m.from, m)
      pooled == Send(balances[m.denom], AccOf[from], TokenFactoryModule, m.amount)
  IN
  /\ Signed(m) /\ ValidBurn(m)
  /\ IsAdmin(m)
  /\ ~IsModuleAccount(from)
  /\ IsFactoryDenom(m.denom)
  /\ IsAddress(from)
  /\ CanSend(balances[m.denom], AccOf[from], TokenFactoryModule, m.amount)
  /\ CanBurnCoins(pooled, supply[m.denom], TokenFactoryModule, m.amount)

Burn(m) ==
  /\ BurnOk(m)
  /\ balances' = [balances EXCEPT ![m.denom] =
                    burnFrom(@, m.amount, AccOf[OrSender(m.from, m)])]
  /\ supply' = [supply EXCEPT ![m.denom] = @ - m.amount]
  /\ Done(m)
  /\ UNCHANGED <<denomMetadata, communityPool, creationFee, authority, creators>>

\* Mutant: the handler forgets to compare the sender with the admin.
ForceTransferByAnyone(m) ==
  /\ Signed(m) /\ ValidForceTransfer(m)
  /\ IsFactoryDenom(m.denom)
  /\ CanSend(balances[m.denom], AccOf[m.from], AccOf[m.to], m.amount)

ForceTransferOk(m) ==
  /\ Signed(m) /\ ValidForceTransfer(m)
  /\ IsAdmin(m)
  /\ IsFactoryDenom(m.denom)
  /\ CanSend(balances[m.denom], AccOf[m.from], AccOf[m.to], m.amount)

ForceTransfer(m) ==
  /\ ForceTransferOk(m)
  /\ balances' = [balances EXCEPT ![m.denom] =
                    forceTransfer(@, m.amount, AccOf[m.from], AccOf[m.to])]
  /\ Done(m)
  /\ UNCHANGED <<supply, denomMetadata, communityPool, creationFee, authority, creators>>

ChangeAdminOk(m) ==
  /\ Signed(m) /\ ValidChangeAdmin(m)
  /\ IsAdmin(m)
  /\ ValidAdmin(m.newAdmin)

ChangeAdmin(m) ==
  /\ ChangeAdminOk(m)
  /\ authority' = [authority EXCEPT ![m.denom] = m.newAdmin]
  /\ Done(m)
  /\ UNCHANGED <<balances, supply, denomMetadata, communityPool, creationFee, creators>>

SetDenomMetadataOk(m) ==
  /\ Signed(m) /\ ValidSetDenomMetadata(m)
  /\ m.metadata \in CustomMetadata
  /\ IsAdmin(m)

SetDenomMetadata(m) ==
  /\ SetDenomMetadataOk(m)
  /\ denomMetadata' = [denomMetadata EXCEPT ![m.denom] = m.metadata]
  /\ Done(m)
  /\ UNCHANGED <<balances, supply, communityPool, creationFee, authority, creators>>

-----------------------------------------------------------------------------
(* The rest of the chain.                                                   *)

\* The bank module's MsgSend, which refuses blocked recipients.
BankSendOk(m) ==
  /\ Signed(m) /\ IsAddress(m.to) /\ m.amount > 0
  /\ ~Blocked(AccOf[m.to])
  /\ CanSend(balances[m.denom], AccOf[m.sender], AccOf[m.to], m.amount)

BankSend(m) ==
  /\ BankSendOk(m)
  /\ balances' = [balances EXCEPT ![m.denom] =
                    Send(@, AccOf[m.sender], AccOf[m.to], m.amount)]
  /\ Done(m)
  /\ UNCHANGED <<supply, denomMetadata, communityPool, creationFee, authority, creators>>

\* A governance proposal changes DenomCreationFee.
SetParams(fee) ==
  /\ creationFee' = fee
  /\ Done(Governance)
  /\ UNCHANGED <<balances, supply, denomMetadata, communityPool, authority, creators>>

\* A transaction that any check refuses: the SDK discards what it wrote.
Reject ==
  /\ \/ \E m \in CreateDenomMsgs      : ~CreateDenomOk(m) /\ Failed(m)
     \/ \E m \in MintMsgs             : ~MintOk(m) /\ Failed(m)
     \/ \E m \in BurnMsgs             : ~BurnOk(m) /\ Failed(m)
     \/ \E m \in ForceTransferMsgs    : ~ForceTransferOk(m) /\ Failed(m)
     \/ \E m \in ChangeAdminMsgs      : ~ChangeAdminOk(m) /\ Failed(m)
     \/ \E m \in SetDenomMetadataMsgs : ~SetDenomMetadataOk(m) /\ Failed(m)
     \/ \E m \in BankSendMsgs         : ~BankSendOk(m) /\ Failed(m)
  /\ UNCHANGED state

-----------------------------------------------------------------------------
(* Genesis.  A genesis lists denoms with their admins: a function from a    *)
(* set of denoms to admin strings.  The bank and distribution modules carry *)
(* their own state over.                                                    *)

\* The creators prefix store lists every denom; duplicates under different
\* creator strings would be listed, and imported, twice to the same effect.
ExportGenesis == [d \in {entry[2] : entry \in creators} |-> Admin(d)]

\* Mutant: the import indexes a denom under its admin.
AdminsAsCreators(gs) == {<<gs[d], d>> : d \in DOMAIN gs}

\* The creator is the one DeconstructDenom returns, which is canonical.
GenesisCreators(gs) == {<<Canonical(d[1]), d>> : d \in DOMAIN gs}

\* Mutant: the import leaves the creator as the admin.
CreatorIsAdmin(gs) ==
  [d \in Denoms |-> IF d \in DOMAIN gs THEN Canonical(d[1]) ELSE NoRecord]

GenesisAuthority(gs) ==
  [d \in Denoms |-> IF d \in DOMAIN gs THEN gs[d] ELSE NoRecord]

\* The chain stops, its state is exported, and a new chain starts from it
\* with an empty x/tokenfactory store.
Restart ==
  /\ authority' = GenesisAuthority(ExportGenesis)
  /\ creators' = GenesisCreators(ExportGenesis)
  /\ denomMetadata' = WithMetadata(denomMetadata, DOMAIN ExportGenesis)
  /\ Done(Upgrade)
  /\ UNCHANGED <<balances, supply, communityPool, creationFee>>

\* The first genesis: the bank's part, then x/tokenfactory's InitGenesis on
\* any listed denoms, each with any admin that GenesisState.Validate accepts.
InitGenesis(gs, metadata) ==
  /\ authority = GenesisAuthority(gs)
  /\ creators = GenesisCreators(gs)
  /\ denomMetadata = WithMetadata(metadata, DOMAIN gs)

\* Every chain of this module exports a genesis of this kind: the bank's part
\* gives out coins of a factory denom only if x/tokenfactory's part lists it.
CoinsAreListed(listed) == \A d \in FactoryDenoms \ listed : supply[d] = 0

Init ==
  /\ balances \in GenesisBalances
  /\ supply = [d \in Denoms |-> FoldFunction(+, 0, balances[d])]
  /\ communityPool = [n \in NativeDenoms |-> balances[n][DistributionModule]]
  /\ creationFee \in Fees
  /\ \E listed \in SUBSET GenesisDenoms, metadata \in GenesisMetadata :
       /\ CoinsAreListed(listed)
       /\ \E gs \in [listed -> {str \in Strings : ValidAdmin(str)}] :
            InitGenesis(gs, metadata)
  /\ tx = [msg |-> Upgrade, code |-> "ok"]

Next ==
  \/ \E m \in CreateDenomMsgs      : CreateDenom(m)
  \/ \E m \in MintMsgs             : Mint(m)
  \/ \E m \in BurnMsgs             : Burn(m)
  \/ \E m \in ForceTransferMsgs    : ForceTransfer(m)
  \/ \E m \in ChangeAdminMsgs      : ChangeAdmin(m)
  \/ \E m \in SetDenomMetadataMsgs : SetDenomMetadata(m)
  \/ \E m \in BankSendMsgs         : BankSend(m)
  \/ \E fee \in Fees               : SetParams(fee)
  \/ Reject
  \/ Restart

Spec == Init /\ [][Next]_vars

-----------------------------------------------------------------------------
(* Properties.                                                              *)

Succeeded(type) == tx'.code = "ok" /\ tx'.msg.type = type

\* The transaction of this step is one that a user signed.
UserTx == tx'.msg \notin {Governance, Upgrade}

\* Every variable holds a value of its kind: in particular no balance or
\* supply leaves the range of sdk.Int, and no admin is stored that
\* DenomAuthorityMetadata.Validate refuses.
TypeOK ==
  /\ balances \in [Denoms -> [Accounts -> Amount]]
  /\ supply \in [Denoms -> Amount]
  /\ denomMetadata \in [Denoms -> Metadata \cup {NoMetadata}]
  /\ communityPool \in [NativeDenoms -> Amount]
  /\ creationFee \in [NativeDenoms -> Amount]
  /\ authority \in [Denoms -> AddrStrings \cup {Empty, NoRecord}]
  /\ creators \subseteq AddrStrings \X FactoryDenoms
  /\ tx \in [msg : Messages \cup {Governance, Upgrade}, code : {"ok", "error"}]

\* The bank's recorded supply of a denom is what its accounts hold: minting,
\* burning and forced transfers create or lose no coins, also when the two
\* ends of a transfer are one account or the module's own (bankactions.go).
SupplyBacked ==
  \A d \in Denoms : supply[d] = FoldFunction(+, 0, balances[d])

\* A denom has an authority record exactly when the creators index lists it.
RecordsAreIndexed ==
  \A d \in Denoms : authority[d] # NoRecord <=> \E c \in AddrStrings : <<c, d>> \in creators

\* The index lists a denom once, under a string of the account its name carries.
IndexedOnceUnderCreator ==
  /\ \A e \in creators : AccOf[e[1]] = AccOf[e[2][1]]
  /\ \A e, f \in creators : e[2] = f[2] => e = f

\* A denom with a record has bank metadata.
RecordsHaveMetadata == \A d \in Denoms : authority[d] # NoRecord => HasMetadata(d)

\* The module's two stores and the bank's metadata agree, although they are
\* written in three places.  It is by the metadata alone that CreateDenom and
\* Mint know that a denom exists (createdenom.go:68, msg_server.go:49).
RegistryConsistent == RecordsAreIndexed /\ IndexedOnceUnderCreator /\ RecordsHaveMetadata

\* The distribution module's account holds what the community pool records:
\* the creation fee moves both, and no message takes native coins back out.
FeePoolBacked ==
  \A n \in NativeDenoms : balances[n][DistributionModule] = communityPool[n]

\* A denom is created at most once: a record is never removed, and a
\* CreateDenom that succeeds finds neither a record nor an index entry.
RegistersOnce ==
  /\ \A d \in Denoms : authority[d] # NoRecord => authority'[d] # NoRecord
  /\ Succeeded("create_denom") =>
       LET d == <<tx'.msg.sender, tx'.msg.subdenom>> IN
       /\ authority[d] = NoRecord
       /\ \A e \in creators : e[2] # d

CreatedOnce == [][RegistersOnce]_vars

\* What an admin controls changes only in a transaction that the admin's own
\* string signs: the admin, the supply and the bank metadata of a denom that
\* exists.  A denom whose admin is empty is therefore frozen for good.
AdminSigns ==
  \A d \in FactoryDenoms :
    /\ authority[d] # NoRecord
    /\ <<authority[d], supply[d], denomMetadata[d]>>
         # <<authority'[d], supply'[d], denomMetadata'[d]>>
    => UserTx /\ tx'.msg.sender = authority[d]

OnlyAdminActs == [][AdminSigns]_vars

\* An account's holdings shrink only in a transaction it signed itself or,
\* for a denom of the module, one signed by the denom's admin; nobody else
\* can take coins, and no admin can reach a denom that is not the module's.
HolderOrAdminSigns ==
  \A d \in Denoms, a \in Accounts :
    balances'[d][a] < balances[d][a] =>
      /\ UserTx
      /\ \/ AccOf[tx'.msg.sender] = a
         \/ d \in FactoryDenoms /\ tx'.msg.sender = authority[d]

NobodyElseTakes == [][HolderOrAdminSigns]_vars

\* The creation fee is charged exactly when a denom is created, in full, once,
\* and to the creator: no other step and no failed one moves the pool.
ChargesOnCreate ==
  \A n \in NativeDenoms :
    LET fee == IF Succeeded("create_denom") THEN creationFee[n] ELSE 0 IN
    /\ communityPool'[n] = communityPool[n] + fee
    /\ Succeeded("create_denom") =>
         LET creator == AccOf[tx'.msg.sender] IN
         balances'[n][creator] = balances[n][creator] - fee

FeeExactlyOnCreate == [][ChargesOnCreate]_vars

\* A restart from the exported genesis loses nothing: every denom keeps its
\* admin, the empty one included, and stays listed under its creator's account.
KeepsRegistry ==
  tx'.msg = Upgrade =>
    /\ authority' = authority
    /\ denomMetadata' = denomMetadata
    /\ {<<AccOf[e[1]], e[2]>> : e \in creators'} = {<<AccOf[e[1]], e[2]>> : e \in creators}

RestartPreserves == [][KeepsRegistry]_vars

\* The admin of a denom is not refused what the checks on the message allow:
\* a burn of coins a user holds, down to the last one, a forced transfer of
\* coins the sender has to a user, a new admin.  The limits inside the bank
\* (supply below the amount, overflow of the recipient or of the module
\* account in the middle) never get in the way.
ServesAdmin ==
  tx'.code = "error" /\ UserTx /\ Signed(tx'.msg) =>
    LET m == tx'.msg
        IsUser(str) == IsAddress(str) /\ AccOf[str] \in Users
        Holds(str)  == balances[m.denom][AccOf[str]] >= m.amount
    IN
    /\ m.type = "burn" /\ m.sender = authority[m.denom] =>
         ~(m.amount > 0 /\ IsUser(OrSender(m.from, m)) /\ Holds(OrSender(m.from, m)))
    /\ m.type = "force_transfer" /\ m.sender = authority[m.denom] =>
         ~(IsAddress(m.from) /\ Holds(m.from) /\ IsUser(m.to))
    /\ m.type = "change_admin" /\ m.sender = authority[m.denom] =>
         ~IsAddress(m.newAdmin)

AdminIsServed == [][ServesAdmin]_vars

-----------------------------------------------------------------------------
(* What the repository says of the module and its code does not do.         *)

\* "burning from Module Account is not allowed" (types/errors.go:22), and the
\* test "fail case - burn from module account" (keeper/admins_test.go:221):
\* the check in Burn converts the address string instead of decoding it.
NoBurnFromModuleAccount ==
  [][ Succeeded("burn") =>
        AccOf[OrSender(tx'.msg.from, tx'.msg)] \notin ModuleAccounts ]_vars

\* ChangeAdmin "allows changing the master admin account, or even setting it
\* to """ (README.md:16-18): ValidateBasic refuses that message.
AdminCanRenounce ==
  [][ LET m == tx'.msg IN
      m.type = "change_admin" /\ m.sender = authority[m.denom] /\ m.newAdmin = Empty
        => tx'.code = "ok"
    ]_vars

-----------------------------------------------------------------------------
(* The ledger this module implements.  Its owners are accounts: the admin   *)
(* string of a denom names one, or nobody.                                  *)

ASSUME OwnersAssumption == {"unissued", "nobody"} \cap Accounts = {}

OwnerOf(d) ==
  IF d \in NativeDenoms THEN "nobody"
  ELSE IF authority[d] = NoRecord THEN "unissued"
  ELSE IF authority[d] = Empty THEN "nobody" ELSE AccOf[authority[d]]

ActorOf(t) ==
  IF t.msg \in {Governance, Upgrade} \/ ~IsAddress(t.msg.sender)
  THEN "nobody" ELSE AccOf[t.msg.sender]

Ledger == INSTANCE TokenLedger WITH
            Factory <- FactoryDenoms, Native <- NativeDenoms,
            Pool <- DistributionModule, Prices <- Fees,
            Unissued <- "unissued", Nobody <- "nobody",
            owner <- [d \in Denoms |-> OwnerOf(d)], held <- balances,
            total <- supply, actor <- ActorOf(tx)

\* The module implements the ledger: seen through accounts, every step of it
\* is one the owner of the denom or the holder of the coins may take.
ImplementsLedger == Ledger!LSpec

=============================================================================
