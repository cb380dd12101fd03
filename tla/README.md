# x/tokenfactory in TLA+

This directory specifies the Cosmos SDK module `x/tokenfactory` of this
repository, model-checks the specification with TLC and proves its main
invariants with TLAPS. Paths such as `keeper/genesis.go:24` are relative to
`src/`. The SDK the code is built on is v0.45.16.

## 1. The system

`x/tokenfactory` lets every account create denoms named
`factory/{creator}/{subdenom}`. A denom has one admin, at first its creator,
who mints it, burns it from any account, moves it between any two accounts,
sets its bank metadata, and hands the role over. The module runs inside an
application (`simapp`) that delivers transactions one after the other, each of
them all or nothing; nothing in it runs concurrently, and it keeps no state
outside the application's versioned stores.

| component | state | operations | talks to |
|---|---|---|---|
| message server `keeper/msg_server.go` | none of its own | `CreateDenom`, `Mint`, `Burn`, `ForceTransfer`, `ChangeAdmin`, `SetDenomMetadata` | keeper, bank metadata |
| keeper `keeper/*.go` | admin record of each denom; index of denoms by creator | `createDenomAfterValidation`, `setAuthorityMetadata`, `addDenomFromCreator`, `mintTo`, `burnFrom`, `forceTransfer` | bank, distribution, params, auth keepers |
| genesis `keeper/genesis.go`, `types/genesis.go` | a list of denoms with their admins | `InitGenesis`, `ExportGenesis`, `Validate` | keeper, bank metadata |
| stateless checks `types/msgs.go` | – | `ValidateBasic`, `GetSigners` | names, addresses |
| names `types/denoms.go` | – | `GetTokenDenom`, `DeconstructDenom` | `sdk.ValidateDenom` |
| parameters `types/params.go` | `DenomCreationFee`, `DenomCreationGasConsume` | `SetParams` by governance | params keeper |
| bank keeper (SDK) | holdings, supply, denom metadata | send, mint, burn, metadata | – |
| community pool (SDK) | the pool, and the distribution account behind it | `FundCommunityPool` | bank |
| addresses (SDK) | – | decode and spell bech32 strings | – |
| application `simapp/app.go`, `export.go` | module accounts, blocked addresses | delivery, `InitChainer`, export | all of them |
| simulation `simulation/sim_msgs.go` | – | generators of random messages | keeper's stores |
| queries `keeper/grpc_query.go` | – | read-only | keeper's stores |
| commands `client/cli`, gateway `types/query.pb.gw.go` | – | four commands that send messages, two that query, three paths | message server, queries |
| codec `types/*.pb.go` | – | `Marshal`, `Size`, `Unmarshal` of every type | all that is sent or stored |
| genesis tools `simapp/simd/cmd/testnet.go`, `genaccounts.go` | files in an output directory | `InitTestnet`, `AddGenesisAccountCmd` | genutil, file system |

Hard to get right, and where the properties aim:

* **One fact in three places.** A denom exists in the admin records, in the
  creators index and in the bank's metadata; the code decides whether it exists
  by the last one only (`createdenom.go:68`, `msg_server.go:49`).
* **Strings and accounts.** Admins, creators and senders are compared as
  strings, balances belong to accounts, and an address has a lower-case and an
  upper-case spelling. `AccAddress.String()` writes the lower-case one.
* **The module account in the middle.** A mint goes module → recipient, a burn
  holder → module → nowhere, and recipient and holder may be the module itself.
* **Sequences.** Hand-overs of the admin role, changes of the fee, restarts from
  an exported genesis, in any order with everything else.
* **Failure of a later step.** The fee is moved before the denom is written,
  coins are minted before the recipient is decoded.
* **Limits.** The largest `sdk.Int`; the longest name.

* **Bytes from elsewhere.** A message is read from bytes another program wrote:
  lengths that wrap, fields of a later version, data that ends too early.
* **Programs around the chain.** A command and a path put denoms and addresses
  into words that the other end must take apart again; the testnet command runs
  over what earlier and failed runs left.

What makes each part correct: *bank actions* neither make nor lose coins and
take none without the holder's or the admin's signature; *records* agree, are
never removed and change only by the admin; *creation* happens once per name and
costs the fee once; *genesis* brings back what was exported; *names* determine
their parts; *the codec* reads what was written, refuses what it cannot read and
always returns; *commands* let a creator find its denoms; *genesis tools* leave
files a chain can start from; *the whole* is a ledger of owned denoms.

## 2. Modules

| module | models | kind |
|---|---|---|
| `Bech32` | address strings and the accounts they decode to | external, constants and helpers |
| `Bank` | one denom's holdings: send, mint, burn and when they fail | external, helpers |
| `Messages` | the messages, `ValidateBasic`, the constants of an application | helpers |
| `TokenFactory` | handlers, keeper, genesis, parameters, one message a step | the specification |
| `KeeperCalls` | the same, one keeper or store call a step | detailed specification |
| `TokenLedger` | what users are promised, over accounts alone | abstract specification |
| `Denoms` | `GetTokenDenom` and `DeconstructDenom` | algorithm and specification |
| `StoreKeys` | the keys of `types/keys.go` and the reads by key and by prefix | specification |
| `Simulation` | the generators of random messages, over the states of `TokenFactory` | operators |
| `Client` | the commands and the REST gateway, over `TokenFactory` | specification |
| `Wire` | varints, tags, lengths, `skip`, as the generated code writes and reads them | algorithms |
| `ProtoTypes` | the writers, sizes and readers' cases of every type | definitions |
| `Codec` | a message written, perhaps changed, and read field by field | specification |
| `Testnet` | the two commands that prepare genesis files | specification |
| `TokenFactoryProofs` | theorems about `TokenFactory`: records, admins, holdings, fee, restart, coins, that it implements `TokenLedger`; about `Simulation` and `Client` over it | proofs |
| `KeeperCallsProofs`, `DenomsProofs`, `StoreKeysProofs`, `TestnetProofs`, `CodecProofs` | theorems about the module in the name | proofs |
| `ProtoTypesProofs` | what the functions of `Wire` and `ProtoTypes` give for every input, for `CodecProofs` | lemmas |
| `RecursionProofs` | sums over finite sets, and functions defined by recursion to a smaller point, for the other proofs | lemmas |
| `MCInstance`, `MCTokenFactory`, `MCKeeperCalls`, `MCDenoms`, `MCStoreKeys`, `MCCodec`, `MCTestnet` | small instances for TLC | model checking |

`Messages` extends `Bank` and `Bech32`; `TokenFactory` and `KeeperCalls` extend
`Messages`; `Client` and `Simulation` extend `TokenFactory`, and
`MCTokenFactory` both of them; `Codec` extends `ProtoTypes`, and that `Wire`.
Three levels refine one another: `KeeperCalls` implements `TokenFactory` (`ImplementsTokenFactory`), and `TokenFactory` implements
`TokenLedger` with the mapping `OwnerOf`, `ActorOf` (`ImplementsLedger`).

```
TokenLedger   what users are promised: owners, supply, holdings by account
    ^  ImplementsLedger
TokenFactory  one message, one restart a step; stores, strings, module account
    ^  ImplementsTokenFactory
KeeperCalls   one call a step; transactions, branches, aborts, import by denom
```

`Denoms` and `StoreKeys` justify two abstractions of `TokenFactory`: that a pair
of creator and subdenom may stand for a name, and a function and a set of pairs
for the module's store.

### TokenFactory

State, and where the code keeps it:

| variable | code |
|---|---|
| `balances`, `supply`, `denomMetadata` | bank store, reached through `types.BankKeeper` |
| `communityPool` | distribution's `FeePool.CommunityPool` |
| `creationFee` | parameter `DenomCreationFee` |
| `authority` | `DenomAuthorityMetadata.Admin` under `denoms\|{denom}\|authoritymetadata`; `NoRecord` when the key is absent |
| `creators` | keys `creator\|{creator}\|{denom}` |
| `tx` | the last message and its result; no action reads it, the action properties do |

A step is a transaction with one message, a bank transfer by a user, a parameter
change, or a restart (`ExportGenesis` followed by `InitGenesis` on an empty
store). Each handler `X` has a guard `XOk`, the conjunction of its stateless
check and of every error return on its path in the order of the code, and an
action `X` with all of its writes. `Reject` is the transaction in which one of
these conditions fails; the SDK then discards what the message wrote, so the
state stays.

Choices worth knowing:

* A denom of the module is the pair of its creator string and subdenom. `Denoms`
  shows why the pair may stand for the name.
* `HasSupply` in `validateCreateDenom` is asked about the SUBDENOM, a native
  denom's name (`createdenom.go:58`). The native denom `stake` of the instances
  is also a subdenom users ask for, and a genesis without native coins makes the
  question come out the other way.
* `Burn` checks for module accounts on `sdk.AccAddress(msg.BurnFromAddress)`, a
  conversion of the characters of the string. `IsModuleAccount` is that test,
  and `AddressAssumption` says that no account of the model has such an address.
* Zero amounts are refused for mint and burn and accepted for forced transfers.
* `sdk.Int` panics above its largest value; a panic and an error both fail the
  transaction, so `CanSend` and `CanMintCoins` are one condition each.
* The first genesis lists any of `GenesisDenoms`, each with any admin that
  `GenesisState.Validate` accepts, on a bank with or without metadata for them.

### KeeperCalls

`stores` is what is committed, `cache` the branch a transaction or an import
works on, `pc` the next call and `msg` the message it belongs to. `Begin` takes a
message that has passed `ValidateBasic`; the calls of its handler follow in the
order of the code, each with its error condition; `Commit` writes the branch
back after one to `MaxMsgs` messages. `Fail` stands for an error of the next
call and for running out of gas before or in it (`DenomCreationGasConsume` is
charged at `ConsumeGas`), so it is enabled at every call. `Export` starts a
restart; `ImportDenom` and `ImportAdmin` are the two halves of the loop body of
`InitGenesis`, and a `Panic` in either makes the node begin the import anew. The
guards are those of the handlers' conditions in `TokenFactory`, evaluated on the
branch (`Branch`).

A transaction of two messages is two steps of `TokenFactory`. The auxiliary
variables `seen` and `shown` show the messages of a committed transaction one
by one (`handled` keeps the branch after each), before the next transaction
begins; nothing but `Show` and its guard in `Idle` looks at them.

### TokenLedger

Owners and holders are accounts. A denom is unissued, owned, or given up. In a
step, one actor creates an unissued denom, or issues, retires or moves coins of
a denom it owns, or hands the denom over, or moves its own coins. There are no
stores, strings, messages or module accounts. `ImplementsLedger` says that
`TokenFactory` does nothing else.

### Denoms

A string is the sequence of its parts between slashes; joining is concatenation
and splitting the identity. The state machine asks for up to two names and keeps
them, so the invariants compare pairs of names.

### StoreKeys

A string is a sequence of symbols: the words of the key scheme, the separator,
and pieces of names. Creators and denoms hold no separator, because neither a
bech32 string nor a name that `sdk.ValidateDenom` accepts can; a string a client
queries may. The history variables `added` and `records` are what `TokenFactory`
calls `creators` and `authority`.

### Simulation

Each generator `SimulateMsg...` is the set of the messages it may make in a
state, each with the account whose key signs; a set is empty where the code
returns an error because there is nothing to choose from. The random choices of
account, denom and amount are the set's elements. Delivery is not modelled: the
code leaves `Bankkeeper` out of the `OperationInput`, which
`GenAndDeliverTxWithRandFees` reads first of all, and `module.go:181-200`
registers no operation, so no generated message has ever been delivered. The
properties ask what would happen to one if it were. The weights are not modelled
either; `sim_msgs.go:47` asks for the mint weight where it means burn's, so a
weight given for mint leaves burn at zero. `SignedMessagesPass` only asks of
messages whose sender's key signs: after a hand-over, `sim_msgs.go:136` signs
the mint of the admin with the creator's key, although `sim_msgs.go:103` "uses
the denom's admin".

### Client

`ClientSpec` adds to the steps of `TokenFactory` those that a command takes and
the queries. A command reads nothing of the module's state, so that writing and
delivering its message is one step. `commanded` is the history of the denoms
created by command; `screen` shows what was run and what came of it, for the
properties. `Sender` is the canonical spelling of the account of `--from`,
whatever was typed; `ParseCoinNormalized` cuts a fraction off; a message that
`ValidateBasic` refuses is not sent. A path is the sequence of what stands
between its slashes, and the three patterns of the gateway are compared with it
segment by segment.

### Wire, ProtoTypes, Codec

Bytes are numbers, and an index is the number of bytes before it, as `iNdEx` is.
`ProtoTypes` has for each type its value with nothing set, `Marshal...` (the
pieces in the order in which `MarshalToSizedBuffer` writes them, from the end of
the buffer), `Size...`, and `...Cases`: for each field number, the wire type it
must have and what is read. Generated functions of one shape, such as the
readers' loops and the cases of strings, are one definition. `Coin` and
`Metadata` are the SDK's; the metadata has two of its fields. A varint's groups
are added with their weights where the code joins them by shifts and ors, and
what exceeds the word is cut off at the end, where the code's shifts lose it.

In `Codec`, a message is written; its bytes may be changed once (an unknown field
before or after, the message twice over, its end lost, one byte replaced by
others); it is then read, one field a step, embedded messages in a frame of
their own as the nested calls of `Unmarshal` are. A negative index is a panic.
Data has fewer than `MaxLength` bytes, here and after a change of the bytes,
because the length of a slice is an `int`.

### Testnet

`disk` is the output directory: for each node the key, gentx, genesis and peers;
`pc`, `i`, `made` and `appState` are the loops of `InitTestnet` and what it holds,
`n` and `startingIP` its flags.
A run starts over what is on the disk: node keys are kept, account keys made
anew, gentxs of the run's own nodes overwritten and those of other nodes left.
`FailAndRemove` stands for the errors at which the code removes the directory,
`FailAndLeave` for the others and for a killed process. `Refuse` is genutil's
refusal of a gentx whose account the genesis does not list. `getIP` counts up from
the starting address, known by its last byte, or gives every node the address of
the machine (`ExternalIP`) where the flag is empty; the other three bytes never
change.
`AddGenesisAccount` edits the genesis of one node between runs. Funding checks
and the peers of a node are genutil's, modelled as it does them.

## 3. Runs

All amounts are integers of a small range, `MaxInt` standing for 2^256 − 1, so
that every overflow check is met. `MCTokenFactory` has two users, the module's
account and the community pool's account.

| run | instance | shows |
|---|---|---|
| `ledger` | amounts 0..2, `MaxInt` 2, one subdenom plus `stake` and one that is too long, senders under both spellings of one address, words of commands with halves of coins, both users simulated | `TypeOK`, `SupplyBacked`, `FeePoolBacked`, `NobodyElseTakes`, `OnlyAdminActs`, `AdminIsServed`, `ImplementsLedger`, `SignedMessagesPass` |
| `registry` | both spellings of one address, a sender that is no address, two creators, genesis with or without the denom and its metadata, no amounts | `RegistryConsistent`, `CreatedOnce`, `FeeExactlyOnCreate`, `RestartPreserves`, `ListedToCreator` |
| `calls` | two messages a transaction, amount 1, `MaxInt` 2, two users, one factory denom | `ImplementsTokenFactory` |
| `imports` | both spellings of one address, admins handed over or emptied in the genesis, no amounts | `ExportValidates`, `ImplementsTokenFactory`, `ComesBack` |
| `store_keys` | two creators and two denoms that begin with one another, every query of up to three of six symbols | `CreatorQueriesExact`, `RecordQueriesExact`, `ExportSeesAllDenoms` |
| `denoms` | eleven parts with lengths around 44, 75 and 128, creators and subdenoms with slashes, two names | `NamesDoNotCollide`, `DeconstructInverts`, `LimitsFit` |
| `codec` | every type, strings of 0, 1 and 130 bytes, lists of 0 and 2 entries, unknown fields of all five wire types with a group in a group, messages up to 16 bytes cut at every place and damaged at every byte | `RoundTrip`, `UnknownIgnored`, `Merges`, `CutIsNoticed`, `InBounds`, `Returns` |
| `testnet` | two runs of one to three nodes, with a starting address from which addresses wrap or without one, one account added to two files, with and without vesting | `GenesisSound`, `OneGenesis`, `PeersComplete`, `RefusesOnlyLeftovers` |
| `burn_module`, `renounce`, `change_admin_cmd`, `rest_denom` | as `ledger` | each finds one statement of the repository violated |

Why the bounds are enough: handlers read and write one denom at a time and at
most three accounts, so one factory denom with four accounts shows every
aliasing of sender, recipient and module; two units of coin are enough for a
mint, a split, a burn and an overflow; the registry needs two spellings of one
account and one more account, and a second denom under each, for an index entry
to be taken for another's. `Senders`, `Creators`, `Amounts`, `Fees`, `Subdenoms`
and the `Genesis*` constants are the bounds on inputs; `MaxNames` is the bound
of `Denoms`, which stops when it is reached. `Codec` stops when its one message
is read or refused, and `Testnet` when its runs are used up; these three runs
are without the deadlock check. The instances compare states by `View`, which
leaves out `tx` and `screen` (and `shown`, which plays its part in
`KeeperCalls`): they record the last step and no action reads them. `MaxMsgs` is the bound on the
messages of a transaction; two let a failure of the second undo the first, and
the second read what the first left on the branch.

`TypedHalves` bounds what a user types for a coin: zero, a half that is cut off,
one and two. In `codec`, `WordBits` is 15 for 64 and `FieldBits` 8 for 32, so
that as in the code a varint of whole groups does not fill a word, a length may
be negative, and an index may wrap; `Strings`, `Coins`, `Metadatas`, `Lists`,
`Gas`, `ListedDenoms`, `UnknownFields`, `Damages` and `MaxChanged` bound the
messages and what happens to them. `CodecAssumption` asks of an unknown field
what makes it one (`IsUnknown`): a tag that reads and is no end of a group, a
number that no type has, and that `skip` takes it as a whole. A reader treats fields alike and one after
the other, so one change at any place of a message meets every state of it. In
`testnet`, `MaxNodes` 3 has nodes that are first, between and last, and a run may
have fewer nodes than the one before; `Octets` 3 for 256 with the
starting address 1 makes the third wrap; `MaxRuns`, `StartingIPs`, `MaxAdded`,
`Newcomers`, `Purses`, `StartTimes` and `EndTimes` bound the commands and their
arguments: vesting of a delayed account, of a continuous one, and times in the
wrong order. Two runs let the second find all that
one leaves.

In `ledger` the genesis may hold coins of the factory denom, but only when the
genesis of this module lists the denom (`CoinsAreListed`), as every genesis that
this module exported does.

The fee is a sum of native denoms. A fee in a factory denom would let that
denom's admin take it back by a forced transfer, outside `FeePoolBacked`.

### What the repository says and the code does not do

| run | the statement | the code |
|---|---|---|
| `burn_module` | `types/errors.go:22` "burning from Module Account is not allowed"; `keeper/admins_test.go:221` | `msg_server.go:99` converts the string instead of decoding it; the test passes because the account is empty |
| `renounce` | `README.md:16-18` "or even setting it to `""`" | `types/msgs.go:205` refuses it; the keeper alone would not |
| `change_admin_cmd` | `client/cli/tx.go:130-131` "change-admin [denom] [new-admin-address]", "Changes the admin address for a factory-created denom" | `tx.go:132` accepts one word and `tx.go:144` reads two |
| `rest_denom` | `query.proto:20-25` `/denoms/{denom}/authority_metadata`, "fetching DenomAuthorityMetadata for a particular denom" | `query.pb.gw.go:344` matches one segment, and a denom of the module has at least three |

Without a run of their own: a forced transfer may leave coins in the module's
account, which "isn't intended to store any coins" (`keeper.go:81`); a denom
created under an upper-case address is listed under the lower-case one after a
restart (`genesis.go:24`), which a command's creator never notices
(`ListedToCreator`); `add-genesis-account` lets an account vest coins of a denom
it has none of (`genaccounts.go:93`); the simulation's signer (see `Simulation`).

## 4. Fairness

`TokenFactory` assumes none. The module reacts to transactions and owes nobody a
step; `AdminIsServed` takes the place of liveness there: a message that its
checks allow is not refused.

`KeeperCalls` assumes `WF_vars(Executes)`: a node that is in the middle of a
transaction or an import executes its next call, because the calls of a handler
and of `InitGenesis` are plain function calls that wait for nothing. No fairness
is assumed for beginning anything. Under it `ComesBack` says that the node
always returns to waiting, and so that the import of a genesis the chain itself
exported never panics: a panic begins the same import again, for ever.

`Codec` assumes `WF_vars(Reader)`: a call of `Unmarshal` that has begun runs on,
as it waits for nothing. `Returns` then says that it gets to an end on any bytes.
The other modules assume no fairness: nobody has to type a command, and a testnet
may be killed at any step.

## 5. Proofs

`TokenFactoryProofs` proves, for every set of accounts, strings, denoms,
amounts and genesis states that satisfy the assumptions:

| theorem | statement |
|---|---|
| `Inductive` | `Spec => []IInv` |
| `TypeCorrect` | `Spec => []TypeOK` |
| `RegistryStaysConsistent` | `Spec => []RegistryConsistent` |
| `FeePoolStaysBacked` | `Spec => []FeePoolBacked` |
| `DenomsCreatedOnce` | `Spec => CreatedOnce` |
| `AdminAlwaysSigns` | `Spec => OnlyAdminActs` |
| `HoldingsAreSafe` | `Spec => NobodyElseTakes` |
| `FeeChargedOnCreate` | `Spec => FeeExactlyOnCreate` |
| `RestartLosesNothing` | `Spec => RestartPreserves` |

Assumptions: `MaxIntAssumption`, `AddressAssumption`, `ConstantsAssumption`,
`GenesisAssumption`, all of them evaluated by the runs.

`IInv == TypeOK /\ RegistryConsistent /\ FeePoolBacked`. None of the parts is
inductive alone. That a creation is fresh (`FreshDenom`) needs
`RecordsHaveMetadata`, because the code asks the metadata; that a restart keeps
every record (`RestartKeepsRecords`) needs `RecordsAreIndexed`, because the
export walks the index; that the index lists the denom once needs
`IndexedOnceUnderCreator`; that the pool stays backed needs that native denoms
have no record, so that their admin reads as `""` and no sender matches it. The
arithmetic is in lemmas about `Bank` (`SendLemma`, `MintLemma`, `BurnLemma`,
`SendTakesFromSender`), which cover the cases in which the two ends of a
transfer are one account.

About `TokenFactory`, `TokenLedger` and `Simulation` it proves:

| theorem | statement |
|---|---|
| `SupplyStaysBacked` | `Spec => []SupplyBacked` |
| `AdminAlwaysServed` | `Spec => AdminIsServed` |
| `GeneratedMessagesPass` | `Spec => []SignedMessagesPass` |
| `LedgerImplemented` | `Spec => ImplementsLedger` |

`CoinInv` adds to `IInv` that each supply is the sum of what the accounts hold.
`AdminIsServed` needs it although it speaks of refusals only: the bank fails a
transfer or a burn when a holding would pass `MaxInt` on the way, and nothing
but the supply bounds what the recipient, or the module's account in between,
holds already (`HoldingsBounded`, `HeldCanBeSent`, `HeldCanBeBurnt`). One step
moves coins between at most three accounts, two of which may be one; what it does
to a denom's sum is put together from the bank's debits and credits
(`SendKeepsCoins`, `CoinsOfActions`), and for the refinement from what each
account gains and loses (`SendIsMove`, `MintIsCredit`, `BurnIsDebit`).
`LedgerInv` adds `UnissuedAreEmpty`: a denom without a record has no coins, so
that one that is created begins empty, as `TokenLedger` says of it.
Creation writes no balance, so this depends on who could have minted before,
and on `CoinsAreListed` for the genesis.

It proves about `Client`, under `ClientAssumption` besides:

| theorem | statement |
|---|---|
| `CommandsAreTransactions` | `ClientSpec => Spec` |
| `ClientInductive` | `ClientSpec => []CInv` |
| `CreatorsFindTheirDenoms` | `ClientSpec => []ListedToCreator` |

The first carries every theorem above over to `ClientSpec`, the specification
that the runs `ledger` and `registry` check. `CInv == IInv /\ Commanded`:
`ListedToCreator` does not say under which spelling the index lists a denom,
and a restart changes the spelling. `Commanded` says that a denom created by
command stands under the canonical one (`Sender`, `tx.go:53`), which is where
the import puts every denom (`genesis.go:24`).

`StoreKeysProofs` proves, for every set of symbols, creators, denoms, admins and
queries that satisfies `KeyAssumption`:

| theorem | statement |
|---|---|
| `CreatorQueriesStayExact` | `Spec => []CreatorQueriesExact` |
| `RecordQueriesStayExact` | `Spec => []RecordQueriesExact` |
| `ExportStaysComplete` | `Spec => []ExportSeesAllDenoms` |

The invariant, `KeysInv`, says which keys the store holds and what is at them.
It is inductive because the keys of two pairs, of two records, and of a pair and
a record differ (`KeysDiffer`), so that a write never lands on another's key.
That rests on where the separator stands: a key of the index begins with the
prefix of its own creator and of no other string (`IndexInOwnRange`), because
creators and denoms hold no separator, whatever the string asked for holds.

`KeeperCallsProofs` proves:

| theorem | statement |
|---|---|
| `CallsInvariant` | `Spec => []KInv` |
| `CallsImplementTokenFactory` | `Spec => ImplementsTokenFactory` |
| `ExportAlwaysValidates` | `Spec => []ExportValidates` |

`KInv == CallsType /\ Chained /\ Aligned /\ InHandler /\ InImport`. `InHandler` and
`InImport` say for each value of `pc` what the branch holds by then, as a term
over the stores that the message found: a handler's calls one by one write what
the action of `TokenFactory` writes at once, and the conditions it passed were
those of the stores it began with. `Chained` says that every message of a
transaction, shown or not, is a step of `TokenFactory` on the branch of the one
before; `Aligned` ties the branch to the committed stores between transactions.
Committing then shows only steps that were justified when they were taken.
`ExportValidates` needs `ListedInv` besides: that the index lists a denom once,
and none without metadata, in the stores, in what was shown last and in every
branch not yet shown. The export walks the index, so a denom listed twice would
be refused, and the code asks the metadata whether a denom exists.

`DenomsProofs` proves, for every set of parts, lengths, creators and subdenoms
that satisfies `PartsAssumption`:

| theorem | statement |
|---|---|
| `NamesNeverCollide` | `Spec => []NamesDoNotCollide` |
| `NamesComeApart` | `Spec => []DeconstructInverts` |
| `LimitsLeaveRoom` | `Spec => []LimitsFit` |

`GetTokenDenom` refuses a creator with a slash, so that the name's second part
is the creator and everything after it the subdenom, slashes and all
(`NameLayout`, `SubdenomOfName`). The length of a string is a sum over its
parts; a name's is its subdenom's shifted by two places (`SumShift`) plus the
first two parts and two slashes (`NameLength`), and 44 + 75 + 9 = 128.

`TestnetProofs` proves, for any number of nodes, runs and newcomers under
`TestnetAssumption`:

| theorem | statement |
|---|---|
| `TestnetInductive` | `Spec => []TestnetInv` |
| `GenesisStaysSound` | `Spec => []GenesisSound` |
| `NodesShareGenesis` | `Spec => []OneGenesis` |
| `PeersKnowEachOther` | `Spec => []PeersComplete` |
| `OnlyLeftoversRefused` | `Spec => RefusesOnlyLeftovers` |

`TestnetInv` has beside the types what the loops have done by each round
(`Loops`), which gentx stands in which file and which run made it
(`GenTxFiles`), which genesis files are written (`GenesisFiles`) and that each
file, of whichever run, is one a chain can start from (`SoundFiles`). An account
key is new in every run, so that a gentx which an earlier run left is of an
address that the genesis does not list (`FundedAreOwn`): genutil refuses it, and
a run that comes to its end has used its own gentxs only. That peers differ does
not rest on their addresses, which are all one without a starting address:
`NodeKeys` says that a node's ID names the node, whichever run made it.

`CodecProofs` proves, for every type, every value its fields may hold, every word
of more than 7 bits and all the changes of the bytes that `CodecAssumption`
allows:

| theorem | statement |
|---|---|
| `CodecTypes` | `Spec => []CodecType` |
| `StaysInBounds` | `Spec => []InBounds` |
| `CodecInvariant` | `Spec => []CodecInv` |
| `RoundTrips` | `Spec => []RoundTrip` |
| `IgnoresUnknown` | `Spec => []UnknownIgnored` |
| `ReadsTwice` | `Spec => []Merges` |
| `NoticesCut` | `Spec => []CutIsNoticed` |

`StaysInBounds` holds of all bytes, damaged ones included. Its invariant,
`CodecType`, says what each call of `Unmarshal` holds and which field of the one
around it it reads. It rests on `VarintType` and `PayloadType`: a varint that
was read ends inside the bytes, and a length that is negative or whose sum with
the index wraps gives an index that is refused, because both are compared as
signed words (`SignedIs`).

The other four are about bytes that were written by `Marshal`, perhaps with an
unknown field, twice over, or cut. The argument has two halves.

1. *The functions* (`ProtoTypesProofs`). A varint read back is the number
   written, wherever it stands (`VarintReads`), and one that was cut off does not
   read (`VarintCut`); `skip` takes the same bytes whatever follows them
   (`SkipSame`). For each of the 24 types, `Marshal` writes its fields in the
   order of their numbers, `Size` is the length of what `Marshal` writes, and the
   pieces a field is written in are those the case of its number in `Unmarshal`
   reads (`Marshalled`, one lemma for each number of fields, one use of it for
   each type): this is where the three separate functions of the generated code
   are compared field by field.
2. *The reader* (`CodecProofs`). `Runs(G, U, T, v, r, w)` says that reading the
   bytes `r` from the value `v` of type `T` on leaves the value `w`. It is the
   smallest relation that holds of no bytes and is kept when a piece, or an
   unknown field of `U`, is put in front; `G` says which values may be met on the
   way. What `Marshal` writes runs from any value to that value merged with the
   one written (`SetAll`). Taking the first piece away again gives what is to be
   read next, and the reader sees just that piece, or, when its end was lost, sees
   that it is not all there (`PieceRead`).

`CodecInv` then says of every call under way that what it has made so far, what
is left of its bytes and, for the outermost, what was lost, run to the value it
should return (`AsRead`). Without loss that value is the one sent
(`RoundTrips`, `IgnoresUnknown`), or the one sent merged with itself
(`ReadsTwice`). With a loss the reader is at a value met on the way, in which
each field is untouched, complete, or has the first entries of a repeated field
(`NoticesCut`). A call that fails has lost bytes, so undamaged data is never
refused. `CodecInv` speaks of all sets of quadruples and cannot be evaluated by
TLC; its consequences are what the run `codec` checks.

`SupplyBacked`, `Length` and `Total` are sums, which the community modules define
by recursion over the subsets of a finite set. `RecursionProofs` shows that such a
function exists, that all agree, and how a sum changes with one summand. In
place of induction it takes a smallest counterexample (`SubsetInduction`, from
`WFMin` of the library): a set of subsets rather than a predicate, as an
operator cannot be a parameter here. The varints, the joined sequences and the
groups that `skip` counts are functions by recursion too, each value depending on
the one at a single other point; that such a function exists and where its
values lie is shown there once (`RecursionExists`), and what they compute by
`StrongInduction` over a set of numbers.

Assumptions, besides those named: `AccountsAssumption` (finitely many accounts,
as an address has at most 255 bytes), `OwnersAssumption` (no account is called
`"unissued"` or `"nobody"`), `SimulationAssumption` and `MaxMsgsAssumption`.
`Init` holds one condition on the genesis, `CoinsAreListed`: a file in which the
bank's part gives out coins of a factory denom that this module's part does not
list is left out. All assumptions are evaluated by the runs.

Only model-checked:

* `ComesBack` and `Returns`, which need fairness: liveness is out of the
  prover's reach;
* the four statements of section 3 that the code violates: the run shows the
  counterexample.

## 6. Not modelled

* Events, sign bytes, flags and printing of the commands: no state changes.
* The descriptors, getters and gRPC stubs of the generated code, the registration
  of its types, and its JSON and amino forms, which are the SDK's.
* The daemon's start-up, its export command and the test helpers, which are the
  SDK's own; keys, signatures and configuration files of a testnet.
* Bank hooks (`README.md:29-63`): documented, and not in the code.
* Vesting accounts, send-enabled switches, spending of the community pool.
* Transaction fees and sequence numbers, which the SDK handles before the
  messages run; the value of `DenomCreationGasConsume`.
* The zero-height export, which prepares other modules' state.
* The delivery of the simulation's messages (see `Simulation` above).
* The order of the modules' genesis (`simapp/app.go:375`): the bank's part is
  imported when this module's runs. A change of that order would not be noticed.

## 7. Plan

Done: `Bech32`, `Bank`, `Messages`, `TokenFactory`, `TokenLedger`, `Denoms`,
`KeeperCalls`, `StoreKeys`, `Simulation`, `Client`, `Wire`, `ProtoTypes`, `Codec`,
`Testnet`, and the proofs of section 5, which cover every invariant and action
property that a passing run checks. What is left, in this order:

1. The order of the modules' genesis (`simapp/app.go:375`) as a module of its
   own, with the bank's part of the import before or after this module's.
2. An unknown field between two known ones and inside an embedded message, in the
   run `codec`: `Runs` allows it anywhere, `AddUnknown` adds it at the ends.
