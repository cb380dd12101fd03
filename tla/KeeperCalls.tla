----------------------------- MODULE KeeperCalls -----------------------------
(***************************************************************************)
(* The handlers and the genesis import taken apart into the calls they     *)
(* make to other keepers and stores, in the order of the code.             *)
(*                                                                         *)
(* A transaction holds up to MaxMsgs messages.  The SDK checks all of them *)
(* with ValidateBasic, runs them one after the other on a branch of the    *)
(* stores (cache), and writes the branch back (stores) when the last one   *)
(* has succeeded.  An error of any call, or running out of gas in it, ends *)
(* the transaction and drops the branch.  A restart exports the stores and *)
(* imports them into a new chain, denom by denom.                          *)
(*                                                                         *)
(* TokenFactory takes each message in one step.  The last part shows that  *)
(* it may.                                                                 *)
(***************************************************************************)
EXTENDS Messages, Sequences

CONSTANT MaxMsgs   \* bound: messages in one transaction

ASSUME MaxMsgsAssumption == MaxMsgs \in Nat \ {0}

VARIABLES
  stores,   \* the committed stores
  cache,    \* the branch of the running transaction; equal to stores when idle
  pc,       \* the next call
  msg,      \* the message being handled
  handled,  \* the messages of the transaction handled so far, with the branch after each
  todo,     \* import: the denoms of the genesis still to be created, with their admins
  seen,     \* auxiliary: the stores with the committed messages up to the last one shown
  shown     \* auxiliary: that message

calls == <<stores, cache, pc, msg, handled, todo>>
vars  == <<calls, seen, shown>>

\* What the handlers read, they read from the branch.
Branch == INSTANCE TokenFactory WITH
            balances <- cache.balances, supply <- cache.supply,
            denomMetadata <- cache.denomMetadata,
            communityPool <- cache.communityPool, creationFee <- cache.creationFee,
            authority <- cache.authority, creators <- cache.creators,
            tx <- shown

NoMsg == [type |-> "none"]

-----------------------------------------------------------------------------
(* Calls.  Each succeeds, changing the branch, or fails.                    *)

\* An error return, or the gas meter's panic: the branch is dropped.
Abort ==
  /\ cache' = stores
  /\ pc' = "idle"
  /\ msg' = NoMsg
  /\ handled' = <<>>
  /\ UNCHANGED <<stores, todo, seen, shown>>

\* The call at `at`: if it returns no error, the branch is `after`.
Call(at, ok, after, next) ==
  /\ pc = at
  /\ ok
  /\ cache' = after
  /\ pc' = next
  /\ UNCHANGED <<stores, msg, handled, todo, seen, shown>>

\* The last call of a handler.
LastCall(at, ok, after) ==
  /\ pc = at
  /\ ok
  /\ cache' = after
  /\ pc' = "next"
  /\ msg' = NoMsg
  /\ handled' = Append(handled, [msg |-> msg, after |-> after])
  /\ UNCHANGED <<stores, todo, seen, shown>>

Purse     == cache.balances[msg.denom]
Total     == cache.supply[msg.denom]
Paid(purse)   == [cache EXCEPT !.balances[msg.denom] = purse]

CallNames ==
  {"validate", "charge", "consume gas", "write metadata", "write authority",
   "write creator", "authorize", "mint coins", "send minted", "collect",
   "burn coins", "transfer", "set admin", "set metadata", "bank transfer"}

-----------------------------------------------------------------------------
(* CreateDenom.                                                             *)

NewDenom == <<msg.sender, msg.subdenom>>

Validate == Call("validate", Branch!validateCreateDenom(msg), cache, "charge")

\* FundCommunityPool: the bank's transfer and the pool's record.
Charge ==
  LET payer == AccOf[msg.sender]
      paid  == [d \in Denoms |->
                  IF d \in NativeDenoms
                  THEN Send(cache.balances[d], payer, DistributionModule, cache.creationFee[d])
                  ELSE cache.balances[d]]
      pool  == [n \in NativeDenoms |-> cache.communityPool[n] + cache.creationFee[n]]
  IN Call("charge", Branch!CanPayFee(payer),
          [cache EXCEPT !.balances = paid, !.communityPool = pool], "consume gas")

\* The creation gas: either within the limit, or an Abort.
ConsumeGas == Call("consume gas", TRUE, cache, "write metadata")

WriteMetadata ==
  Call("write metadata", TRUE,
       [cache EXCEPT !.denomMetadata = Branch!WithMetadata(@, {NewDenom})],
       "write authority")

WriteAuthority ==
  Call("write authority", ValidAdmin(msg.sender),
       [cache EXCEPT !.authority[NewDenom] = msg.sender], "write creator")

WriteCreator ==
  LastCall("write creator", TRUE,
           [cache EXCEPT !.creators = @ \cup {<<msg.sender, NewDenom>>}])

-----------------------------------------------------------------------------
(* The admin's messages.                                                    *)

\* Where a handler goes once the sender is known to be the admin.
AfterAuthorize ==
  [mint |-> "mint coins", burn |-> "collect", force_transfer |-> "transfer",
   change_admin |-> "set admin", set_denom_metadata |-> "set metadata"]

\* The error returns before the first call that writes.  ValidateBasic has
\* taken the denom of the last two messages apart already.
Authorized ==
  /\ msg.type = "mint" => Branch!HasMetadata(msg.denom)
  /\ Branch!IsAdmin(msg)
  /\ msg.type = "burn" => ~Branch!IsModuleAccount(OrSender(msg.from, msg))
  /\ IsFactoryDenom(msg.denom)

Authorize ==
  /\ pc = "authorize"   \* msg has one of the types of AfterAuthorize
  /\ Call("authorize", Authorized, cache, AfterAuthorize[msg.type])

MintCoins ==
  Call("mint coins", CanMintCoins(Purse, Total, TokenFactoryModule, msg.amount),
       [cache EXCEPT !.balances[msg.denom] = Credit(@, TokenFactoryModule, msg.amount),
                     !.supply[msg.denom] = @ + msg.amount],
       "send minted")

\* Mutant: the error of a recipient that cannot be decoded is dropped.
SendMintedOrKeep ==
  LET to == OrSender(msg.to, msg) IN
  LastCall("send minted",
           IsAddress(to) =>
             ~Blocked(AccOf[to]) /\ CanSend(Purse, TokenFactoryModule, AccOf[to], msg.amount),
           IF IsAddress(to)
           THEN Paid(Send(Purse, TokenFactoryModule, AccOf[to], msg.amount))
           ELSE cache)

\* The recipient is decoded only here.
SendMinted ==
  LET to == OrSender(msg.to, msg) IN
  LastCall("send minted",
           /\ IsAddress(to) /\ ~Blocked(AccOf[to])
           /\ CanSend(Purse, TokenFactoryModule, AccOf[to], msg.amount),
           Paid(Send(Purse, TokenFactoryModule, AccOf[to], msg.amount)))

Collect ==
  LET from == OrSender(msg.from, msg) IN
  Call("collect",
       /\ IsAddress(from)
       /\ CanSend(Purse, AccOf[from], TokenFactoryModule, msg.amount),
       Paid(Send(Purse, AccOf[from], TokenFactoryModule, msg.amount)),
       "burn coins")

BurnCoins ==
  LastCall("burn coins", CanBurnCoins(Purse, Total, TokenFactoryModule, msg.amount),
           [cache EXCEPT !.balances[msg.denom] = Debit(@, TokenFactoryModule, msg.amount),
                         !.supply[msg.denom] = @ - msg.amount])

Transfer ==
  LastCall("transfer", CanSend(Purse, AccOf[msg.from], AccOf[msg.to], msg.amount),
           Paid(Send(Purse, AccOf[msg.from], AccOf[msg.to], msg.amount)))

SetAdmin ==
  LastCall("set admin", ValidAdmin(msg.newAdmin),
           [cache EXCEPT !.authority[msg.denom] = msg.newAdmin])

SetMetadata ==
  LastCall("set metadata", msg.metadata \in CustomMetadata,
           [cache EXCEPT !.denomMetadata[msg.denom] = msg.metadata])

\* The bank's own message.
BankTransfer ==
  LastCall("bank transfer",
           /\ IsAddress(msg.to) /\ ~Blocked(AccOf[msg.to])
           /\ CanSend(Purse, AccOf[msg.sender], AccOf[msg.to], msg.amount),
           Paid(Send(Purse, AccOf[msg.sender], AccOf[msg.to], msg.amount)))

Handler ==
  \/ Validate \/ Charge \/ ConsumeGas \/ WriteMetadata \/ WriteAuthority \/ WriteCreator
  \/ Authorize \/ MintCoins \/ SendMinted \/ Collect \/ BurnCoins \/ Transfer
  \/ SetAdmin \/ SetMetadata \/ BankTransfer
-----------------------------------------------------------------------------
(* Transactions.                                                            *)

FirstCall(type) ==
  CASE type = "create_denom"           -> "validate"
    [] type = "bank_send"              -> "bank transfer"
    [] type \in DOMAIN AfterAuthorize -> "authorize"

\* A message that has passed the signature check and ValidateBasic.
Admissible ==
  {m \in CreateDenomMsgs : Signed(m) /\ ValidCreateDenom(m)}
    \cup {m \in MintMsgs : Signed(m) /\ ValidMint(m)}
    \cup {m \in BurnMsgs : Signed(m) /\ ValidBurn(m)}
    \cup {m \in ForceTransferMsgs : Signed(m) /\ ValidForceTransfer(m)}
    \cup {m \in ChangeAdminMsgs : Signed(m) /\ ValidChangeAdmin(m)}
    \cup {m \in SetDenomMetadataMsgs : Signed(m) /\ ValidSetDenomMetadata(m)}
    \cup {m \in BankSendMsgs : Signed(m) /\ m.amount > 0}

Idle == pc = "idle" /\ handled = <<>>

\* The first message of a transaction, or the next one.
Begin(m) ==
  /\ Idle \/ (pc = "next" /\ Len(handled) < MaxMsgs)
  /\ pc' = FirstCall(m.type)
  /\ msg' = m
  /\ UNCHANGED <<stores, cache, handled, todo, seen, shown>>

\* Every message succeeded: the branch is written back.
Commit ==
  /\ pc = "next"
  /\ stores' = cache
  /\ pc' = "idle"
  /\ UNCHANGED <<cache, msg, handled, todo, seen, shown>>

\* An error of the call, or too little gas for it.
Fail == pc \in {"next"} \cup CallNames /\ Abort

\* Auxiliary: the messages of a committed transaction are shown one by one.
Show ==
  /\ pc = "idle" /\ handled # <<>>
  /\ seen' = Head(handled).after
  /\ shown' = Head(handled).msg
  /\ handled' = Tail(handled)
  /\ UNCHANGED <<stores, cache, pc, msg, todo>>

Governs(fee) ==
  /\ Idle
  /\ stores' = [stores EXCEPT !.creationFee = fee]
  /\ cache' = stores'
  /\ seen' = stores'
  /\ shown' = Governance
  /\ UNCHANGED <<pc, msg, handled, todo>>

-----------------------------------------------------------------------------
(* A restart from the exported genesis.                                     *)

\* ExportGenesis lists a denom for each key of the creators index.
Exported(from) ==
  {[key |-> e, denom |-> e[2],
    admin |-> IF from.authority[e[2]] = NoRecord THEN Empty ELSE from.authority[e[2]]]
     : e \in from.creators}

\* Mutant: the creators index is still there when the import begins.
EmptiedButIndex(from) == [from EXCEPT !.authority = [d \in Denoms |-> NoRecord]]

\* The stores of the new chain when the module's InitGenesis runs: the bank,
\* distribution and params modules have imported their own state.
Emptied(from) ==
  [from EXCEPT !.authority = [d \in Denoms |-> NoRecord], !.creators = {}]

\* GenesisState.Validate, which the validate-genesis command runs on a genesis.
ValidGenesis(gs) ==
  /\ \A x, y \in gs : x.denom = y.denom => x = y
  /\ \A x \in gs : IsFactoryDenom(x.denom) /\ ValidAdmin(x.admin)

Export ==
  /\ Idle
  /\ pc' = "import"
  /\ todo' = Exported(stores)
  /\ cache' = Emptied(stores)
  /\ UNCHANGED <<stores, msg, handled, seen, shown>>

\* InitGenesis panics on an error, and the node stops; when it is started
\* again, it begins the import anew.
Panic ==
  /\ pc' = "import"
  /\ todo' = Exported(stores)
  /\ cache' = Emptied(stores)
  /\ msg' = NoMsg
  /\ UNCHANGED <<stores, handled, seen, shown>>

\* createDenomAfterValidation with the creator that DeconstructDenom returns.
ImportDenom(entry) ==
  LET creator == Canonical(entry.denom[1]) IN
  /\ pc = "import" /\ entry \in todo
  /\ IF IsFactoryDenom(entry.denom) /\ ValidAdmin(creator)
     THEN /\ cache' = [cache EXCEPT
                        !.denomMetadata = Branch!WithMetadata(@, {entry.denom}),
                        !.authority[entry.denom] = creator,
                        !.creators = @ \cup {<<creator, entry.denom>>}]
          /\ pc' = "import admin"
          /\ msg' = entry
          /\ UNCHANGED <<stores, handled, todo, seen, shown>>
     ELSE Panic

\* Mutant: the creator stays the admin.
KeepCreator ==
  /\ pc = "import admin"
  /\ pc' = "import"
  /\ msg' = NoMsg
  /\ todo' = todo \ {msg}
  /\ UNCHANGED <<stores, cache, handled, seen, shown>>

\* Mutant: an admin must be an address, as in ChangeAdmin's ValidateBasic.
RefuseEmptyAdmin ==
  /\ pc = "import admin"
  /\ IF IsAddress(msg.admin)
     THEN /\ cache' = [cache EXCEPT !.authority[msg.denom] = msg.admin]
          /\ pc' = "import"
          /\ msg' = NoMsg
          /\ todo' = todo \ {msg}
          /\ UNCHANGED <<stores, handled, seen, shown>>
     ELSE Panic

\* setAuthorityMetadata with the exported admin, over the creator.
ImportAdmin ==
  /\ pc = "import admin"
  /\ IF ValidAdmin(msg.admin)
     THEN /\ cache' = [cache EXCEPT !.authority[msg.denom] = msg.admin]
          /\ pc' = "import"
          /\ msg' = NoMsg
          /\ todo' = todo \ {msg}
          /\ UNCHANGED <<stores, handled, seen, shown>>
     ELSE Panic

\* The first block of the new chain.
Start ==
  /\ pc = "import" /\ todo = {}
  /\ stores' = cache
  /\ pc' = "idle"
  /\ seen' = cache
  /\ shown' = Upgrade
  /\ UNCHANGED <<cache, msg, handled, todo>>

-----------------------------------------------------------------------------

Import == (\E entry \in todo : ImportDenom(entry)) \/ ImportAdmin \/ Start

Init ==
  \E held \in GenesisBalances, fee \in Fees, metadata \in GenesisMetadata,
     listed \in SUBSET GenesisDenoms :
    \E gs \in [listed -> {str \in Strings : ValidAdmin(str)}] :
      /\ stores = [balances      |-> held,
                   supply        |-> [d \in Denoms |-> FoldFunction(+, 0, held[d])],
                   denomMetadata |-> Branch!WithMetadata(metadata, listed),
                   communityPool |-> [n \in NativeDenoms |-> held[n][DistributionModule]],
                   creationFee   |-> fee,
                   authority     |-> Branch!GenesisAuthority(gs),
                   creators      |-> Branch!GenesisCreators(gs)]
      /\ \A d \in FactoryDenoms \ listed : stores.supply[d] = 0
      /\ cache = stores /\ seen = stores
      /\ pc = "idle" /\ msg = NoMsg /\ handled = <<>> /\ todo = {}
      /\ shown = Upgrade

Next ==
  \/ \E m \in Admissible : Begin(m)
  \/ Handler
  \/ Commit
  \/ Fail
  \/ Show
  \/ \E fee \in Fees : Governs(fee)
  \/ Export
  \/ Import

Spec == Init /\ [][Next]_vars

\* A node executes what it has begun: the calls of a handler and of the
\* import follow each other without waiting for anything.
Executes == Handler \/ Commit \/ Fail \/ Show \/ Import

FairSpec == Spec /\ WF_vars(Executes)

-----------------------------------------------------------------------------
(* Properties.                                                              *)

\* The exported genesis passes GenesisState.Validate: no denom is listed
\* twice, although the index has a key for each pair of creator and denom,
\* every name comes apart, and every admin is an address or empty.
ExportValidates == ValidGenesis(Exported(stores))

\* The node comes back from everything it begins: a transaction ends, and the
\* import of an exported genesis never runs into one of its panics.
ComesBack == []<>Idle

Seen == INSTANCE TokenFactory WITH
          balances <- seen.balances, supply <- seen.supply,
          denomMetadata <- seen.denomMetadata,
          communityPool <- seen.communityPool, creationFee <- seen.creationFee,
          authority <- seen.authority, creators <- seen.creators,
          tx <- [msg |-> shown, code |-> "ok"]

\* TokenFactory is right to take a message in one step and a restart in one:
\* the messages of a committed transaction, shown one by one, are steps of it
\* with the guards of their handlers, and a failed one is no step at all.
\* (Seen!Spec, with the frequent case of no step at all tried first.)
ImplementsTokenFactory ==
  Seen!Init /\ [][UNCHANGED Seen!vars \/ Seen!Next]_(Seen!vars)
=============================================================================
