------------------------ MODULE KeeperCallsProofs ---------------------------
(***************************************************************************)
(* KeeperCalls implements TokenFactory, for any transactions, failures and *)
(* restarts: the calls that a handler makes one after the other, and those *)
(* of the genesis import, add up to the one step that TokenFactory takes.  *)
(*                                                                         *)
(* The invariant says where the branch of a running transaction stands at  *)
(* each call: which checks of the message have passed, on the stores that  *)
(* its handler began with, and what has been written since.  So the last   *)
(* call of a handler completes a step of TokenFactory, and the messages    *)
(* that have been handled form a chain of such steps, from the stores last *)
(* shown to those of the branch.                                           *)
(*                                                                         *)
(* The last part proves that the exported genesis passes its validation.   *)
(***************************************************************************)
EXTENDS KeeperCalls, TLAPS

\* TokenFactory on the stores s.
On(s) == INSTANCE TokenFactory WITH
           balances <- s.balances, supply <- s.supply,
           denomMetadata <- s.denomMetadata,
           communityPool <- s.communityPool, creationFee <- s.creationFee,
           authority <- s.authority, creators <- s.creators,
           tx <- Upgrade

Stores == [balances      : [Denoms -> [Accounts -> Int]],
           supply        : [Denoms -> Int],
           denomMetadata : [Denoms -> Metadata \cup {NoMetadata}],
           communityPool : [NativeDenoms -> Int],
           creationFee   : [NativeDenoms -> Int],
           authority     : [Denoms -> AddrStrings \cup {Empty, NoRecord}],
           creators      : SUBSET (AddrStrings \X FactoryDenoms)]

-----------------------------------------------------------------------------
(* The writes of the calls.                                                 *)

Charged(s, m) ==
  [s EXCEPT !.balances =
              [d \in Denoms |->
                 IF d \in NativeDenoms
                 THEN Send(s.balances[d], AccOf[m.sender], DistributionModule, s.creationFee[d])
                 ELSE s.balances[d]],
            !.communityPool =
              [n \in NativeDenoms |-> s.communityPool[n] + s.creationFee[n]]]

DenomOf(m) == <<m.sender, m.subdenom>>

Described(s, m) ==
  [s EXCEPT !.denomMetadata =
     [d \in Denoms |-> IF d = DenomOf(m) /\ s.denomMetadata[d] = NoMetadata
                       THEN MinimalMetadata ELSE s.denomMetadata[d]]]

Recorded(s, d, admin) == [s EXCEPT !.authority[d] = admin]

Indexed(s, m) == [s EXCEPT !.creators = @ \cup {<<m.sender, DenomOf(m)>>}]

WithPurse(s, d, purse) == [s EXCEPT !.balances[d] = purse]
WithTotal(s, d, total) == [s EXCEPT !.supply[d] = total]

Credited(s, m) ==
  WithTotal(WithPurse(s, m.denom, Credit(s.balances[m.denom], TokenFactoryModule, m.amount)),
            m.denom, s.supply[m.denom] + m.amount)

Collected(s, m) ==
  WithPurse(s, m.denom, Send(s.balances[m.denom], AccOf[OrSender(m.from, m)],
                             TokenFactoryModule, m.amount))

-----------------------------------------------------------------------------
(* A message handled: the checks it passed on the stores s, and the stores  *)
(* t that it leaves.                                                        *)

HandledOn(s, m, t) ==
  \/ /\ m \in CreateDenomMsgs
     /\ On(s)!CreateDenomOk(m)
     /\ t = Indexed(Recorded(Described(Charged(s, m), m), DenomOf(m), m.sender), m)
  \/ /\ m \in MintMsgs
     /\ On(s)!MintOk(m)
     /\ t = WithTotal(
              WithPurse(s, m.denom,
                On(s)!mintTo(s.balances[m.denom], m.amount, AccOf[OrSender(m.to, m)])),
              m.denom, s.supply[m.denom] + m.amount)
  \/ /\ m \in BurnMsgs
     /\ On(s)!BurnOk(m)
     /\ t = WithTotal(
              WithPurse(s, m.denom,
                On(s)!burnFrom(s.balances[m.denom], m.amount, AccOf[OrSender(m.from, m)])),
              m.denom, s.supply[m.denom] - m.amount)
  \/ /\ m \in ForceTransferMsgs
     /\ On(s)!ForceTransferOk(m)
     /\ t = WithPurse(s, m.denom,
              Send(s.balances[m.denom], AccOf[m.from], AccOf[m.to], m.amount))
  \/ /\ m \in ChangeAdminMsgs
     /\ On(s)!ChangeAdminOk(m)
     /\ t = Recorded(s, m.denom, m.newAdmin)
  \/ /\ m \in SetDenomMetadataMsgs
     /\ On(s)!SetDenomMetadataOk(m)
     /\ t = [s EXCEPT !.denomMetadata[m.denom] = m.metadata]
  \/ /\ m \in BankSendMsgs
     /\ On(s)!BankSendOk(m)
     /\ t = WithPurse(s, m.denom,
              Send(s.balances[m.denom], AccOf[m.sender], AccOf[m.to], m.amount))

-----------------------------------------------------------------------------
(* The invariant.                                                           *)

\* The stores before the k-th handled message, and after the last one.
Before(k) == IF k = 1 THEN seen ELSE handled[k - 1].after
Latest    == Before(Len(handled) + 1)

HandledMsgs == [msg : Messages, after : Stores]

CallsType ==
  /\ stores \in Stores /\ cache \in Stores /\ seen \in Stores
  /\ pc \in {"idle", "next", "import", "import admin"} \cup CallNames
  /\ handled \in Seq(HandledMsgs)

\* The handled messages lead from the stores last shown to the latest ones.
Chained ==
  \A k \in 1 .. Len(handled) : HandledOn(Before(k), handled[k].msg, handled[k].after)

\* A transaction begins when the last one has been shown.
Aligned ==
  /\ pc = "idle" => cache = stores /\ Latest = stores
  /\ pc # "idle" => seen = stores
  /\ pc \in {"import", "import admin"} => handled = <<>>

\* The creation fee has been charged.
Paying == msg \in CreateDenomMsgs /\ On(Latest)!CreateDenomOk(msg)

OfAdmin(type) ==
  /\ msg \in Admissible /\ msg.type \in type
  /\ msg.type = "mint" => On(Latest)!HasMetadata(msg.denom)
  /\ On(Latest)!IsAdmin(msg)
  /\ msg.type = "burn" => ~On(Latest)!IsModuleAccount(OrSender(msg.from, msg))
  /\ IsFactoryDenom(msg.denom)

InHandler ==
  /\ pc = "next" => cache = Latest
  /\ pc = "validate" => cache = Latest /\ msg \in Admissible /\ msg.type = "create_denom"
  /\ pc = "charge" =>
       /\ cache = Latest /\ msg \in Admissible /\ msg.type = "create_denom"
       /\ On(Latest)!validateCreateDenom(msg)
  /\ pc \in {"consume gas", "write metadata"} => Paying /\ cache = Charged(Latest, msg)
  /\ pc = "write authority" => Paying /\ cache = Described(Charged(Latest, msg), msg)
  /\ pc = "write creator" =>
       /\ Paying
       /\ cache = Recorded(Described(Charged(Latest, msg), msg), DenomOf(msg), msg.sender)
  /\ pc = "authorize" =>
       cache = Latest /\ msg \in Admissible /\ msg.type \in DOMAIN AfterAuthorize
  /\ pc = "mint coins" => cache = Latest /\ OfAdmin({"mint"})
  /\ pc = "send minted" =>
       /\ OfAdmin({"mint"}) /\ cache = Credited(Latest, msg)
       /\ CanMintCoins(Latest.balances[msg.denom], Latest.supply[msg.denom],
                       TokenFactoryModule, msg.amount)
  /\ pc = "collect" => cache = Latest /\ OfAdmin({"burn"})
  /\ pc = "burn coins" =>
       LET from == OrSender(msg.from, msg) IN
       /\ OfAdmin({"burn"}) /\ cache = Collected(Latest, msg)
       /\ IsAddress(from)
       /\ CanSend(Latest.balances[msg.denom], AccOf[from], TokenFactoryModule, msg.amount)
  /\ pc = "transfer" => cache = Latest /\ OfAdmin({"force_transfer"})
  /\ pc = "set admin" => cache = Latest /\ OfAdmin({"change_admin"})
  /\ pc = "set metadata" => cache = Latest /\ OfAdmin({"set_denom_metadata"})
  /\ pc = "bank transfer" => cache = Latest /\ msg \in Admissible /\ msg.type = "bank_send"

\* The stores of the new chain when the entries `done` have been imported.
Imported(from, done) ==
  LET denoms == {e.denom : e \in done} IN
  [from EXCEPT !.denomMetadata = On(from)!WithMetadata(@, denoms),
               !.authority = [d \in Denoms |-> IF d \in denoms THEN On(from)!Admin(d)
                                               ELSE NoRecord],
               !.creators = {<<Canonical(d[1]), d>> : d \in denoms}]

InImport ==
  LET done == Exported(stores) \ todo IN
  /\ pc \in {"import", "import admin"} => todo \subseteq Exported(stores)
  /\ pc = "import" => cache = Imported(stores, done)
  /\ pc = "import admin" =>
       /\ msg \in todo
       /\ cache = Recorded(Imported(stores, done \cup {msg}), msg.denom,
                           Canonical(msg.denom[1]))

KInv == CallsType /\ Chained /\ Aligned /\ InHandler /\ InImport

-----------------------------------------------------------------------------
(* What the writes write.                                                   *)

\* The bank's operations on a purse of integers.
LEMMA PurseTypes ==
  ASSUME NEW purse \in [Accounts -> Int], NEW a \in Accounts, NEW b \in Accounts, NEW n \in Int
  PROVE  /\ Debit(purse, a, n) \in [Accounts -> Int]
         /\ Credit(purse, a, n) \in [Accounts -> Int]
         /\ Send(purse, a, b, n) \in [Accounts -> Int]
BY DEF Debit, Credit, Send

\* Writing the purse or the supply of a denom writes nothing else.
LEMMA WithPurseFields ==
  ASSUME NEW s \in Stores, NEW d \in Denoms, NEW purse \in [Accounts -> Int]
  PROVE  LET t == WithPurse(s, d, purse) IN
         /\ t \in Stores
         /\ t.balances = [s.balances EXCEPT ![d] = purse]
         /\ t.balances[d] = purse
         /\ t.supply = s.supply /\ t.denomMetadata = s.denomMetadata
         /\ t.communityPool = s.communityPool /\ t.creationFee = s.creationFee
         /\ t.authority = s.authority /\ t.creators = s.creators
BY DEF WithPurse, Stores

\* Writing the supply of a denom writes nothing else.
LEMMA WithTotalFields ==
  ASSUME NEW s \in Stores, NEW d \in Denoms, NEW total \in Int
  PROVE  LET t == WithTotal(s, d, total) IN
         /\ t \in Stores
         /\ t.supply = [s.supply EXCEPT ![d] = total]
         /\ t.supply[d] = total
         /\ t.balances = s.balances /\ t.denomMetadata = s.denomMetadata
         /\ t.communityPool = s.communityPool /\ t.creationFee = s.creationFee
         /\ t.authority = s.authority /\ t.creators = s.creators
BY DEF WithTotal, Stores

\* Recording an admin writes nothing else (setAuthorityMetadata).
LEMMA RecordedFields ==
  ASSUME NEW s \in Stores, NEW d \in Denoms, NEW admin \in AddrStrings \cup {Empty}
  PROVE  LET t == Recorded(s, d, admin) IN
         /\ t \in Stores
         /\ t.authority = [s.authority EXCEPT ![d] = admin]
         /\ t.balances = s.balances /\ t.supply = s.supply
         /\ t.denomMetadata = s.denomMetadata /\ t.communityPool = s.communityPool
         /\ t.creationFee = s.creationFee /\ t.creators = s.creators
BY DEF Recorded, Stores

\* CreateDenom's writes: the fee, the metadata and the index.
LEMMA ChargedFields ==
  ASSUME NEW s \in Stores, NEW m, m.sender \in AddrStrings
  PROVE  LET t == Charged(s, m) IN
         /\ t \in Stores
         /\ t.balances = [d \in Denoms |->
              IF d \in NativeDenoms
              THEN Send(s.balances[d], AccOf[m.sender], DistributionModule, s.creationFee[d])
              ELSE s.balances[d]]
         /\ t.communityPool = [n \in NativeDenoms |-> s.communityPool[n] + s.creationFee[n]]
         /\ t.supply = s.supply /\ t.denomMetadata = s.denomMetadata
         /\ t.creationFee = s.creationFee
         /\ t.authority = s.authority /\ t.creators = s.creators
<1>1. AccOf[m.sender] \in Accounts /\ DistributionModule \in Accounts
  BY AddressAssumption, ConstantsAssumption DEF ModuleAccounts
<1>2. \A d \in NativeDenoms :
        Send(s.balances[d], AccOf[m.sender], DistributionModule, s.creationFee[d])
          \in [Accounts -> Int]
  BY <1>1, PurseTypes DEF Stores, Denoms
<1>3. [d \in Denoms |->
         IF d \in NativeDenoms
         THEN Send(s.balances[d], AccOf[m.sender], DistributionModule, s.creationFee[d])
         ELSE s.balances[d]] \in [Denoms -> [Accounts -> Int]]
  BY <1>2 DEF Stores
<1>4. [n \in NativeDenoms |-> s.communityPool[n] + s.creationFee[n]] \in [NativeDenoms -> Int]
  BY DEF Stores
<1> QED
  BY <1>3, <1>4 DEF Charged, Stores

\* CreateDenom's metadata: only the new denom's, and only if it has none.
LEMMA DescribedFields ==
  ASSUME NEW s \in Stores, NEW m
  PROVE  LET t == Described(s, m) IN
         /\ t \in Stores
         /\ t.denomMetadata = [d \in Denoms |->
              IF d = DenomOf(m) /\ s.denomMetadata[d] = NoMetadata
              THEN MinimalMetadata ELSE s.denomMetadata[d]]
         /\ t.balances = s.balances /\ t.supply = s.supply
         /\ t.communityPool = s.communityPool /\ t.creationFee = s.creationFee
         /\ t.authority = s.authority /\ t.creators = s.creators
BY DEF Described, Stores, Metadata

\* CreateDenom's index entry.
LEMMA IndexedFields ==
  ASSUME NEW s \in Stores, NEW m, DenomOf(m) \in FactoryDenoms, m.sender \in AddrStrings
  PROVE  LET t == Indexed(s, m) IN
         /\ t \in Stores
         /\ t.creators = s.creators \cup {<<m.sender, DenomOf(m)>>}
         /\ t.balances = s.balances /\ t.supply = s.supply
         /\ t.denomMetadata = s.denomMetadata
         /\ t.communityPool = s.communityPool /\ t.creationFee = s.creationFee
         /\ t.authority = s.authority
BY DEF Indexed, Stores

-----------------------------------------------------------------------------
(* The checks of TokenFactory, on any stores.                               *)

\* The checks of TokenFactory, on any stores.
LEMMA OnChecks ==
  ASSUME NEW s, NEW m
  PROVE  /\ On(s)!CreateDenomOk(m) <=>
              /\ Signed(m) /\ ValidCreateDenom(m)
              /\ On(s)!validateCreateDenom(m) /\ On(s)!CanPayFee(AccOf[m.sender])
         /\ On(s)!MintOk(m) <=>
              LET to == OrSender(m.to, m) IN
              /\ Signed(m) /\ ValidMint(m)
              /\ On(s)!HasMetadata(m.denom) /\ On(s)!IsAdmin(m) /\ IsFactoryDenom(m.denom)
              /\ CanMintCoins(s.balances[m.denom], s.supply[m.denom], TokenFactoryModule, m.amount)
              /\ IsAddress(to) /\ ~Blocked(AccOf[to])
              /\ CanSend(Credit(s.balances[m.denom], TokenFactoryModule, m.amount),
                         TokenFactoryModule, AccOf[to], m.amount)
         /\ On(s)!BurnOk(m) <=>
              LET from == OrSender(m.from, m) IN
              /\ Signed(m) /\ ValidBurn(m)
              /\ On(s)!IsAdmin(m) /\ ~On(s)!IsModuleAccount(from)
              /\ IsFactoryDenom(m.denom) /\ IsAddress(from)
              /\ CanSend(s.balances[m.denom], AccOf[from], TokenFactoryModule, m.amount)
              /\ CanBurnCoins(Send(s.balances[m.denom], AccOf[from], TokenFactoryModule, m.amount),
                              s.supply[m.denom], TokenFactoryModule, m.amount)
         /\ On(s)!ForceTransferOk(m) <=>
              /\ Signed(m) /\ ValidForceTransfer(m)
              /\ On(s)!IsAdmin(m) /\ IsFactoryDenom(m.denom)
              /\ CanSend(s.balances[m.denom], AccOf[m.from], AccOf[m.to], m.amount)
         /\ On(s)!ChangeAdminOk(m) <=>
              Signed(m) /\ ValidChangeAdmin(m) /\ On(s)!IsAdmin(m) /\ ValidAdmin(m.newAdmin)
         /\ On(s)!SetDenomMetadataOk(m) <=>
              /\ Signed(m) /\ ValidSetDenomMetadata(m)
              /\ m.metadata \in CustomMetadata /\ On(s)!IsAdmin(m)
         /\ On(s)!BankSendOk(m) <=>
              /\ Signed(m) /\ IsAddress(m.to) /\ m.amount > 0 /\ ~Blocked(AccOf[m.to])
              /\ CanSend(s.balances[m.denom], AccOf[m.sender], AccOf[m.to], m.amount)
BY DEF On!CreateDenomOk, On!MintOk, On!BurnOk, On!ForceTransferOk, On!ChangeAdminOk,
  On!SetDenomMetadataOk, On!BankSendOk, On!Signed, Signed, On!IsAddress, IsAddress,
  On!ValidCreateDenom, ValidCreateDenom, On!ValidMint, ValidMint, On!ValidBurn, ValidBurn,
  On!ValidForceTransfer, ValidForceTransfer, On!ValidChangeAdmin, ValidChangeAdmin,
  On!ValidSetDenomMetadata, ValidSetDenomMetadata, On!ValidAdmin, ValidAdmin,
  On!IsFactoryDenom, IsFactoryDenom, On!FactoryDenoms, FactoryDenoms, On!OrSender, OrSender,
  On!Blocked, Blocked, On!ModuleAccounts, ModuleAccounts, On!CanSend, CanSend,
  On!CanMintCoins, CanMintCoins, On!CanBurnCoins, CanBurnCoins,
  On!Send, Send, On!Credit, Credit, On!Debit, Debit

\* What the bank does to a purse in one message.
LEMMA OnPurses ==
  ASSUME NEW s, NEW purse, NEW n, NEW a
  PROVE  /\ On(s)!mintTo(purse, n, a)
              = Send(Credit(purse, TokenFactoryModule, n), TokenFactoryModule, a, n)
         /\ On(s)!burnFrom(purse, n, a)
              = Debit(Send(purse, a, TokenFactoryModule, n), TokenFactoryModule, n)
BY DEF On!mintTo, On!burnFrom, On!Send, Send, On!Credit, Credit, On!Debit, Debit

\* A purse stays a purse of integers in the keeper's bank actions.
LEMMA PursesOfActions ==
  ASSUME NEW s, NEW purse \in [Accounts -> Int], NEW n \in Int, NEW a \in Accounts
  PROVE  /\ On(s)!mintTo(purse, n, a) \in [Accounts -> Int]
         /\ On(s)!burnFrom(purse, n, a) \in [Accounts -> Int]
<1>1. TokenFactoryModule \in Accounts
  BY ConstantsAssumption DEF ModuleAccounts
<1> DEFINE minted == Credit(purse, TokenFactoryModule, n)
           pooled == Send(purse, a, TokenFactoryModule, n)
<1>2. minted \in [Accounts -> Int] /\ pooled \in [Accounts -> Int]
  BY <1>1, PurseTypes
<1>3. /\ On(s)!mintTo(purse, n, a) = Send(minted, TokenFactoryModule, a, n)
      /\ On(s)!burnFrom(purse, n, a) = Debit(pooled, TokenFactoryModule, n)
  BY OnPurses
<1> HIDE DEF minted, pooled
<1>4. Send(minted, TokenFactoryModule, a, n) \in [Accounts -> Int]
  BY <1>1, <1>2, PurseTypes
<1>5. Debit(pooled, TokenFactoryModule, n) \in [Accounts -> Int]
  BY <1>1, <1>2, PurseTypes
<1> QED
  BY <1>3, <1>4, <1>5

\* The fields of messages.
LEMMA MessageFields ==
  /\ \A m \in CreateDenomMsgs : m.type = "create_denom" /\ m.sender \in Creators
  /\ \A m \in MintMsgs : m.type = "mint" /\ m.denom \in Denoms /\ m.amount \in Int
  /\ \A m \in BurnMsgs : m.type = "burn" /\ m.denom \in Denoms /\ m.amount \in Int
  /\ \A m \in ForceTransferMsgs :
       m.type = "force_transfer" /\ m.denom \in Denoms /\ m.amount \in Int
  /\ \A m \in ChangeAdminMsgs : m.type = "change_admin" /\ m.denom \in Denoms
  /\ \A m \in SetDenomMetadataMsgs :
       m.type = "set_denom_metadata" /\ m.denom \in Denoms /\ m.metadata \in Metadata
  /\ \A m \in BankSendMsgs : m.type = "bank_send" /\ m.denom \in Denoms /\ m.amount \in Int
<1>1. Amounts \subseteq Int
  BY ConstantsAssumption, MaxIntAssumption DEF Amount
<1> QED
  BY <1>1 DEF CreateDenomMsgs, MintMsgs, BurnMsgs, ForceTransferMsgs,
     BankSendMsgs, ChangeAdminMsgs, SetDenomMetadataMsgs

\* The name of a denom that may be created is one of the model's.
LEMMA NewDenomIsOne ==
  ASSUME NEW m \in CreateDenomMsgs, ValidCreateDenom(m)
  PROVE  DenomOf(m) \in FactoryDenoms /\ m.sender \in AddrStrings
BY MessageFields DEF DenomOf, FactoryDenoms, ValidCreateDenom, IsAddress

\* Handling a message leaves stores.
LEMMA HandledType ==
  ASSUME NEW s \in Stores, NEW m, NEW t, HandledOn(s, m, t)
  PROVE  t \in Stores /\ m \in Messages
<1>0. TokenFactoryModule \in Accounts /\ Denoms = FactoryDenoms \cup NativeDenoms
  BY ConstantsAssumption DEF ModuleAccounts, Denoms
<1>a. \A str \in AddrStrings : AccOf[str] \in Accounts
  BY AddressAssumption
<1>b. \A d \in Denoms : s.balances[d] \in [Accounts -> Int] /\ s.supply[d] \in Int
  BY DEF Stores
<1>1. CASE m \in CreateDenomMsgs /\ On(s)!CreateDenomOk(m)
           /\ t = Indexed(Recorded(Described(Charged(s, m), m), DenomOf(m), m.sender), m)
  <2>1. DenomOf(m) \in FactoryDenoms /\ m.sender \in AddrStrings
    BY <1>1, OnChecks, NewDenomIsOne
  <2>2. Charged(s, m) \in Stores
    BY <2>1, ChargedFields
  <2>3. Described(Charged(s, m), m) \in Stores
    BY <2>2, DescribedFields
  <2>4. Recorded(Described(Charged(s, m), m), DenomOf(m), m.sender) \in Stores
    BY <1>0, <2>1, <2>3, RecordedFields
  <2> QED
    BY <1>1, <2>1, <2>4, IndexedFields DEF Messages
<1>2. CASE m \in MintMsgs /\ On(s)!MintOk(m)
           /\ t = WithTotal(
              WithPurse(s, m.denom,
                On(s)!mintTo(s.balances[m.denom], m.amount, AccOf[OrSender(m.to, m)])),
              m.denom, s.supply[m.denom] + m.amount)
  <2> DEFINE p == On(s)!mintTo(s.balances[m.denom], m.amount, AccOf[OrSender(m.to, m)])
  <2>1. m.denom \in Denoms /\ m.amount \in Int /\ AccOf[OrSender(m.to, m)] \in Accounts
    BY <1>2, <1>a, MessageFields, OnChecks DEF IsAddress
  <2>2. p \in [Accounts -> Int]
    BY <1>b, <2>1, PursesOfActions
  <2>3. s.supply[m.denom] + m.amount \in Int
    BY <1>b, <2>1
  <2> HIDE DEF p
  <2>4. WithPurse(s, m.denom, p) \in Stores
    BY <2>1, <2>2, WithPurseFields
  <2>5. WithTotal(WithPurse(s, m.denom, p), m.denom, s.supply[m.denom] + m.amount) \in Stores
    BY <2>1, <2>3, <2>4, WithTotalFields
  <2> QED
    BY <1>2, <2>5 DEF Messages, p
<1>3. CASE m \in BurnMsgs /\ On(s)!BurnOk(m)
           /\ t = WithTotal(
              WithPurse(s, m.denom,
                On(s)!burnFrom(s.balances[m.denom], m.amount, AccOf[OrSender(m.from, m)])),
              m.denom, s.supply[m.denom] - m.amount)
  <2> DEFINE p == On(s)!burnFrom(s.balances[m.denom], m.amount, AccOf[OrSender(m.from, m)])
  <2>1. m.denom \in Denoms /\ m.amount \in Int /\ AccOf[OrSender(m.from, m)] \in Accounts
    BY <1>3, <1>a, MessageFields, OnChecks DEF IsAddress
  <2>2. p \in [Accounts -> Int]
    BY <1>b, <2>1, PursesOfActions
  <2>3. s.supply[m.denom] - m.amount \in Int
    BY <1>b, <2>1
  <2> HIDE DEF p
  <2>4. WithPurse(s, m.denom, p) \in Stores
    BY <2>1, <2>2, WithPurseFields
  <2>5. WithTotal(WithPurse(s, m.denom, p), m.denom, s.supply[m.denom] - m.amount) \in Stores
    BY <2>1, <2>3, <2>4, WithTotalFields
  <2> QED
    BY <1>3, <2>5 DEF Messages, p
<1>4. CASE m \in ForceTransferMsgs /\ On(s)!ForceTransferOk(m)
           /\ t = WithPurse(s, m.denom,
              Send(s.balances[m.denom], AccOf[m.from], AccOf[m.to], m.amount))
  <2>1. m.denom \in Denoms /\ m.amount \in Int /\ AccOf[m.from] \in Accounts /\ AccOf[m.to] \in Accounts
    BY <1>4, <1>a, MessageFields, OnChecks DEF IsAddress, ValidForceTransfer
  <2>2. Send(s.balances[m.denom], AccOf[m.from], AccOf[m.to], m.amount) \in [Accounts -> Int]
    BY <1>b, <2>1, PurseTypes
  <2> QED
    BY <1>4, <2>1, <2>2, WithPurseFields DEF Messages
<1>5. CASE m \in ChangeAdminMsgs /\ On(s)!ChangeAdminOk(m) /\ t = Recorded(s, m.denom, m.newAdmin)
  BY <1>5, MessageFields, OnChecks, RecordedFields DEF Messages, ValidAdmin, IsAddress
<1>6. CASE m \in SetDenomMetadataMsgs /\ On(s)!SetDenomMetadataOk(m)
           /\ t = [s EXCEPT !.denomMetadata[m.denom] = m.metadata]
  BY <1>6, MessageFields DEF Messages, Stores
<1>7. CASE m \in BankSendMsgs /\ On(s)!BankSendOk(m)
           /\ t = WithPurse(s, m.denom,
              Send(s.balances[m.denom], AccOf[m.sender], AccOf[m.to], m.amount))
  <2>1. m.denom \in Denoms /\ m.amount \in Int /\ AccOf[m.sender] \in Accounts /\ AccOf[m.to] \in Accounts
    BY <1>7, <1>a, MessageFields, OnChecks DEF IsAddress, Signed
  <2>2. Send(s.balances[m.denom], AccOf[m.sender], AccOf[m.to], m.amount) \in [Accounts -> Int]
    BY <1>b, <2>1, PurseTypes
  <2> QED
    BY <1>7, <2>1, <2>2, WithPurseFields DEF Messages
<1> QED
  BY <1>1, <1>2, <1>3, <1>4, <1>5, <1>6, <1>7 DEF HandledOn

-----------------------------------------------------------------------------
(* A handled message is a step of TokenFactory.                             *)

\* The checks and the operations that TokenFactory makes of the stores shown.
LEMMA SeenIsOn ==
  ASSUME NEW m
  PROVE  /\ On(seen)!CreateDenomOk(m) <=> Seen!CreateDenomOk(m)
         /\ On(seen)!MintOk(m) <=> Seen!MintOk(m)
         /\ On(seen)!BurnOk(m) <=> Seen!BurnOk(m)
         /\ On(seen)!ForceTransferOk(m) <=> Seen!ForceTransferOk(m)
         /\ On(seen)!ChangeAdminOk(m) <=> Seen!ChangeAdminOk(m)
         /\ On(seen)!SetDenomMetadataOk(m) <=> Seen!SetDenomMetadataOk(m)
         /\ On(seen)!BankSendOk(m) <=> Seen!BankSendOk(m)
BY DEF On!CreateDenomOk, On!MintOk, On!BurnOk, On!ForceTransferOk, On!ChangeAdminOk,
  On!SetDenomMetadataOk, On!BankSendOk, Seen!CreateDenomOk, Seen!MintOk, Seen!BurnOk,
  Seen!ForceTransferOk, Seen!ChangeAdminOk, Seen!SetDenomMetadataOk, Seen!BankSendOk,
  On!Signed, Seen!Signed, On!IsAddress, Seen!IsAddress, On!OrSender, Seen!OrSender,
  On!ValidCreateDenom, Seen!ValidCreateDenom, On!ValidMint, Seen!ValidMint,
  On!ValidBurn, Seen!ValidBurn, On!ValidForceTransfer, Seen!ValidForceTransfer,
  On!ValidChangeAdmin, Seen!ValidChangeAdmin, On!ValidAdmin, Seen!ValidAdmin,
  On!ValidSetDenomMetadata, Seen!ValidSetDenomMetadata,
  On!validateCreateDenom, Seen!validateCreateDenom, On!CanPayFee, Seen!CanPayFee,
  On!HasSupply, Seen!HasSupply, On!HasMetadata, Seen!HasMetadata, On!IsAdmin, Seen!IsAdmin,
  On!Admin, Seen!Admin, On!IsFactoryDenom, Seen!IsFactoryDenom,
  On!FactoryDenoms, Seen!FactoryDenoms, On!Blocked, Seen!Blocked,
  On!ModuleAccounts, Seen!ModuleAccounts, On!IsModuleAccount, Seen!IsModuleAccount,
  On!CanSend, Seen!CanSend, On!CanMintCoins, Seen!CanMintCoins,
  On!CanBurnCoins, Seen!CanBurnCoins, On!Send, Seen!Send, On!Credit, Seen!Credit,
  On!Debit, Seen!Debit

\* The bank actions of TokenFactory on the stores shown are the same.
LEMMA SeenPurses ==
  ASSUME NEW purse, NEW n, NEW a, NEW b
  PROVE  /\ Seen!mintTo(purse, n, a) = On(seen)!mintTo(purse, n, a)
         /\ Seen!burnFrom(purse, n, a) = On(seen)!burnFrom(purse, n, a)
         /\ Seen!forceTransfer(purse, n, a, b) = Send(purse, a, b, n)
         /\ Seen!Send(purse, a, b, n) = Send(purse, a, b, n)
BY DEF Seen!mintTo, Seen!burnFrom, Seen!forceTransfer, On!mintTo, On!burnFrom,
  Seen!Send, On!Send, Send, Seen!Credit, On!Credit, Credit, Seen!Debit, On!Debit, Debit

\* Its messages are the same.
LEMMA SeenSets ==
  /\ Seen!CreateDenomMsgs = CreateDenomMsgs /\ Seen!MintMsgs = MintMsgs
  /\ Seen!BurnMsgs = BurnMsgs /\ Seen!ForceTransferMsgs = ForceTransferMsgs
  /\ Seen!ChangeAdminMsgs = ChangeAdminMsgs
  /\ Seen!SetDenomMetadataMsgs = SetDenomMetadataMsgs
  /\ Seen!BankSendMsgs = BankSendMsgs
  /\ Seen!Denoms = Denoms
BY DEF Seen!CreateDenomMsgs, CreateDenomMsgs, Seen!MintMsgs, MintMsgs, Seen!BurnMsgs, BurnMsgs,
  Seen!ForceTransferMsgs, ForceTransferMsgs, Seen!ChangeAdminMsgs, ChangeAdminMsgs,
  Seen!SetDenomMetadataMsgs, SetDenomMetadataMsgs, Seen!BankSendMsgs, BankSendMsgs,
  Seen!Denoms, Denoms, Seen!FactoryDenoms, FactoryDenoms, Seen!Strings, Strings,
  Seen!Metadata, Metadata

\* A message shown is a step of TokenFactory.
LEMMA ShownIsStep ==
  ASSUME NEW m, seen \in Stores, HandledOn(seen, m, seen'), shown' = m
  PROVE  Seen!Next
<1>a. TokenFactoryModule \in Accounts /\ Denoms = FactoryDenoms \cup NativeDenoms
  BY ConstantsAssumption DEF ModuleAccounts, Denoms
<1>b. \A str \in AddrStrings : AccOf[str] \in Accounts
  BY AddressAssumption
<1>c. \A d \in Denoms : seen.balances[d] \in [Accounts -> Int] /\ seen.supply[d] \in Int
  BY DEF Stores
<1>d. Seen!Done(m)
  BY DEF Seen!Done
<1>1. CASE m \in CreateDenomMsgs /\ On(seen)!CreateDenomOk(m)
           /\ seen' = Indexed(Recorded(Described(Charged(seen, m), m), DenomOf(m), m.sender), m)
  <2> DEFINE paid == Charged(seen, m)
             described == Described(paid, m)
             recorded == Recorded(described, DenomOf(m), m.sender)
  <2>1. DenomOf(m) \in FactoryDenoms /\ m.sender \in AddrStrings
    BY <1>1, OnChecks, NewDenomIsOne
  <2>2. /\ paid \in Stores
        /\ paid.balances = [d \in Denoms |->
              IF d \in NativeDenoms
              THEN Send(seen.balances[d], AccOf[m.sender], DistributionModule, seen.creationFee[d])
              ELSE seen.balances[d]]
        /\ paid.communityPool
             = [n \in NativeDenoms |-> seen.communityPool[n] + seen.creationFee[n]]
        /\ paid.supply = seen.supply /\ paid.denomMetadata = seen.denomMetadata
        /\ paid.creationFee = seen.creationFee
        /\ paid.authority = seen.authority /\ paid.creators = seen.creators
    BY <2>1, ChargedFields
  <2> HIDE DEF paid
  <2>3. /\ described \in Stores
        /\ described.denomMetadata = [d \in Denoms |->
              IF d = DenomOf(m) /\ paid.denomMetadata[d] = NoMetadata
              THEN MinimalMetadata ELSE paid.denomMetadata[d]]
        /\ described.balances = paid.balances /\ described.supply = paid.supply
        /\ described.communityPool = paid.communityPool
        /\ described.creationFee = paid.creationFee
        /\ described.authority = paid.authority /\ described.creators = paid.creators
    BY <2>2, DescribedFields
  <2> HIDE DEF described
  <2>4. /\ recorded \in Stores
        /\ recorded.authority = [described.authority EXCEPT ![DenomOf(m)] = m.sender]
        /\ recorded.balances = described.balances /\ recorded.supply = described.supply
        /\ recorded.denomMetadata = described.denomMetadata
        /\ recorded.communityPool = described.communityPool
        /\ recorded.creationFee = described.creationFee
        /\ recorded.creators = described.creators
    BY <1>a, <2>1, <2>3, RecordedFields
  <2> HIDE DEF recorded
  <2>5. seen' = Indexed(recorded, m)
    BY <1>1 DEF recorded, described, paid
  <2>6. /\ seen'.creators = recorded.creators \cup {<<m.sender, DenomOf(m)>>}
        /\ seen'.balances = recorded.balances /\ seen'.supply = recorded.supply
        /\ seen'.denomMetadata = recorded.denomMetadata
        /\ seen'.communityPool = recorded.communityPool
        /\ seen'.creationFee = recorded.creationFee
        /\ seen'.authority = recorded.authority
    BY <2>1, <2>4, <2>5, IndexedFields
  <2>7. Seen!CreateDenomOk(m)
    BY <1>1, SeenIsOn
  <2>8. Seen!chargeForCreateDenom(AccOf[m.sender])
    BY <2>2, <2>3, <2>4, <2>6, SeenSets, SeenPurses DEF Seen!chargeForCreateDenom
  <2>9. seen'.denomMetadata = Seen!WithMetadata(seen.denomMetadata, {DenomOf(m)})
    BY <2>2, <2>3, <2>4, <2>6, SeenSets DEF Seen!WithMetadata
  <2>10. /\ seen'.authority = [seen.authority EXCEPT ![DenomOf(m)] = m.sender]
         /\ seen'.creators = seen.creators \cup {<<m.sender, DenomOf(m)>>}
         /\ seen'.supply = seen.supply /\ seen'.creationFee = seen.creationFee
    BY <2>2, <2>3, <2>4, <2>6
  <2>11. Seen!CreateDenom(m)
    BY <1>d, <2>7, <2>8, <2>9, <2>10 DEF Seen!CreateDenom, DenomOf
  <2> QED
    BY <1>1, <2>11, SeenSets DEF Seen!Next
<1>2. CASE m \in MintMsgs /\ On(seen)!MintOk(m)
           /\ seen' = WithTotal(
              WithPurse(seen, m.denom,
                On(seen)!mintTo(seen.balances[m.denom], m.amount, AccOf[OrSender(m.to, m)])),
              m.denom, seen.supply[m.denom] + m.amount)
  <2> DEFINE p == On(seen)!mintTo(seen.balances[m.denom], m.amount, AccOf[OrSender(m.to, m)])
             t == WithPurse(seen, m.denom, p)
  <2>1. m.denom \in Denoms /\ m.amount \in Int /\ AccOf[OrSender(m.to, m)] \in Accounts
    BY <1>2, <1>b, MessageFields, OnChecks DEF IsAddress
  <2>2. p \in [Accounts -> Int]
    BY <1>c, <2>1, PursesOfActions
  <2>3. p = Seen!mintTo(seen.balances[m.denom], m.amount, AccOf[Seen!OrSender(m.to, m)])
    BY SeenPurses DEF OrSender, Seen!OrSender
  <2> HIDE DEF p
  <2>4. /\ t \in Stores
        /\ t.balances = [seen.balances EXCEPT ![m.denom] = p]
        /\ t.supply = seen.supply /\ t.denomMetadata = seen.denomMetadata
        /\ t.communityPool = seen.communityPool /\ t.creationFee = seen.creationFee
        /\ t.authority = seen.authority /\ t.creators = seen.creators
    BY <2>1, <2>2, WithPurseFields
  <2>5. seen' = WithTotal(t, m.denom, seen.supply[m.denom] + m.amount)
    BY <1>2 DEF p
  <2>6. seen.supply[m.denom] + m.amount \in Int
    BY <1>c, <2>1
  <2> HIDE DEF t
  <2>7. /\ seen'.supply = [t.supply EXCEPT ![m.denom] = seen.supply[m.denom] + m.amount]
        /\ seen'.balances = t.balances /\ seen'.denomMetadata = t.denomMetadata
        /\ seen'.communityPool = t.communityPool /\ seen'.creationFee = t.creationFee
        /\ seen'.authority = t.authority /\ seen'.creators = t.creators
    BY <2>1, <2>4, <2>5, <2>6, WithTotalFields
  <2>8. Seen!MintOk(m)
    BY <1>2, SeenIsOn
  <2>9. Seen!Mint(m)
    BY <1>d, <2>3, <2>4, <2>7, <2>8 DEF Seen!Mint
  <2> QED
    BY <1>2, <2>9, SeenSets DEF Seen!Next
<1>3. CASE m \in BurnMsgs /\ On(seen)!BurnOk(m)
           /\ seen' = WithTotal(
              WithPurse(seen, m.denom,
                On(seen)!burnFrom(seen.balances[m.denom], m.amount, AccOf[OrSender(m.from, m)])),
              m.denom, seen.supply[m.denom] - m.amount)
  <2> DEFINE p == On(seen)!burnFrom(seen.balances[m.denom], m.amount, AccOf[OrSender(m.from, m)])
             t == WithPurse(seen, m.denom, p)
  <2>1. m.denom \in Denoms /\ m.amount \in Int /\ AccOf[OrSender(m.from, m)] \in Accounts
    BY <1>3, <1>b, MessageFields, OnChecks DEF IsAddress
  <2>2. p \in [Accounts -> Int]
    BY <1>c, <2>1, PursesOfActions
  <2>3. p = Seen!burnFrom(seen.balances[m.denom], m.amount, AccOf[Seen!OrSender(m.from, m)])
    BY SeenPurses DEF OrSender, Seen!OrSender
  <2> HIDE DEF p
  <2>4. /\ t \in Stores
        /\ t.balances = [seen.balances EXCEPT ![m.denom] = p]
        /\ t.supply = seen.supply /\ t.denomMetadata = seen.denomMetadata
        /\ t.communityPool = seen.communityPool /\ t.creationFee = seen.creationFee
        /\ t.authority = seen.authority /\ t.creators = seen.creators
    BY <2>1, <2>2, WithPurseFields
  <2>5. seen' = WithTotal(t, m.denom, seen.supply[m.denom] - m.amount)
    BY <1>3 DEF p
  <2>6. seen.supply[m.denom] - m.amount \in Int
    BY <1>c, <2>1
  <2> HIDE DEF t
  <2>7. /\ seen'.supply = [t.supply EXCEPT ![m.denom] = seen.supply[m.denom] - m.amount]
        /\ seen'.balances = t.balances /\ seen'.denomMetadata = t.denomMetadata
        /\ seen'.communityPool = t.communityPool /\ seen'.creationFee = t.creationFee
        /\ seen'.authority = t.authority /\ seen'.creators = t.creators
    BY <2>1, <2>4, <2>5, <2>6, WithTotalFields
  <2>8. Seen!BurnOk(m)
    BY <1>3, SeenIsOn
  <2>9. Seen!Burn(m)
    BY <1>d, <2>3, <2>4, <2>7, <2>8 DEF Seen!Burn
  <2> QED
    BY <1>3, <2>9, SeenSets DEF Seen!Next
<1>4. CASE m \in ForceTransferMsgs /\ On(seen)!ForceTransferOk(m)
           /\ seen' = WithPurse(seen, m.denom,
              Send(seen.balances[m.denom], AccOf[m.from], AccOf[m.to], m.amount))
  <2>1. m.denom \in Denoms /\ m.amount \in Int /\ AccOf[m.from] \in Accounts /\ AccOf[m.to] \in Accounts
    BY <1>4, <1>b, MessageFields, OnChecks DEF IsAddress, ValidForceTransfer
  <2> DEFINE p == Send(seen.balances[m.denom], AccOf[m.from], AccOf[m.to], m.amount)
  <2>2. p \in [Accounts -> Int]
    BY <1>c, <2>1, PurseTypes
  <2>3. p = Seen!forceTransfer(seen.balances[m.denom], m.amount, AccOf[m.from], AccOf[m.to])
    BY SeenPurses
  <2>4. Seen!ForceTransferOk(m) /\ seen' = WithPurse(seen, m.denom, p)
    BY <1>4, SeenIsOn
  <2> HIDE DEF p
  <2>5. /\ seen'.balances = [seen.balances EXCEPT ![m.denom] = p]
        /\ seen'.supply = seen.supply /\ seen'.denomMetadata = seen.denomMetadata
        /\ seen'.communityPool = seen.communityPool /\ seen'.creationFee = seen.creationFee
        /\ seen'.authority = seen.authority /\ seen'.creators = seen.creators
    BY <2>1, <2>2, <2>4, WithPurseFields
  <2>6. Seen!ForceTransfer(m)
    BY <1>d, <2>3, <2>4, <2>5 DEF Seen!ForceTransfer
  <2> QED
    BY <1>4, <2>6, SeenSets DEF Seen!Next
<1>5. CASE m \in ChangeAdminMsgs /\ On(seen)!ChangeAdminOk(m)
           /\ seen' = Recorded(seen, m.denom, m.newAdmin)
  <2>1. m.denom \in Denoms /\ m.newAdmin \in AddrStrings
    BY <1>5, MessageFields, OnChecks DEF ValidChangeAdmin, IsAddress
  <2>2. Seen!ChangeAdminOk(m)
    BY <1>5, SeenIsOn
  <2>3. Seen!ChangeAdmin(m)
    BY <1>5, <1>d, <2>1, <2>2, RecordedFields DEF Seen!ChangeAdmin
  <2> QED
    BY <1>5, <2>3, SeenSets DEF Seen!Next
<1>6. CASE m \in SetDenomMetadataMsgs /\ On(seen)!SetDenomMetadataOk(m)
           /\ seen' = [seen EXCEPT !.denomMetadata[m.denom] = m.metadata]
  <2>1. m.denom \in Denoms /\ m.metadata \in Metadata
    BY <1>6, MessageFields
  <2>2. Seen!SetDenomMetadataOk(m)
    BY <1>6, SeenIsOn
  <2>3. Seen!SetDenomMetadata(m)
    BY <1>6, <1>d, <2>1, <2>2 DEF Seen!SetDenomMetadata, Stores
  <2> QED
    BY <1>6, <2>3, SeenSets DEF Seen!Next
<1>7. CASE m \in BankSendMsgs /\ On(seen)!BankSendOk(m)
           /\ seen' = WithPurse(seen, m.denom,
              Send(seen.balances[m.denom], AccOf[m.sender], AccOf[m.to], m.amount))
  <2>1. m.denom \in Denoms /\ m.amount \in Int /\ AccOf[m.sender] \in Accounts /\ AccOf[m.to] \in Accounts
    BY <1>7, <1>b, MessageFields, OnChecks DEF IsAddress, Signed
  <2> DEFINE p == Send(seen.balances[m.denom], AccOf[m.sender], AccOf[m.to], m.amount)
  <2>2. p \in [Accounts -> Int]
    BY <1>c, <2>1, PurseTypes
  <2>3. p = Seen!Send(seen.balances[m.denom], AccOf[m.sender], AccOf[m.to], m.amount)
    BY SeenPurses
  <2>4. Seen!BankSendOk(m) /\ seen' = WithPurse(seen, m.denom, p)
    BY <1>7, SeenIsOn
  <2> HIDE DEF p
  <2>5. /\ seen'.balances = [seen.balances EXCEPT ![m.denom] = p]
        /\ seen'.supply = seen.supply /\ seen'.denomMetadata = seen.denomMetadata
        /\ seen'.communityPool = seen.communityPool /\ seen'.creationFee = seen.creationFee
        /\ seen'.authority = seen.authority /\ seen'.creators = seen.creators
    BY <2>1, <2>2, <2>4, WithPurseFields
  <2>6. Seen!BankSend(m)
    BY <1>d, <2>3, <2>4, <2>5 DEF Seen!BankSend
  <2> QED
    BY <1>7, <2>6, SeenSets DEF Seen!Next
<1> QED
  BY <1>1, <1>2, <1>3, <1>4, <1>5, <1>6, <1>7 DEF HandledOn

-----------------------------------------------------------------------------
(* The calls: what the handlers read, and how they end.                     *)

\* What a handler reads from the branch, it reads from the stores it is.
LEMMA BranchIsOn ==
  ASSUME NEW m, NEW payer, NEW str, NEW metadata, NEW denoms
  PROVE  /\ Branch!validateCreateDenom(m) <=> On(cache)!validateCreateDenom(m)
         /\ Branch!CanPayFee(payer) <=> On(cache)!CanPayFee(payer)
         /\ Branch!HasMetadata(m.denom) <=> On(cache)!HasMetadata(m.denom)
         /\ Branch!IsAdmin(m) <=> On(cache)!IsAdmin(m)
         /\ Branch!IsModuleAccount(str) <=> On(cache)!IsModuleAccount(str)
         /\ Branch!WithMetadata(metadata, denoms)
              = [d \in Denoms |-> IF d \in denoms /\ metadata[d] = NoMetadata
                                  THEN MinimalMetadata ELSE metadata[d]]
BY DEF Branch!validateCreateDenom, On!validateCreateDenom, Branch!HasSupply, On!HasSupply,
  Branch!HasMetadata, On!HasMetadata, Branch!CanPayFee, On!CanPayFee, Branch!CanSend, On!CanSend,
  Branch!Debit, On!Debit, Branch!IsAdmin, On!IsAdmin, Branch!Admin, On!Admin,
  Branch!IsModuleAccount, On!IsModuleAccount, Branch!ModuleAccounts, On!ModuleAccounts,
  Branch!WithMetadata, Branch!Denoms, Denoms, Branch!FactoryDenoms, FactoryDenoms

\* The message that passes ValidateBasic is one of its type.
LEMMA AdmissibleMessages ==
  ASSUME NEW m \in Admissible
  PROVE  /\ m \in Messages /\ Signed(m)
         /\ m.type \in {"create_denom", "bank_send"} \cup DOMAIN AfterAuthorize
         /\ m.type = "create_denom" => m \in CreateDenomMsgs /\ ValidCreateDenom(m)
         /\ m.type = "mint" => m \in MintMsgs /\ ValidMint(m)
         /\ m.type = "burn" => m \in BurnMsgs /\ ValidBurn(m)
         /\ m.type = "force_transfer" => m \in ForceTransferMsgs /\ ValidForceTransfer(m)
         /\ m.type = "change_admin" => m \in ChangeAdminMsgs /\ ValidChangeAdmin(m)
         /\ m.type = "set_denom_metadata" =>
              m \in SetDenomMetadataMsgs /\ ValidSetDenomMetadata(m)
         /\ m.type = "bank_send" => m \in BankSendMsgs /\ m.amount > 0
<1>1. m \in Messages /\ Signed(m)
  BY DEF Admissible, Messages
<1>2. DOMAIN AfterAuthorize
        = {"mint", "burn", "force_transfer", "change_admin", "set_denom_metadata"}
  BY DEF AfterAuthorize
<1> QED
  BY <1>1, <1>2, MessageFields DEF Admissible

\* A sequence and the same with an element more.
LEMMA SequenceFacts ==
  ASSUME NEW S, NEW h \in Seq(S)
  PROVE  /\ Len(h) \in Nat
         /\ \A k \in 1 .. Len(h) : h[k] \in S
         /\ \A e \in S :
              /\ Append(h, e) \in Seq(S)
              /\ Len(Append(h, e)) = Len(h) + 1
              /\ Append(h, e)[Len(h) + 1] = e
              /\ \A k \in 1 .. Len(h) : Append(h, e)[k] = h[k]
OBVIOUS

\* The latest stores are stores, and change only with what they are read from.
LEMMA LatestType == CallsType => Latest \in Stores
<1> SUFFICES ASSUME CallsType PROVE Latest \in Stores
  OBVIOUS
<1>1. handled \in Seq(HandledMsgs)
  BY DEF CallsType
<1>2. Len(handled) \in Nat /\ \A k \in 1 .. Len(handled) : handled[k] \in HandledMsgs
  <2> HIDE DEF HandledMsgs
  <2> QED
    BY <1>1, SequenceFacts
<1>3. CASE Len(handled) = 0
  <2>1. Latest = seen
    BY <1>3 DEF Latest, Before
  <2> QED
    BY <2>1 DEF CallsType
<1>4. CASE Len(handled) # 0
  <2>1. Len(handled) \in 1 .. Len(handled) /\ Len(handled) + 1 # 1
        /\ Len(handled) + 1 - 1 = Len(handled)
    BY <1>2, <1>4
  <2>2. handled[Len(handled)].after \in Stores
    BY <1>2, <2>1 DEF HandledMsgs
  <2> QED
    BY <2>1, <2>2 DEF Latest, Before
<1> QED
  BY <1>3, <1>4

\* No new link, no new stores.
LEMMA LatestKept ==
  ASSUME UNCHANGED <<handled, seen>>
  PROVE  Latest' = Latest
BY DEF Latest, Before

\* A transaction that is dropped leaves the stores last shown.
LEMMA LatestDropped ==
  ASSUME handled' = <<>>
  PROVE  Latest' = seen'
BY DEF Latest, Before

\* The latest stores are those that the last message left.
LEMMA LatestAppended ==
  ASSUME CallsType, NEW e \in HandledMsgs, handled' = Append(handled, e)
  PROVE  Latest' = e.after
<1>1. Len(handled') = Len(handled) + 1 /\ handled'[Len(handled) + 1] = e /\ Len(handled) \in Nat
  BY SequenceFacts DEF CallsType
<1>2. Len(handled') + 1 # 1 /\ Len(handled') + 1 - 1 = Len(handled) + 1
  BY <1>1
<1> QED
  BY <1>1, <1>2 DEF Latest, Before

\* A message handled on the latest stores is one more link of the chain.
LEMMA ChainAppended ==
  ASSUME CallsType, Chained, NEW m \in Messages, NEW t \in Stores, HandledOn(Latest, m, t),
         handled' = Append(handled, [msg |-> m, after |-> t]), seen' = seen
  PROVE  Chained'
<1> DEFINE L == Len(handled)
           e == [msg |-> m, after |-> t]
<1>1. /\ L \in Nat /\ Len(handled') = L + 1
      /\ handled'[L + 1] = e
      /\ \A k \in 1 .. L : handled'[k] = handled[k]
  <2>1. handled \in Seq(HandledMsgs) /\ e \in HandledMsgs
    BY DEF CallsType, HandledMsgs
  <2> HIDE DEF e
  <2> QED
    BY <2>1, SequenceFacts DEF e
<1>2. ASSUME NEW k \in 1 .. L + 1 PROVE Before(k)' = Before(k)
  <2> HIDE DEF L
  <2> QED
    BY <1>1, <1>2 DEF Before
<1>3. ASSUME NEW k \in 1 .. L PROVE HandledOn(Before(k), handled[k].msg, handled[k].after)
  BY <1>3 DEF Chained
<1>4. HandledOn(Before(L + 1), e.msg, e.after)
  BY DEF Latest
<1> HIDE DEF L, e
<1>5. ASSUME NEW k \in 1 .. L + 1
      PROVE  HandledOn(Before(k), handled'[k].msg, handled'[k].after)
  <2>1. CASE k = L + 1
    BY <1>1, <1>4, <2>1
  <2>2. CASE k # L + 1
    <3>1. k \in 1 .. L
      BY <1>1, <2>2
    <3> QED
      BY <1>1, <1>3, <3>1
  <2> QED
    BY <2>1, <2>2
<1>6. ASSUME NEW k \in 1 .. Len(handled')
      PROVE  HandledOn(Before(k), handled[k].msg, handled[k].after)'
  BY <1>1, <1>2, <1>5
<1> QED
  BY <1>6 DEF Chained

\* A call that is not the handler's last.
LEMMA HandlerGoesOn ==
  ASSUME KInv, pc \in CallNames, pc' \in CallNames, cache' \in Stores, InHandler',
         UNCHANGED <<stores, msg, handled, todo, seen>>
  PROVE  KInv'
<1>1. CallsType'
  BY DEF KInv, CallsType
<1>2. Chained'
  BY DEF KInv, Chained, Before
<1>3. Aligned' /\ InImport'
  BY DEF KInv, Aligned, InImport, CallNames
<1> QED
  BY <1>1, <1>2, <1>3 DEF KInv

\* The handler's last call.
LEMMA HandlerEnds ==
  ASSUME KInv, pc \in CallNames, HandledOn(Latest, msg, cache'), pc' = "next",
         handled' = Append(handled, [msg |-> msg, after |-> cache']),
         UNCHANGED <<stores, todo, seen>>
  PROVE  KInv'
<1>1. Latest \in Stores
  BY LatestType DEF KInv
<1>2. cache' \in Stores /\ msg \in Messages
  BY <1>1, HandledType
<1> DEFINE e == [msg |-> msg, after |-> cache']
<1>e. e \in HandledMsgs
  BY <1>2 DEF HandledMsgs
<1>3. CallsType'
  <2>1. handled' \in Seq(HandledMsgs)
    <3>1. handled \in Seq(HandledMsgs) /\ handled' = Append(handled, e)
      BY DEF KInv, CallsType
    <3> HIDE DEF e
    <3> QED
      BY <1>e, <3>1, SequenceFacts
  <2> QED
    BY <1>2, <2>1 DEF KInv, CallsType
<1>4. Chained'
  BY <1>2, ChainAppended DEF KInv
<1>5. Latest' = cache'
  BY <1>e, LatestAppended DEF KInv
<1>6. Aligned' /\ InHandler' /\ InImport'
  BY <1>5 DEF KInv, Aligned, InHandler, InImport, CallNames
<1> QED
  BY <1>3, <1>4, <1>6 DEF KInv

\* The calls of CreateDenom: what each writes is kept in InHandler until the
\* last one completes the creation.
LEMMA CreateCalls ==
  ASSUME KInv, Validate \/ Charge \/ ConsumeGas \/ WriteMetadata \/ WriteAuthority \/ WriteCreator
  PROVE  KInv'
<1>0. Latest \in Stores /\ cache \in Stores
  BY LatestType DEF KInv, CallsType
<1>1. CASE Validate
  <2>1. cache = Latest /\ msg \in Admissible /\ msg.type = "create_denom"
    BY <1>1 DEF KInv, InHandler, Validate, Call
  <2>2. On(Latest)!validateCreateDenom(msg)
    BY <1>1, <2>1, BranchIsOn DEF Validate, Call
  <2>3. UNCHANGED <<stores, msg, handled, todo, seen, cache>> /\ pc = "validate" /\ pc' = "charge"
    BY <1>1 DEF Validate, Call
  <2>4. Latest' = Latest
    BY <2>3, LatestKept
  <2>5. InHandler'
    BY <2>1, <2>2, <2>3, <2>4 DEF InHandler
  <2> QED
    BY <1>0, <2>3, <2>5, HandlerGoesOn DEF CallNames
<1>2. CASE Charge
  <2>1. /\ cache = Latest /\ msg \in Admissible /\ msg.type = "create_denom"
        /\ On(Latest)!validateCreateDenom(msg)
    BY <1>2 DEF KInv, InHandler, Charge, Call
  <2>2. On(Latest)!CanPayFee(AccOf[msg.sender])
    BY <1>2, <2>1, BranchIsOn DEF Charge, Call
  <2>3. /\ UNCHANGED <<stores, msg, handled, todo, seen>>
        /\ pc = "charge" /\ pc' = "consume gas"
        /\ cache' = Charged(cache, msg)
    BY <1>2 DEF Charge, Call, Charged
  <2>4. Latest' = Latest
    BY <2>3, LatestKept
  <2>5. Paying
    BY <2>1, <2>2, AdmissibleMessages, OnChecks DEF Paying
  <2>6. cache' \in Stores
    <3>1. msg.sender \in AddrStrings
      BY <2>1, AdmissibleMessages DEF Signed, IsAddress
    <3> QED
      BY <1>0, <2>3, <3>1, ChargedFields
  <2>7. Paying'
    BY <2>3, <2>4, <2>5 DEF Paying
  <2>8. InHandler'
    BY <2>1, <2>3, <2>4, <2>7 DEF InHandler
  <2> QED
    BY <2>3, <2>6, <2>8, HandlerGoesOn DEF CallNames
<1>3. CASE ConsumeGas
  <2>1. Paying /\ cache = Charged(Latest, msg)
    BY <1>3 DEF KInv, InHandler, ConsumeGas, Call
  <2>2. /\ UNCHANGED <<stores, msg, handled, todo, seen, cache>>
        /\ pc = "consume gas" /\ pc' = "write metadata"
    BY <1>3 DEF ConsumeGas, Call
  <2>3. Latest' = Latest
    BY <2>2, LatestKept
  <2>4. Paying'
    BY <2>1, <2>2, <2>3 DEF Paying
  <2>5. InHandler'
    BY <2>1, <2>2, <2>3, <2>4 DEF InHandler
  <2> QED
    BY <1>0, <2>2, <2>5, HandlerGoesOn DEF CallNames
<1>4. CASE WriteMetadata
  <2>1. Paying /\ cache = Charged(Latest, msg)
    BY <1>4 DEF KInv, InHandler, WriteMetadata, Call
  <2>2. /\ UNCHANGED <<stores, msg, handled, todo, seen>>
        /\ pc = "write metadata" /\ pc' = "write authority"
        /\ cache' = [cache EXCEPT !.denomMetadata = Branch!WithMetadata(@, {NewDenom})]
    BY <1>4 DEF WriteMetadata, Call
  <2>3. cache' = Described(cache, msg)
    <3>1. NewDenom = DenomOf(msg)
      BY DEF NewDenom, DenomOf
    <3>2. Branch!WithMetadata(cache.denomMetadata, {NewDenom})
            = [d \in Denoms |-> IF d = DenomOf(msg) /\ cache.denomMetadata[d] = NoMetadata
                                THEN MinimalMetadata ELSE cache.denomMetadata[d]]
      BY <3>1, BranchIsOn
    <3> QED
      BY <2>2, <3>2 DEF Described
  <2>4. Latest' = Latest
    BY <2>2, LatestKept
  <2>5. Paying'
    BY <2>1, <2>2, <2>4 DEF Paying
  <2>6. cache' \in Stores
    BY <1>0, <2>3, DescribedFields
  <2>7. InHandler'
    BY <2>1, <2>2, <2>3, <2>4, <2>5 DEF InHandler
  <2> QED
    BY <2>2, <2>6, <2>7, HandlerGoesOn DEF CallNames
<1>5. CASE WriteAuthority
  <2>1. Paying /\ cache = Described(Charged(Latest, msg), msg)
    BY <1>5 DEF KInv, InHandler, WriteAuthority, Call
  <2>2. /\ UNCHANGED <<stores, msg, handled, todo, seen>>
        /\ pc = "write authority" /\ pc' = "write creator"
        /\ cache' = Recorded(cache, DenomOf(msg), msg.sender)
    BY <1>5 DEF WriteAuthority, Call, Recorded, NewDenom, DenomOf
  <2>3. Latest' = Latest
    BY <2>2, LatestKept
  <2>4. Paying'
    BY <2>1, <2>2, <2>3 DEF Paying
  <2>5. cache' \in Stores
    <3>1. DenomOf(msg) \in Denoms /\ msg.sender \in AddrStrings
      BY <2>1, OnChecks, NewDenomIsOne DEF Paying, Denoms
    <3> QED
      BY <1>0, <2>2, <3>1, RecordedFields
  <2>6. InHandler'
    BY <2>1, <2>2, <2>3, <2>4 DEF InHandler
  <2> QED
    BY <2>2, <2>5, <2>6, HandlerGoesOn DEF CallNames
<1>6. CASE WriteCreator
  <2>1. /\ Paying
        /\ cache = Recorded(Described(Charged(Latest, msg), msg), DenomOf(msg), msg.sender)
    BY <1>6 DEF KInv, InHandler, WriteCreator, LastCall
  <2>2. /\ UNCHANGED <<stores, todo, seen>>
        /\ pc = "write creator" /\ pc' = "next"
        /\ cache' = Indexed(cache, msg)
        /\ handled' = Append(handled, [msg |-> msg, after |-> cache'])
    BY <1>6 DEF WriteCreator, LastCall, Indexed, NewDenom, DenomOf
  <2>3. HandledOn(Latest, msg, cache')
    BY <2>1, <2>2 DEF HandledOn, Paying
  <2> QED
    BY <2>2, <2>3, HandlerEnds DEF CallNames
<1> QED
  BY <1>1, <1>2, <1>3, <1>4, <1>5, <1>6

\* The error returns that the admin's messages share.
LEMMA AuthorizeCall ==
  ASSUME KInv, Authorize
  PROVE  KInv'
<1>0. cache \in Stores
  BY DEF KInv, CallsType
<1>1. cache = Latest /\ msg \in Admissible /\ msg.type \in DOMAIN AfterAuthorize
  BY DEF KInv, InHandler, Authorize
<1>2. /\ UNCHANGED <<stores, msg, handled, todo, seen, cache>>
      /\ pc = "authorize" /\ pc' = AfterAuthorize[msg.type]
      /\ Authorized
  BY DEF Authorize, Call
<1>3. Latest' = Latest
  BY <1>2, LatestKept
<1>4. OfAdmin({msg.type})
  BY <1>1, <1>2, BranchIsOn DEF Authorized, OfAdmin
<1>5. OfAdmin({msg.type})'
  BY <1>2, <1>3, <1>4 DEF OfAdmin
<1>6. \/ msg.type = "mint" /\ pc' = "mint coins"
      \/ msg.type = "burn" /\ pc' = "collect"
      \/ msg.type = "force_transfer" /\ pc' = "transfer"
      \/ msg.type = "change_admin" /\ pc' = "set admin"
      \/ msg.type = "set_denom_metadata" /\ pc' = "set metadata"
  <2>1. msg.type \in {"mint", "burn", "force_transfer", "change_admin", "set_denom_metadata"}
    BY <1>1 DEF AfterAuthorize
  <2>2. /\ AfterAuthorize["mint"] = "mint coins"
        /\ AfterAuthorize["burn"] = "collect"
        /\ AfterAuthorize["force_transfer"] = "transfer"
        /\ AfterAuthorize["change_admin"] = "set admin"
        /\ AfterAuthorize["set_denom_metadata"] = "set metadata"
    BY DEF AfterAuthorize
  <2> QED
    BY <1>2, <2>1, <2>2
<1>7. InHandler'
  BY <1>1, <1>2, <1>3, <1>5, <1>6 DEF InHandler
<1> QED
  BY <1>0, <1>2, <1>6, <1>7, HandlerGoesOn DEF CallNames

\* The last purse and the last supply written are the ones that stay, and it
\* does not matter which of the two is written first.
LEMMA WritesOverwrite ==
  ASSUME NEW s \in Stores, NEW d \in Denoms, NEW p \in [Accounts -> Int],
         NEW q \in [Accounts -> Int], NEW n \in Int
  PROVE  /\ WithPurse(WithPurse(s, d, p), d, q) = WithPurse(s, d, q)
         /\ WithPurse(WithTotal(WithPurse(s, d, p), d, n), d, q)
              = WithTotal(WithPurse(s, d, q), d, n)
BY DEF WithPurse, WithTotal, Stores

\* What the admin's calls know of their message.
LEMMA OfAdminFields ==
  ASSUME CallsType, NEW type, OfAdmin({type}), type \in DOMAIN AfterAuthorize
  PROVE  /\ msg \in Admissible /\ msg.type = type
         /\ Latest \in Stores /\ msg.denom \in Denoms
         /\ Latest.balances[msg.denom] \in [Accounts -> Int]
         /\ Latest.supply[msg.denom] \in Int
         /\ type \in {"mint", "burn", "force_transfer"} => msg.amount \in Int
<1>1. msg \in Admissible /\ msg.type = type
  BY DEF OfAdmin
<1>2. Latest \in Stores
  BY LatestType
<1>3. type \in {"mint", "burn", "force_transfer", "change_admin", "set_denom_metadata"}
  BY DEF AfterAuthorize
<1>4. msg.denom \in Denoms /\ (type \in {"mint", "burn", "force_transfer"} => msg.amount \in Int)
  BY <1>1, <1>3, AdmissibleMessages, MessageFields
<1> QED
  BY <1>1, <1>2, <1>4 DEF Stores

\* Mint: coins appear in the module's account, then go to the recipient.
LEMMA MintCalls ==
  ASSUME KInv, MintCoins \/ SendMinted
  PROVE  KInv'
<1>a. "mint" \in DOMAIN AfterAuthorize /\ TokenFactoryModule \in Accounts
  BY ConstantsAssumption DEF AfterAuthorize, ModuleAccounts
<1>0. CallsType /\ OfAdmin({"mint"})
  BY DEF KInv, InHandler, MintCoins, SendMinted, Call, LastCall
<1>1. /\ msg \in Admissible /\ msg.type = "mint"
      /\ Latest \in Stores /\ msg.denom \in Denoms
      /\ Latest.balances[msg.denom] \in [Accounts -> Int]
      /\ Latest.supply[msg.denom] \in Int /\ msg.amount \in Int
  BY <1>0, <1>a, OfAdminFields
<1> DEFINE minted == Credit(Latest.balances[msg.denom], TokenFactoryModule, msg.amount)
           total  == Latest.supply[msg.denom] + msg.amount
<1>2. minted \in [Accounts -> Int] /\ total \in Int
  <2>1. minted \in [Accounts -> Int]
    BY <1>1, <1>a, PurseTypes
  <2>2. total \in Int
    BY <1>1
  <2> QED
    BY <2>1, <2>2
<1>3. Credited(Latest, msg) = WithTotal(WithPurse(Latest, msg.denom, minted), msg.denom, total)
  BY DEF Credited
<1>4. CASE MintCoins
  <2>1. cache = Latest
    BY <1>4 DEF KInv, InHandler, MintCoins, Call
  <2>2. /\ UNCHANGED <<stores, msg, handled, todo, seen>>
        /\ pc = "mint coins" /\ pc' = "send minted"
        /\ CanMintCoins(cache.balances[msg.denom], cache.supply[msg.denom],
                        TokenFactoryModule, msg.amount)
    BY <1>4 DEF MintCoins, Call, Purse, Total
  <2>3. cache' = Credited(cache, msg)
    <3>1. cache' = [cache EXCEPT !.balances[msg.denom] = minted, !.supply[msg.denom] = total]
      BY <1>4, <2>1 DEF MintCoins, Call
    <3> HIDE DEF minted, total
    <3>2. cache' = WithTotal(WithPurse(Latest, msg.denom, minted), msg.denom, total)
      BY <3>1, <2>1, <1>1, <1>2 DEF WithTotal, WithPurse, Stores
    <3> QED
      BY <3>2, <2>1, <1>3
  <2>4. Latest' = Latest
    BY <2>2, LatestKept
  <2>5. cache' \in Stores
    <3> HIDE DEF minted, total
    <3>1. WithPurse(Latest, msg.denom, minted) \in Stores
      BY <1>1, <1>2, WithPurseFields
    <3>2. WithTotal(WithPurse(Latest, msg.denom, minted), msg.denom, total) \in Stores
      BY <3>1, <1>1, <1>2, WithTotalFields
    <3> QED
      BY <3>2, <2>1, <2>3, <1>3
  <2>6. OfAdmin({"mint"})'
    BY <1>0, <2>2, <2>4 DEF OfAdmin
  <2>7. InHandler'
    BY <2>1, <2>2, <2>3, <2>4, <2>6 DEF InHandler
  <2> QED
    BY <2>2, <2>5, <2>7, HandlerGoesOn DEF CallNames
<1>5. CASE SendMinted
  <2> DEFINE to == OrSender(msg.to, msg)
             paid == Send(minted, TokenFactoryModule, AccOf[to], msg.amount)
  <2>1. /\ cache = Credited(Latest, msg)
        /\ CanMintCoins(Latest.balances[msg.denom], Latest.supply[msg.denom],
                        TokenFactoryModule, msg.amount)
    BY <1>5 DEF KInv, InHandler, SendMinted, LastCall
  <2>2. cache.balances[msg.denom] = minted
    <3> HIDE DEF minted, total, paid, to
    <3> DEFINE w == WithPurse(Latest, msg.denom, minted)
    <3>1. w \in Stores /\ w.balances = [Latest.balances EXCEPT ![msg.denom] = minted]
      BY <1>1, <1>2, WithPurseFields
    <3>2. cache = WithTotal(w, msg.denom, total)
      BY <2>1, <1>3
    <3> HIDE DEF w
    <3>a. w \in Stores /\ msg.denom \in Denoms /\ total \in Int
      BY <3>1, <1>1, <1>2
    <3>b. WithTotal(w, msg.denom, total).balances = w.balances
      BY <3>a, WithTotalFields
    <3>3. cache.balances = w.balances
      BY <3>2, <3>b
    <3> QED
      BY <3>1, <3>3, <1>1 DEF Stores
  <2>3. /\ UNCHANGED <<stores, todo, seen>>
        /\ pc = "send minted" /\ pc' = "next"
        /\ IsAddress(to) /\ ~Blocked(AccOf[to])
        /\ CanSend(cache.balances[msg.denom], TokenFactoryModule, AccOf[to], msg.amount)
        /\ cache' = WithPurse(cache, msg.denom,
                      Send(cache.balances[msg.denom], TokenFactoryModule, AccOf[to], msg.amount))
        /\ handled' = Append(handled, [msg |-> msg, after |-> cache'])
    BY <1>5 DEF SendMinted, LastCall, Purse, Paid, WithPurse
  <2>4. AccOf[to] \in Accounts
    BY <2>3, AddressAssumption DEF IsAddress
  <2>5. paid \in [Accounts -> Int]
    <3> HIDE DEF minted, to
    <3> QED
      BY <1>1, <1>2, <1>a, <2>4, PurseTypes
  <2>6. On(Latest)!mintTo(Latest.balances[msg.denom], msg.amount, AccOf[to]) = paid
    BY OnPurses
  <2>7. cache' = WithTotal(WithPurse(Latest, msg.denom, paid), msg.denom, total)
    <3>1. cache' = WithPurse(cache, msg.denom, paid)
      BY <2>2, <2>3
    <3> HIDE DEF paid, minted, total
    <3>2. cache' = WithPurse(WithTotal(WithPurse(Latest, msg.denom, minted), msg.denom, total),
                             msg.denom, paid)
      BY <3>1, <2>1, <1>3
    <3>3. WithPurse(WithTotal(WithPurse(Latest, msg.denom, minted), msg.denom, total),
                    msg.denom, paid)
            = WithTotal(WithPurse(Latest, msg.denom, paid), msg.denom, total)
      BY <1>1, <1>2, <2>5, WritesOverwrite
    <3> QED
      BY <3>2, <3>3
  <2>8. msg \in MintMsgs /\ Signed(msg) /\ ValidMint(msg)
    BY <1>1, AdmissibleMessages
  <2>9. On(Latest)!MintOk(msg)
    <3>1. CanSend(minted, TokenFactoryModule, AccOf[to], msg.amount)
      BY <2>2, <2>3
    <3>2. On(Latest)!HasMetadata(msg.denom) /\ On(Latest)!IsAdmin(msg) /\ IsFactoryDenom(msg.denom)
      BY <1>0, <1>1 DEF OfAdmin
    <3> QED
      BY <3>1, <3>2, <2>1, <2>3, <2>8, OnChecks
  <2>10. HandledOn(Latest, msg, cache')
    BY <2>6, <2>7, <2>8, <2>9 DEF HandledOn
  <2> QED
    BY <2>3, <2>10, HandlerEnds DEF CallNames
<1> QED
  BY <1>4, <1>5

\* Burn: coins are collected in the module's account, then disappear.
LEMMA BurnCalls ==
  ASSUME KInv, Collect \/ BurnCoins
  PROVE  KInv'
<1>a. "burn" \in DOMAIN AfterAuthorize /\ TokenFactoryModule \in Accounts
  BY ConstantsAssumption DEF AfterAuthorize, ModuleAccounts
<1>0. CallsType /\ OfAdmin({"burn"})
  BY DEF KInv, InHandler, Collect, BurnCoins, Call, LastCall
<1>1. /\ msg \in Admissible /\ msg.type = "burn"
      /\ Latest \in Stores /\ msg.denom \in Denoms
      /\ Latest.balances[msg.denom] \in [Accounts -> Int]
      /\ Latest.supply[msg.denom] \in Int /\ msg.amount \in Int
  BY <1>0, <1>a, OfAdminFields
<1> DEFINE from  == OrSender(msg.from, msg)
           pooled == Send(Latest.balances[msg.denom], AccOf[from], TokenFactoryModule, msg.amount)
<1>2. IsAddress(from) => AccOf[from] \in Accounts /\ pooled \in [Accounts -> Int]
  <2> SUFFICES ASSUME IsAddress(from) PROVE AccOf[from] \in Accounts /\ pooled \in [Accounts -> Int]
    OBVIOUS
  <2>1. AccOf[from] \in Accounts
    BY AddressAssumption DEF IsAddress
  <2> HIDE DEF from
  <2> QED
    BY <2>1, <1>1, <1>a, PurseTypes
<1>3. Collected(Latest, msg) = WithPurse(Latest, msg.denom, pooled)
  BY DEF Collected
<1>4. CASE Collect
  <2>1. cache = Latest
    BY <1>4 DEF KInv, InHandler, Collect, Call
  <2>2. /\ UNCHANGED <<stores, msg, handled, todo, seen>>
        /\ pc = "collect" /\ pc' = "burn coins"
        /\ IsAddress(from)
        /\ CanSend(cache.balances[msg.denom], AccOf[from], TokenFactoryModule, msg.amount)
        /\ cache' = Collected(cache, msg)
    BY <1>4 DEF Collect, Call, Purse, Paid, Collected, WithPurse
  <2>3. Latest' = Latest
    BY <2>2, LatestKept
  <2>4. cache' \in Stores
    <3>1. pooled \in [Accounts -> Int]
      BY <2>2, <1>2
    <3> HIDE DEF pooled
    <3>2. WithPurse(Latest, msg.denom, pooled) \in Stores
      BY <3>1, <1>1, WithPurseFields
    <3> QED
      BY <3>2, <2>1, <2>2, <1>3
  <2>5. OfAdmin({"burn"})'
    BY <1>0, <2>2, <2>3 DEF OfAdmin
  <2>6. InHandler'
    BY <2>1, <2>2, <2>3, <2>5 DEF InHandler
  <2> QED
    BY <2>2, <2>4, <2>6, HandlerGoesOn DEF CallNames
<1>5. CASE BurnCoins
  <2>1. /\ cache = WithPurse(Latest, msg.denom, pooled)
        /\ IsAddress(from)
        /\ CanSend(Latest.balances[msg.denom], AccOf[from], TokenFactoryModule, msg.amount)
    BY <1>5, <1>3 DEF KInv, InHandler, BurnCoins, LastCall
  <2>2. pooled \in [Accounts -> Int] /\ AccOf[from] \in Accounts
    BY <2>1, <1>2
  <2>3. /\ cache \in Stores
        /\ cache.balances[msg.denom] = pooled
        /\ cache.supply[msg.denom] = Latest.supply[msg.denom]
    <3> HIDE DEF pooled, from
    <3>1. WithPurse(Latest, msg.denom, pooled).balances
            = [Latest.balances EXCEPT ![msg.denom] = pooled]
      BY <1>1, <2>2, WithPurseFields
    <3>2. WithPurse(Latest, msg.denom, pooled).supply = Latest.supply
          /\ WithPurse(Latest, msg.denom, pooled) \in Stores
      BY <1>1, <2>2, WithPurseFields
    <3>3. cache.balances = [Latest.balances EXCEPT ![msg.denom] = pooled]
      BY <3>1, <2>1
    <3> QED
      BY <3>2, <3>3, <2>1, <1>1 DEF Stores
  <2> DEFINE burnt == Debit(pooled, TokenFactoryModule, msg.amount)
             total == Latest.supply[msg.denom] - msg.amount
  <2>4. burnt \in [Accounts -> Int] /\ total \in Int
    <3>1. burnt \in [Accounts -> Int]
      <4> HIDE DEF pooled
      <4> QED
        BY <2>2, <1>1, <1>a, PurseTypes
    <3>2. total \in Int
      BY <1>1
    <3> QED
      BY <3>1, <3>2
  <2>5. /\ UNCHANGED <<stores, todo, seen>>
        /\ pc = "burn coins" /\ pc' = "next"
        /\ CanBurnCoins(pooled, Latest.supply[msg.denom], TokenFactoryModule, msg.amount)
        /\ cache' = [cache EXCEPT !.balances[msg.denom] = burnt, !.supply[msg.denom] = total]
        /\ handled' = Append(handled, [msg |-> msg, after |-> cache'])
    <3> HIDE DEF pooled
    <3> QED
      BY <1>5, <2>3 DEF BurnCoins, LastCall, Purse, Total
  <2>6. On(Latest)!burnFrom(Latest.balances[msg.denom], msg.amount, AccOf[from]) = burnt
    BY OnPurses
  <2>7. cache' = WithTotal(WithPurse(Latest, msg.denom, burnt), msg.denom, total)
    <3> HIDE DEF burnt, total, pooled, from
    <3>1. cache' = WithTotal(WithPurse(cache, msg.denom, burnt), msg.denom, total)
      BY <2>3, <2>4, <2>5, <1>1 DEF WithTotal, WithPurse, Stores
    <3>2. WithPurse(WithPurse(Latest, msg.denom, pooled), msg.denom, burnt)
            = WithPurse(Latest, msg.denom, burnt)
      <4>1. 0 \in Int
        OBVIOUS
      <4> QED
        BY <4>1, <1>1, <2>2, <2>4, WritesOverwrite
    <3> QED
      BY <3>1, <3>2, <2>1
  <2>8. msg \in BurnMsgs /\ Signed(msg) /\ ValidBurn(msg)
    BY <1>1, AdmissibleMessages
  <2>9. On(Latest)!BurnOk(msg)
    <3>1. On(Latest)!IsAdmin(msg) /\ ~On(Latest)!IsModuleAccount(from) /\ IsFactoryDenom(msg.denom)
      BY <1>0, <1>1 DEF OfAdmin
    <3> QED
      BY <3>1, <2>1, <2>5, <2>8, OnChecks
  <2>10. HandledOn(Latest, msg, cache')
    BY <2>6, <2>7, <2>8, <2>9 DEF HandledOn
  <2> QED
    BY <2>5, <2>10, HandlerEnds DEF CallNames
<1> QED
  BY <1>4, <1>5

\* The handlers that write once.
LEMMA SingleCalls ==
  ASSUME KInv, Transfer \/ SetAdmin \/ SetMetadata \/ BankTransfer
  PROVE  KInv'
<1>0. CallsType
  BY DEF KInv
<1>1. CASE Transfer
  <2>1. cache = Latest /\ OfAdmin({"force_transfer"})
    BY <1>1 DEF KInv, InHandler, Transfer, LastCall
  <2>2. msg \in ForceTransferMsgs /\ Signed(msg) /\ ValidForceTransfer(msg)
    BY <2>1, AdmissibleMessages DEF OfAdmin
  <2>3. /\ UNCHANGED <<stores, todo, seen>>
        /\ pc = "transfer" /\ pc' = "next"
        /\ CanSend(Latest.balances[msg.denom], AccOf[msg.from], AccOf[msg.to], msg.amount)
        /\ cache' = WithPurse(Latest, msg.denom,
             Send(Latest.balances[msg.denom], AccOf[msg.from], AccOf[msg.to], msg.amount))
        /\ handled' = Append(handled, [msg |-> msg, after |-> cache'])
    BY <1>1, <2>1 DEF Transfer, LastCall, Purse, Paid, WithPurse
  <2>4. On(Latest)!ForceTransferOk(msg)
    BY <2>1, <2>2, <2>3, OnChecks DEF OfAdmin
  <2>5. HandledOn(Latest, msg, cache')
    BY <2>2, <2>3, <2>4 DEF HandledOn
  <2> QED
    BY <2>3, <2>5, HandlerEnds DEF CallNames
<1>2. CASE SetAdmin
  <2>1. cache = Latest /\ OfAdmin({"change_admin"})
    BY <1>2 DEF KInv, InHandler, SetAdmin, LastCall
  <2>2. msg \in ChangeAdminMsgs /\ Signed(msg) /\ ValidChangeAdmin(msg)
    BY <2>1, AdmissibleMessages DEF OfAdmin
  <2>3. /\ UNCHANGED <<stores, todo, seen>>
        /\ pc = "set admin" /\ pc' = "next"
        /\ ValidAdmin(msg.newAdmin)
        /\ cache' = Recorded(Latest, msg.denom, msg.newAdmin)
        /\ handled' = Append(handled, [msg |-> msg, after |-> cache'])
    BY <1>2, <2>1 DEF SetAdmin, LastCall, Recorded
  <2>4. On(Latest)!ChangeAdminOk(msg)
    BY <2>1, <2>2, <2>3, OnChecks DEF OfAdmin
  <2>5. HandledOn(Latest, msg, cache')
    BY <2>2, <2>3, <2>4 DEF HandledOn
  <2> QED
    BY <2>3, <2>5, HandlerEnds DEF CallNames
<1>3. CASE SetMetadata
  <2>1. cache = Latest /\ OfAdmin({"set_denom_metadata"})
    BY <1>3 DEF KInv, InHandler, SetMetadata, LastCall
  <2>2. msg \in SetDenomMetadataMsgs /\ Signed(msg) /\ ValidSetDenomMetadata(msg)
    BY <2>1, AdmissibleMessages DEF OfAdmin
  <2>3. /\ UNCHANGED <<stores, todo, seen>>
        /\ pc = "set metadata" /\ pc' = "next"
        /\ msg.metadata \in CustomMetadata
        /\ cache' = [Latest EXCEPT !.denomMetadata[msg.denom] = msg.metadata]
        /\ handled' = Append(handled, [msg |-> msg, after |-> cache'])
    BY <1>3, <2>1 DEF SetMetadata, LastCall
  <2>4. On(Latest)!SetDenomMetadataOk(msg)
    BY <2>1, <2>2, <2>3, OnChecks DEF OfAdmin
  <2>5. HandledOn(Latest, msg, cache')
    BY <2>2, <2>3, <2>4 DEF HandledOn
  <2> QED
    BY <2>3, <2>5, HandlerEnds DEF CallNames
<1>4. CASE BankTransfer
  <2>1. cache = Latest /\ msg \in Admissible /\ msg.type = "bank_send"
    BY <1>4 DEF KInv, InHandler, BankTransfer, LastCall
  <2>2. msg \in BankSendMsgs /\ Signed(msg) /\ msg.amount > 0
    BY <2>1, AdmissibleMessages
  <2>3. /\ UNCHANGED <<stores, todo, seen>>
        /\ pc = "bank transfer" /\ pc' = "next"
        /\ IsAddress(msg.to) /\ ~Blocked(AccOf[msg.to])
        /\ CanSend(Latest.balances[msg.denom], AccOf[msg.sender], AccOf[msg.to], msg.amount)
        /\ cache' = WithPurse(Latest, msg.denom,
             Send(Latest.balances[msg.denom], AccOf[msg.sender], AccOf[msg.to], msg.amount))
        /\ handled' = Append(handled, [msg |-> msg, after |-> cache'])
    BY <1>4, <2>1 DEF BankTransfer, LastCall, Purse, Paid, WithPurse
  <2>4. On(Latest)!BankSendOk(msg)
    BY <2>1, <2>2, <2>3, OnChecks
  <2>5. HandledOn(Latest, msg, cache')
    BY <2>2, <2>3, <2>4 DEF HandledOn
  <2> QED
    BY <2>3, <2>5, HandlerEnds DEF CallNames
<1> QED
  BY <1>1, <1>2, <1>3, <1>4

-----------------------------------------------------------------------------
(* Transactions.                                                            *)

\* A transaction begins, or goes on with its next message.
LEMMA BeginStep ==
  ASSUME KInv, NEW m \in Admissible, Begin(m)
  PROVE  KInv'
<1>1. /\ pc' = FirstCall(m.type) /\ msg' = m
      /\ UNCHANGED <<stores, cache, handled, todo, seen>>
      /\ Idle \/ pc = "next"
  BY DEF Begin
<1>2. cache = Latest /\ seen = stores
  <2>1. CASE Idle
    <3>1. Latest = seen
      BY <2>1 DEF Idle, Latest, Before
    <3> QED
      BY <2>1, <3>1 DEF KInv, Aligned, Idle
  <2>2. CASE pc = "next"
    BY <2>2 DEF KInv, Aligned, InHandler
  <2> QED
    BY <1>1, <2>1, <2>2
<1>3. \/ pc' = "validate" /\ m.type = "create_denom"
      \/ pc' = "bank transfer" /\ m.type = "bank_send"
      \/ pc' = "authorize" /\ m.type \in DOMAIN AfterAuthorize
  <2>1. "create_denom" \notin DOMAIN AfterAuthorize /\ "bank_send" \notin DOMAIN AfterAuthorize
    BY DEF AfterAuthorize
  <2> QED
    BY <1>1, <2>1, AdmissibleMessages DEF FirstCall
<1>4. Latest' = Latest
  BY <1>1, LatestKept
<1>5. CallsType'
  BY <1>1, <1>3 DEF KInv, CallsType, CallNames
<1>6. Chained'
  BY <1>1 DEF KInv, Chained, Before
<1>7. Aligned' /\ InHandler' /\ InImport'
  BY <1>1, <1>2, <1>3, <1>4 DEF Aligned, InHandler, InImport
<1> QED
  BY <1>5, <1>6, <1>7 DEF KInv

\* The branch is written back, or dropped.
LEMMA EndStep ==
  ASSUME KInv, Commit \/ Fail
  PROVE  KInv'
<1>1. CASE Commit
  <2>1. /\ pc = "next" /\ stores' = cache /\ pc' = "idle"
        /\ UNCHANGED <<cache, handled, seen>>
    BY <1>1 DEF Commit
  <2>2. Latest' = cache
    BY <2>1, LatestKept DEF KInv, InHandler
  <2>3. CallsType'
    BY <2>1 DEF KInv, CallsType
  <2>4. Chained'
    BY <2>1 DEF KInv, Chained, Before
  <2>5. Aligned' /\ InHandler' /\ InImport'
    BY <2>1, <2>2 DEF Aligned, InHandler, InImport
  <2> QED
    BY <2>3, <2>4, <2>5 DEF KInv
<1>2. CASE Fail
  <2>1. /\ pc \in {"next"} \cup CallNames /\ pc' = "idle"
        /\ cache' = stores /\ handled' = <<>>
        /\ UNCHANGED <<stores, seen>>
    BY <1>2 DEF Fail, Abort
  <2>2. Latest' = stores
    BY <2>1, LatestDropped DEF KInv, Aligned, CallNames
  <2>3. CallsType'
    <3>1. <<>> \in Seq(HandledMsgs)
      <4> HIDE DEF HandledMsgs
      <4> QED
        OBVIOUS
    <3> QED
      BY <2>1, <3>1 DEF KInv, CallsType
  <2>4. Chained'
    BY <2>1 DEF Chained
  <2>5. Aligned' /\ InHandler' /\ InImport'
    BY <2>1, <2>2 DEF Aligned, InHandler, InImport
  <2> QED
    BY <2>3, <2>4, <2>5 DEF KInv
<1> QED
  BY <1>1, <1>2

\* A sequence and what is left of it after its head.
LEMMA TailFacts ==
  ASSUME NEW S, NEW h \in Seq(S), h # <<>>
  PROVE  /\ Head(h) = h[1] /\ Head(h) \in S
         /\ Tail(h) \in Seq(S)
         /\ Len(h) \in Nat \ {0} /\ Len(Tail(h)) = Len(h) - 1
         /\ \A k \in 1 .. Len(h) - 1 : Tail(h)[k] = h[k + 1]
OBVIOUS

\* Showing a message moves the chain on by its first link, which is a step.
LEMMA ShowStep ==
  ASSUME KInv, Show
  PROVE  KInv' /\ HandledOn(seen, shown', seen') /\ shown' \in Messages
<1>1. /\ pc = "idle" /\ handled # <<>>
      /\ seen' = Head(handled).after /\ shown' = Head(handled).msg
      /\ handled' = Tail(handled)
      /\ UNCHANGED <<stores, cache, pc, msg, todo>>
  BY DEF Show
<1> DEFINE L == Len(handled)
<1>2. /\ Head(handled) = handled[1] /\ Head(handled) \in HandledMsgs
      /\ handled' \in Seq(HandledMsgs)
      /\ L \in Nat \ {0} /\ Len(handled') = L - 1
      /\ \A k \in 1 .. L - 1 : handled'[k] = handled[k + 1]
  <2>1. handled \in Seq(HandledMsgs)
    BY DEF KInv, CallsType
  <2> HIDE DEF HandledMsgs
  <2> QED
    BY <1>1, <2>1, TailFacts
<1>3. ASSUME NEW k \in 1 .. L PROVE Before(k)' = Before(k + 1)
  <2> HIDE DEF L
  <2>1. CASE k = 1
    BY <1>1, <1>2, <2>1 DEF Before
  <2>2. CASE k # 1
    <3>1. k - 1 \in 1 .. L - 1 /\ k - 1 + 1 = k /\ k + 1 # 1 /\ k + 1 - 1 = k
      BY <1>2, <2>2
    <3>2. handled'[k - 1] = handled[k]
      BY <1>2, <3>1
    <3> QED
      BY <2>2, <3>1, <3>2 DEF Before
  <2> QED
    BY <2>1, <2>2
<1>4. Latest' = Latest
  <2>1. L \in Nat \ {0} /\ Len(handled') + 1 = L
    BY <1>2
  <2>2. CASE L = 1
    <3>1. Latest' = seen'
      BY <2>1, <2>2 DEF Latest, Before
    <3>2. Latest = handled[1].after
      BY <2>2 DEF Latest, Before
    <3> QED
      BY <1>1, <1>2, <3>1, <3>2
  <2>3. CASE L # 1
    <3>1. Latest' = handled'[L - 1].after
      <4> HIDE DEF L
      <4> QED
        BY <2>1, <2>3 DEF Latest, Before
    <3>2. Latest = handled[L].after
      BY <2>1 DEF Latest, Before
    <3>3. handled'[L - 1] = handled[L]
      <4>1. L - 1 \in 1 .. L - 1 /\ L - 1 + 1 = L
        BY <2>1, <2>3
      <4> HIDE DEF L
      <4> QED
        BY <1>2, <4>1
    <3> QED
      BY <3>1, <3>2, <3>3
  <2> QED
    BY <2>2, <2>3
<1>5. CallsType'
  BY <1>1, <1>2 DEF KInv, CallsType, HandledMsgs
<1>6. ASSUME NEW k \in 1 .. L
      PROVE  HandledOn(Before(k), handled[k].msg, handled[k].after)
  BY DEF KInv, Chained
<1>7. ASSUME NEW k \in 1 .. Len(handled')
      PROVE  HandledOn(Before(k), handled[k].msg, handled[k].after)'
  <2> HIDE DEF L
  <2>1. k \in 1 .. L /\ k \in 1 .. L - 1 /\ k + 1 \in 1 .. L
    BY <1>2
  <2>2. HandledOn(Before(k + 1), handled[k + 1].msg, handled[k + 1].after)
    BY <1>6, <2>1
  <2> QED
    BY <1>2, <1>3, <2>1, <2>2
<1>8. Chained'
  BY <1>7 DEF Chained
<1>9. Aligned' /\ InHandler' /\ InImport'
  BY <1>1, <1>4 DEF KInv, Aligned, InHandler, InImport
<1>10. HandledOn(seen, shown', seen') /\ shown' \in Messages
  <2>1. 1 \in 1 .. L /\ Before(1) = seen
    BY <1>2 DEF Before
  <2>2. HandledOn(Before(1), handled[1].msg, handled[1].after)
    BY <1>6, <2>1
  <2> QED
    BY <1>1, <1>2, <2>1, <2>2 DEF HandledMsgs
<1> QED
  BY <1>5, <1>8, <1>9, <1>10 DEF KInv

\* Governance changes the creation fee between two transactions.
LEMMA GovernsStep ==
  ASSUME KInv, NEW fee \in Fees, Governs(fee)
  PROVE  KInv' /\ Seen!SetParams(fee)
<1>1. /\ Idle /\ cache' = stores' /\ seen' = stores' /\ shown' = Governance
      /\ stores' = [stores EXCEPT !.creationFee = fee]
      /\ UNCHANGED <<pc, msg, handled, todo>>
  BY DEF Governs
<1>2. stores' \in Stores
  <2>1. fee \in [NativeDenoms -> Int]
    BY ConstantsAssumption, MaxIntAssumption DEF Amount
  <2> QED
    BY <1>1, <2>1 DEF KInv, CallsType, Stores
<1>3. handled = <<>> /\ pc = "idle"
  BY <1>1 DEF Idle
<1>4. CallsType'
  BY <1>1, <1>2 DEF KInv, CallsType
<1>5. Chained'
  BY <1>1, <1>3 DEF Chained
<1>6. Latest' = stores'
  BY <1>1, <1>3, LatestDropped
<1>7. Aligned' /\ InHandler' /\ InImport'
  BY <1>1, <1>3, <1>6 DEF Aligned, InHandler, InImport
<1>8. seen = stores
  BY <1>3 DEF KInv, Aligned, Latest, Before
<1>9. Seen!SetParams(fee)
  BY <1>1, <1>8 DEF KInv, CallsType, Stores, Seen!SetParams, Seen!Done, Governance, Seen!Governance
<1> QED
  BY <1>4, <1>5, <1>7, <1>9 DEF KInv

-----------------------------------------------------------------------------
(* The import.                                                              *)

\* An exported entry: its denom is indexed, its admin is the one on record.
LEMMA ExportedEntries ==
  ASSUME NEW s \in Stores, NEW e \in Exported(s)
  PROVE  /\ e.denom \in FactoryDenoms /\ e.denom \in Denoms
         /\ e.admin = On(s)!Admin(e.denom)
         /\ e.admin \in AddrStrings \cup {Empty}
         /\ Canonical(e.denom[1]) \in AddrStrings
<1>1. PICK c \in s.creators :
        e = [key |-> c, denom |-> c[2],
             admin |-> IF s.authority[c[2]] = NoRecord THEN Empty ELSE s.authority[c[2]]]
  BY DEF Exported
<1>2. c[2] \in FactoryDenoms /\ c[2] \in Denoms
  BY DEF Stores, Denoms
<1>3. e.denom = c[2]
      /\ e.admin = IF s.authority[c[2]] = NoRecord THEN Empty ELSE s.authority[c[2]]
  BY <1>1
<1>4. e.admin = On(s)!Admin(e.denom)
  BY <1>3 DEF On!Admin
<1>5. s.authority[c[2]] \in AddrStrings \cup {Empty, NoRecord}
  BY <1>2 DEF Stores
<1>6. c[2][1] \in AddrStrings
  BY <1>2 DEF FactoryDenoms
<1>7. Canonical(c[2][1]) \in AddrStrings
  BY <1>6, AddressAssumption DEF Canonical
<1> QED
  BY <1>2, <1>3, <1>4, <1>5, <1>7

\* The stores after a part of the import.
LEMMA ImportedFields ==
  ASSUME NEW s \in Stores, NEW done \in SUBSET Exported(s)
  PROVE  LET t == Imported(s, done)
             denoms == {e.denom : e \in done}
         IN
         /\ t \in Stores
         /\ t.denomMetadata = [d \in Denoms |->
              IF d \in denoms /\ s.denomMetadata[d] = NoMetadata
              THEN MinimalMetadata ELSE s.denomMetadata[d]]
         /\ t.authority = [d \in Denoms |-> IF d \in denoms THEN On(s)!Admin(d) ELSE NoRecord]
         /\ t.creators = {<<Canonical(d[1]), d>> : d \in denoms}
         /\ t.balances = s.balances /\ t.supply = s.supply
         /\ t.communityPool = s.communityPool /\ t.creationFee = s.creationFee
<1> DEFINE denoms == {e.denom : e \in done}
           M == [d \in Denoms |-> IF d \in denoms /\ s.denomMetadata[d] = NoMetadata
                                  THEN MinimalMetadata ELSE s.denomMetadata[d]]
           A == [d \in Denoms |-> IF d \in denoms THEN On(s)!Admin(d) ELSE NoRecord]
           C == {<<Canonical(d[1]), d>> : d \in denoms}
<1>1. \A e \in done : /\ e.denom \in FactoryDenoms
                      /\ On(s)!Admin(e.denom) \in AddrStrings \cup {Empty}
                      /\ Canonical(e.denom[1]) \in AddrStrings
  BY ExportedEntries
<1>2. M \in [Denoms -> Metadata \cup {NoMetadata}]
  BY DEF Stores, Metadata
<1>3. A \in [Denoms -> AddrStrings \cup {Empty, NoRecord}]
  BY <1>1
<1>4. C \in SUBSET (AddrStrings \X FactoryDenoms)
  BY <1>1
<1>5. On(s)!WithMetadata(s.denomMetadata, denoms) = M
  BY DEF On!WithMetadata, On!Denoms, Denoms, On!FactoryDenoms, FactoryDenoms
<1>6. Imported(s, done) = [s EXCEPT !.denomMetadata = M, !.authority = A, !.creators = C]
  BY <1>5 DEF Imported
<1> HIDE DEF M, A, C
<1>7. /\ [s EXCEPT !.denomMetadata = M, !.authority = A, !.creators = C] \in Stores
      /\ [s EXCEPT !.denomMetadata = M, !.authority = A, !.creators = C].denomMetadata = M
      /\ [s EXCEPT !.denomMetadata = M, !.authority = A, !.creators = C].authority = A
      /\ [s EXCEPT !.denomMetadata = M, !.authority = A, !.creators = C].creators = C
  BY <1>2, <1>3, <1>4 DEF Stores
<1>8. LET t == Imported(s, done) IN
      /\ t.balances = s.balances /\ t.supply = s.supply
      /\ t.communityPool = s.communityPool /\ t.creationFee = s.creationFee
  BY <1>6 DEF Stores
<1> QED
  BY <1>6, <1>7, <1>8 DEF M, A, C

\* Stores that agree on every field are the same.
LEMMA SameStores ==
  ASSUME NEW s \in Stores, NEW t \in Stores,
         s.balances = t.balances, s.supply = t.supply, s.denomMetadata = t.denomMetadata,
         s.communityPool = t.communityPool, s.creationFee = t.creationFee,
         s.authority = t.authority, s.creators = t.creators
  PROVE  s = t
BY DEF Stores

\* The new chain begins with the empty import.
LEMMA EmptyImport ==
  ASSUME NEW s \in Stores
  PROVE  Emptied(s) \in Stores /\ Emptied(s) = Imported(s, {})
<1> DEFINE N == [d \in Denoms |-> NoRecord]
<1>1. N \in [Denoms -> AddrStrings \cup {Empty, NoRecord}]
  OBVIOUS
<1>2. Emptied(s) = [s EXCEPT !.authority = N, !.creators = {}]
  BY DEF Emptied
<1> HIDE DEF N
<1>3. /\ Emptied(s) \in Stores
      /\ Emptied(s).authority = N /\ Emptied(s).creators = {}
      /\ Emptied(s).balances = s.balances /\ Emptied(s).supply = s.supply
      /\ Emptied(s).denomMetadata = s.denomMetadata
      /\ Emptied(s).communityPool = s.communityPool /\ Emptied(s).creationFee = s.creationFee
  BY <1>1, <1>2 DEF Stores
<1>4. {} \in SUBSET Exported(s) /\ {e.denom : e \in {}} = {}
  OBVIOUS
<1> DEFINE t == Imported(s, {})
<1>5. /\ t \in Stores
      /\ t.denomMetadata = [d \in Denoms |-> s.denomMetadata[d]]
      /\ t.authority = N
      /\ t.creators = {}
      /\ t.balances = s.balances /\ t.supply = s.supply
      /\ t.communityPool = s.communityPool /\ t.creationFee = s.creationFee
  BY <1>4, ImportedFields DEF N
<1> HIDE DEF t
<1>6. t.denomMetadata = s.denomMetadata
  BY <1>5 DEF Stores
<1>7. Emptied(s) = t
  BY <1>3, <1>5, <1>6, SameStores
<1> QED
  BY <1>3, <1>7 DEF t

\* The denom d created without its fee, as the import does it.
Filled(metadata, d) ==
  [x \in Denoms |-> IF x \in {d} /\ metadata[x] = NoMetadata
                    THEN MinimalMetadata ELSE metadata[x]]

Created(t, d, creator) ==
  [t EXCEPT !.denomMetadata = Filled(@, d), !.authority[d] = creator,
            !.creators = @ \cup {<<creator, d>>}]

\* One more entry imported: created under its creator, then given its admin.
LEMMA ImportsOne ==
  ASSUME NEW s \in Stores, NEW done \in SUBSET Exported(s), NEW e \in Exported(s),
         NEW creator, creator = Canonical(e.denom[1])
  PROVE  LET one == Recorded(Imported(s, done \cup {e}), e.denom, creator) IN
         /\ one \in Stores
         /\ Created(Imported(s, done), e.denom, creator) = one
         /\ Recorded(one, e.denom, e.admin) = Imported(s, done \cup {e})
<1> DEFINE t == Imported(s, done)
           metadata == [d \in Denoms |-> IF d \in {e.denom} /\ t.denomMetadata[d] = NoMetadata
                                         THEN MinimalMetadata ELSE t.denomMetadata[d]]
           more == done \cup {e}
           after == Imported(s, more)
           denoms == {x.denom : x \in done}
           denomsAfter == {x.denom : x \in more}
<1>0. more \in SUBSET Exported(s) /\ denomsAfter = denoms \cup {e.denom}
  OBVIOUS
<1>1. /\ e.denom \in FactoryDenoms /\ e.denom \in Denoms
      /\ e.admin = On(s)!Admin(e.denom)
      /\ e.admin \in AddrStrings \cup {Empty}
      /\ creator \in AddrStrings
  BY ExportedEntries
<1>2. /\ t \in Stores
      /\ t.denomMetadata = [d \in Denoms |->
           IF d \in denoms /\ s.denomMetadata[d] = NoMetadata
           THEN MinimalMetadata ELSE s.denomMetadata[d]]
      /\ t.authority = [d \in Denoms |-> IF d \in denoms THEN On(s)!Admin(d) ELSE NoRecord]
      /\ t.creators = {<<Canonical(d[1]), d>> : d \in denoms}
      /\ t.balances = s.balances /\ t.supply = s.supply
      /\ t.communityPool = s.communityPool /\ t.creationFee = s.creationFee
  BY ImportedFields
<1>3. /\ after \in Stores
      /\ after.denomMetadata = [d \in Denoms |->
           IF d \in denomsAfter /\ s.denomMetadata[d] = NoMetadata
           THEN MinimalMetadata ELSE s.denomMetadata[d]]
      /\ after.authority
           = [d \in Denoms |-> IF d \in denomsAfter THEN On(s)!Admin(d) ELSE NoRecord]
      /\ after.creators = {<<Canonical(d[1]), d>> : d \in denomsAfter}
      /\ after.balances = s.balances /\ after.supply = s.supply
      /\ after.communityPool = s.communityPool /\ after.creationFee = s.creationFee
  <2> HIDE DEF more
  <2> QED
    BY <1>0, ImportedFields
<1> DEFINE one == Recorded(after, e.denom, creator)
           new == [t EXCEPT !.denomMetadata = metadata, !.authority[e.denom] = creator,
                            !.creators = @ \cup {<<creator, e.denom>>}]
<1>a. Created(t, e.denom, creator) = new
  BY DEF Created, Filled
<1> HIDE DEF after, more, t
<1>4. /\ one \in Stores
      /\ one.authority = [after.authority EXCEPT ![e.denom] = creator]
      /\ one.balances = after.balances /\ one.supply = after.supply
      /\ one.denomMetadata = after.denomMetadata /\ one.communityPool = after.communityPool
      /\ one.creationFee = after.creationFee /\ one.creators = after.creators
  BY <1>1, <1>3, RecordedFields
<1> HIDE DEF one
<1>5. metadata = after.denomMetadata
  <2>1. metadata \in [Denoms -> Metadata \cup {NoMetadata}]
    BY <1>2 DEF Stores, Metadata
  <2>2. ASSUME NEW d \in Denoms PROVE metadata[d] = after.denomMetadata[d]
    <3>1. NoMetadata # MinimalMetadata
      BY ConstantsAssumption DEF Metadata
    <3>2. t.denomMetadata[d] = IF d \in denoms /\ s.denomMetadata[d] = NoMetadata
                               THEN MinimalMetadata ELSE s.denomMetadata[d]
      BY <1>2
    <3>3. after.denomMetadata[d] = IF d \in denomsAfter /\ s.denomMetadata[d] = NoMetadata
                                   THEN MinimalMetadata ELSE s.denomMetadata[d]
      BY <1>3
    <3>4. metadata[d] = IF d = e.denom /\ t.denomMetadata[d] = NoMetadata
                        THEN MinimalMetadata ELSE t.denomMetadata[d]
      OBVIOUS
    <3>5. d \in denomsAfter <=> (d \in denoms \/ d = e.denom)
      BY <1>0
    <3> HIDE DEF denoms, denomsAfter
    <3> QED
      BY <3>1, <3>2, <3>3, <3>4, <3>5
  <2>3. after.denomMetadata \in [Denoms -> Metadata \cup {NoMetadata}]
    BY <1>3 DEF Stores
  <2> QED
    BY <2>1, <2>2, <2>3
<1>6. t.creators \cup {<<creator, e.denom>>} = after.creators
  <2>1. after.creators = {<<Canonical(d[1]), d>> : d \in denoms \cup {e.denom}}
    BY <1>0, <1>3
  <2>2. t.creators = {<<Canonical(d[1]), d>> : d \in denoms}
    BY <1>2
  <2> HIDE DEF denoms, denomsAfter
  <2>3. {<<Canonical(d[1]), d>> : d \in denoms \cup {e.denom}}
          = {<<Canonical(d[1]), d>> : d \in denoms} \cup {<<Canonical(e.denom[1]), e.denom>>}
    OBVIOUS
  <2> QED
    BY <2>1, <2>2, <2>3
<1>7. /\ new \in Stores
      /\ new.denomMetadata = metadata
      /\ new.authority = [t.authority EXCEPT ![e.denom] = creator]
      /\ new.creators = t.creators \cup {<<creator, e.denom>>}
      /\ new.balances = t.balances /\ new.supply = t.supply
      /\ new.communityPool = t.communityPool /\ new.creationFee = t.creationFee
  <2>1. metadata \in [Denoms -> Metadata \cup {NoMetadata}]
    BY <1>2 DEF Stores, Metadata
  <2>2. t.creators \cup {<<creator, e.denom>>} \in SUBSET (AddrStrings \X FactoryDenoms)
    BY <1>1, <1>2 DEF Stores
  <2>3. [t.authority EXCEPT ![e.denom] = creator] \in [Denoms -> AddrStrings \cup {Empty, NoRecord}]
    BY <1>1, <1>2 DEF Stores
  <2> QED
    BY <1>2, <2>1, <2>2, <2>3 DEF Stores
<1>8. new.authority = one.authority
  <2>1. [t.authority EXCEPT ![e.denom] = creator] = [after.authority EXCEPT ![e.denom] = creator]
    <3>1. t.authority = [d \in Denoms |-> IF d \in denoms THEN On(s)!Admin(d) ELSE NoRecord]
          /\ after.authority
               = [d \in Denoms |-> IF d \in denomsAfter THEN On(s)!Admin(d) ELSE NoRecord]
      BY <1>2, <1>3
    <3>2. ASSUME NEW d \in Denoms
          PROVE  [t.authority EXCEPT ![e.denom] = creator][d]
                   = [after.authority EXCEPT ![e.denom] = creator][d]
      <4>1. d \in denomsAfter <=> (d \in denoms \/ d = e.denom)
        BY <1>0
      <4>2. DOMAIN t.authority = Denoms /\ DOMAIN after.authority = Denoms
        BY <3>1
      <4>3. CASE d = e.denom
        BY <4>2, <4>3
      <4>4. CASE d # e.denom
        <5>1. t.authority[d] = after.authority[d]
          <6> HIDE DEF denoms, denomsAfter
          <6> QED
            BY <3>1, <4>1, <4>4
        <5> QED
          BY <4>2, <4>4, <5>1
      <4> QED
        BY <4>3, <4>4
    <3>3. DOMAIN t.authority = Denoms /\ DOMAIN after.authority = Denoms
      BY <3>1
    <3> QED
      BY <3>2, <3>3
  <2> QED
    BY <2>1, <1>4, <1>7
<1>9. new = one
  <2> HIDE DEF new, denoms, denomsAfter
  <2>1. new.balances = one.balances /\ new.supply = one.supply
        /\ new.communityPool = one.communityPool /\ new.creationFee = one.creationFee
    BY <1>2, <1>3, <1>4, <1>7
  <2>2. new.denomMetadata = one.denomMetadata /\ new.creators = one.creators
    BY <1>4, <1>5, <1>6, <1>7
  <2>3. new \in Stores /\ one \in Stores
    BY <1>4, <1>7
  <2> QED
    BY <2>1, <2>2, <2>3, <1>8, SameStores
<1> DEFINE last == Recorded(one, e.denom, e.admin)
<1>10. /\ last \in Stores
       /\ last.authority = [one.authority EXCEPT ![e.denom] = e.admin]
       /\ last.balances = one.balances /\ last.supply = one.supply
       /\ last.denomMetadata = one.denomMetadata /\ last.communityPool = one.communityPool
       /\ last.creationFee = one.creationFee /\ last.creators = one.creators
  BY <1>1, <1>4, RecordedFields
<1>11. last.authority = after.authority
  <2>1. after.authority[e.denom] = e.admin
    BY <1>0, <1>1, <1>3
  <2>2. last.authority = [[after.authority EXCEPT ![e.denom] = creator] EXCEPT ![e.denom] = e.admin]
    BY <1>4, <1>10
  <2>3. after.authority \in [Denoms -> AddrStrings \cup {Empty, NoRecord}]
    BY <1>3 DEF Stores
  <2> HIDE DEF last
  <2> QED
    BY <1>1, <2>1, <2>2, <2>3
<1>12. last = after
  <2> HIDE DEF last, new, denoms, denomsAfter
  <2>1. last.balances = after.balances /\ last.supply = after.supply
        /\ last.communityPool = after.communityPool /\ last.creationFee = after.creationFee
        /\ last.denomMetadata = after.denomMetadata /\ last.creators = after.creators
    BY <1>4, <1>10
  <2>2. last \in Stores /\ after \in Stores
    BY <1>3, <1>10
  <2> QED
    BY <2>1, <2>2, <1>11, SameStores
<1> QED
  BY <1>4, <1>9, <1>12, <1>a DEF one, after, more, t

\* A new chain begins its import: after a stop, or after a panic in the last one.
LEMMA ImportBegins ==
  ASSUME CallsType, Aligned, handled = <<>>, seen = stores,
         pc' = "import", todo' = Exported(stores), cache' = Emptied(stores),
         UNCHANGED <<stores, handled, seen>>
  PROVE  KInv'
<1>1. stores \in Stores
  BY DEF CallsType
<1>2. Emptied(stores) \in Stores /\ Emptied(stores) = Imported(stores, {})
  BY <1>1, EmptyImport
<1>3. CallsType'
  BY <1>2 DEF CallsType
<1>4. Chained'
  BY DEF Chained
<1>5. Aligned' /\ InHandler'
  BY DEF Aligned, InHandler
<1>6. InImport'
  <2>1. Exported(stores)' = Exported(stores)
    BY DEF Exported
  <2>2. Exported(stores)' \ todo' = {}
    BY <2>1
  <2> QED
    BY <1>2, <2>1, <2>2 DEF InImport
<1> QED
  BY <1>3, <1>4, <1>5, <1>6 DEF KInv

\* A restart exports the committed stores, with nothing left to be shown.
LEMMA ExportStep ==
  ASSUME KInv, Export
  PROVE  KInv'
<1>1. /\ handled = <<>> /\ pc = "idle" /\ pc' = "import"
      /\ todo' = Exported(stores) /\ cache' = Emptied(stores)
      /\ UNCHANGED <<stores, msg, handled, seen, shown>>
  BY DEF Export, Idle
<1>2. seen = stores
  BY <1>1 DEF KInv, Aligned, Latest, Before
<1> QED
  BY <1>1, <1>2, ImportBegins DEF KInv

\* A panic of the import: it begins anew.
LEMMA PanicStep ==
  ASSUME KInv, pc \in {"import", "import admin"}, Panic
  PROVE  KInv'
BY ImportBegins DEF KInv, Aligned, Panic

\* createDenomAfterValidation for one entry of the genesis.
LEMMA ImportDenomStep ==
  ASSUME KInv, NEW entry \in todo, ImportDenom(entry)
  PROVE  KInv'
<1> DEFINE creator == Canonical(entry.denom[1])
           done == Exported(stores) \ todo
           one == Recorded(Imported(stores, done \cup {entry}), entry.denom, creator)
<1>1. CASE Panic
  BY <1>1, PanicStep DEF ImportDenom
<1>2. CASE ~Panic
  <2>1. /\ pc = "import" /\ pc' = "import admin" /\ msg' = entry
        /\ cache' = [cache EXCEPT !.denomMetadata = Branch!WithMetadata(@, {entry.denom}),
                                  !.authority[entry.denom] = creator,
                                  !.creators = @ \cup {<<creator, entry.denom>>}]
        /\ UNCHANGED <<stores, handled, todo, seen, shown>>
    BY <1>2 DEF ImportDenom
  <2>2. Branch!WithMetadata(cache.denomMetadata, {entry.denom})
          = Filled(cache.denomMetadata, entry.denom)
    BY BranchIsOn DEF Filled
  <2>3. cache' = Created(cache, entry.denom, creator)
    BY <2>1, <2>2 DEF Created
  <2>4. /\ stores \in Stores /\ done \in SUBSET Exported(stores) /\ entry \in Exported(stores)
        /\ cache = Imported(stores, done)
    BY <2>1 DEF KInv, CallsType, InImport
  <2>5. one \in Stores /\ cache' = one
    <3>1. creator = Canonical(entry.denom[1])
      OBVIOUS
    <3> HIDE DEF done, creator
    <3>2. one \in Stores /\ Created(Imported(stores, done), entry.denom, creator) = one
      BY <2>4, <3>1, ImportsOne
    <3> QED
      BY <2>3, <2>4, <3>2
  <2>6. CallsType'
    BY <2>1, <2>5 DEF KInv, CallsType
  <2>7. Chained'
    BY <2>1 DEF KInv, Chained, Before
  <2>8. Aligned' /\ InHandler'
    BY <2>1 DEF KInv, Aligned, InHandler
  <2>9. InImport'
    <3>1. Exported(stores)' = Exported(stores)
      BY <2>1 DEF Exported
    <3>2. todo' \subseteq Exported(stores)' /\ Exported(stores)' \ todo' = done
      BY <2>1, <3>1 DEF KInv, InImport
    <3>3. cache' = Recorded(Imported(stores, done \cup {msg'}), msg'.denom,
                            Canonical(msg'.denom[1]))
      BY <2>1, <2>5
    <3> QED
      BY <2>1, <3>2, <3>3 DEF InImport
  <2> QED
    BY <2>6, <2>7, <2>8, <2>9 DEF KInv
<1> QED
  BY <1>1, <1>2

\* setAuthorityMetadata for the entry just created: it has its admin back.
LEMMA ImportAdminStep ==
  ASSUME KInv, ImportAdmin
  PROVE  KInv'
<1> DEFINE creator == Canonical(msg.denom[1])
           done == Exported(stores) \ todo
           more == done \cup {msg}
<1>1. CASE Panic
  BY <1>1, PanicStep DEF ImportAdmin
<1>2. CASE ~Panic
  <2>1. /\ pc = "import admin" /\ pc' = "import" /\ todo' = todo \ {msg}
        /\ cache' = Recorded(cache, msg.denom, msg.admin)
        /\ UNCHANGED <<stores, handled, seen, shown>>
    BY <1>2 DEF ImportAdmin, Recorded
  <2>2. /\ stores \in Stores /\ done \in SUBSET Exported(stores) /\ msg \in Exported(stores)
        /\ todo \subseteq Exported(stores) /\ msg \in todo
        /\ cache = Recorded(Imported(stores, more), msg.denom, creator)
    BY <2>1 DEF KInv, CallsType, InImport
  <2>3. cache' = Imported(stores, more) /\ Imported(stores, more) \in Stores
    <3> DEFINE one == Recorded(Imported(stores, done \cup {msg}), msg.denom, creator)
    <3>1. creator = Canonical(msg.denom[1])
      OBVIOUS
    <3> HIDE DEF done, creator
    <3>3. Recorded(one, msg.denom, msg.admin) = Imported(stores, done \cup {msg})
      BY <2>2, <3>1, ImportsOne
    <3>4. cache' = Imported(stores, more)
      BY <2>1, <2>2, <3>3
    <3>5. more \in SUBSET Exported(stores)
      BY <2>2
    <3> HIDE DEF more
    <3>6. Imported(stores, more) \in Stores
      BY <2>2, <3>5, ImportedFields
    <3> QED
      BY <3>4, <3>6
  <2>4. CallsType'
    BY <2>1, <2>3 DEF KInv, CallsType
  <2>5. Chained'
    BY <2>1 DEF KInv, Chained, Before
  <2>6. Aligned' /\ InHandler'
    BY <2>1 DEF KInv, Aligned, InHandler
  <2>7. InImport'
    <3>1. Exported(stores)' = Exported(stores)
      BY <2>1 DEF Exported
    <3>2. todo' \subseteq Exported(stores)' /\ Exported(stores)' \ todo' = more
      BY <2>1, <2>2, <3>1
    <3>3. cache' = Imported(stores, more)
      BY <2>1, <2>3
    <3> QED
      BY <2>1, <3>2, <3>3 DEF InImport
  <2> QED
    BY <2>4, <2>5, <2>6, <2>7 DEF KInv
<1> QED
  BY <1>1, <1>2

\* The first block of the new chain: the whole genesis has been imported.
LEMMA StartStep ==
  ASSUME KInv, Start
  PROVE  KInv' /\ Seen!Restart
<1>1. /\ pc = "import" /\ todo = {} /\ stores' = cache /\ pc' = "idle"
      /\ seen' = cache /\ shown' = Upgrade
      /\ UNCHANGED <<cache, msg, handled, todo>>
  BY DEF Start
<1>2. /\ seen = stores /\ handled = <<>> /\ stores \in Stores
      /\ cache = Imported(stores, Exported(stores))
  <2>1. Exported(stores) \ todo = Exported(stores)
    BY <1>1
  <2> QED
    BY <1>1, <2>1 DEF KInv, Aligned, InImport, CallsType
<1>3. Latest' = stores'
  BY <1>1, <1>2, LatestDropped
<1>4. CallsType'
  BY <1>1 DEF KInv, CallsType
<1>5. Chained'
  BY <1>1, <1>2 DEF Chained
<1>6. Aligned' /\ InHandler' /\ InImport'
  BY <1>1, <1>3 DEF Aligned, InHandler, InImport
<1>7. Seen!Restart
  <2> DEFINE denoms == {e.denom : e \in Exported(stores)}
             listed == {entry[2] : entry \in stores.creators}
  <2>1. denoms = listed
    <3>1. ASSUME NEW entry \in stores.creators PROVE entry[2] \in denoms
      <4> DEFINE e == [key |-> entry, denom |-> entry[2],
                       admin |-> IF stores.authority[entry[2]] = NoRecord THEN Empty
                                 ELSE stores.authority[entry[2]]]
      <4>1. e \in Exported(stores)
        BY DEF Exported
      <4>2. e.denom = entry[2]
        OBVIOUS
      <4> HIDE DEF e
      <4> QED
        BY <4>1, <4>2
    <3>2. ASSUME NEW e \in Exported(stores) PROVE e.denom \in listed
      BY DEF Exported
    <3> QED
      BY <3>1, <3>2
  <2>2. /\ seen'.denomMetadata = [d \in Denoms |->
             IF d \in denoms /\ stores.denomMetadata[d] = NoMetadata
             THEN MinimalMetadata ELSE stores.denomMetadata[d]]
        /\ seen'.authority = [d \in Denoms |-> IF d \in denoms THEN On(stores)!Admin(d) ELSE NoRecord]
        /\ seen'.creators = {<<Canonical(d[1]), d>> : d \in denoms}
        /\ seen'.balances = stores.balances /\ seen'.supply = stores.supply
        /\ seen'.communityPool = stores.communityPool
        /\ seen'.creationFee = stores.creationFee
    <3>1. Exported(stores) \in SUBSET Exported(stores)
      OBVIOUS
    <3> QED
      BY <1>1, <1>2, <3>1, ImportedFields
  <2>3. Seen!ExportGenesis = [d \in listed |-> On(stores)!Admin(d)]
    BY <1>2 DEF Seen!ExportGenesis, Seen!Admin, On!Admin
  <2> HIDE DEF denoms, listed
  <2>4. DOMAIN Seen!ExportGenesis = denoms
        /\ \A d \in denoms : Seen!ExportGenesis[d] = On(stores)!Admin(d)
    BY <2>1, <2>3
  <2>5. seen'.authority = Seen!GenesisAuthority(Seen!ExportGenesis)
    BY <2>2, <2>4 DEF Seen!GenesisAuthority, Seen!Denoms, Denoms, Seen!FactoryDenoms, FactoryDenoms
  <2>6. seen'.creators = Seen!GenesisCreators(Seen!ExportGenesis)
    BY <2>2, <2>4 DEF Seen!GenesisCreators, Seen!Canonical, Canonical
  <2>7. seen'.denomMetadata = Seen!WithMetadata(seen.denomMetadata, DOMAIN Seen!ExportGenesis)
    BY <1>2, <2>2, <2>4
       DEF Seen!WithMetadata, Seen!Denoms, Denoms, Seen!FactoryDenoms, FactoryDenoms
  <2>8. Seen!Done(Seen!Upgrade)
    BY <1>1 DEF Seen!Done, Seen!Upgrade, Upgrade
  <2> QED
    BY <1>2, <2>2, <2>5, <2>6, <2>7, <2>8 DEF Seen!Restart
<1> QED
  BY <1>4, <1>5, <1>6, <1>7 DEF KInv

-----------------------------------------------------------------------------
(* The first genesis.                                                       *)

\* The total of a purse.
Sum(purse) == FoldFunction(+, 0, purse)

\* The genesis that Init chose, on which every part of the stores agrees.
GenesisIs(held, fee, metadata, listed, gs) ==
  /\ stores = [balances      |-> held,
               supply        |-> [d \in Denoms |-> Sum(held[d])],
               denomMetadata |-> Branch!WithMetadata(metadata, listed),
               communityPool |-> [n \in NativeDenoms |-> held[n][DistributionModule]],
               creationFee   |-> fee,
               authority     |-> Branch!GenesisAuthority(gs),
               creators      |-> Branch!GenesisCreators(gs)]
  /\ \A d \in FactoryDenoms \ listed : stores.supply[d] = 0
  /\ cache = stores /\ seen = stores
  /\ pc = "idle" /\ handled = <<>>
  /\ shown = Upgrade

\* The supply of the stores shown is summed as that of the calls.
LEMMA SeenSum ==
  ASSUME NEW f
  PROVE  Seen!FoldFunction(+, 0, f) = Sum(f)
BY DEF Sum, Seen!FoldFunction, FoldFunction, Seen!FoldFunctionOnSet, FoldFunctionOnSet,
  Seen!MapThenFoldSet, MapThenFoldSet

\* The chain begins as TokenFactory does.
LEMMA SeenInit ==
  ASSUME Init
  PROVE  Seen!Init
<1>0. PICK held \in GenesisBalances, fee \in Fees, metadata \in GenesisMetadata,
          listed \in SUBSET GenesisDenoms :
        \E gs \in [listed -> {str \in Strings : ValidAdmin(str)}] : GenesisIs(held, fee, metadata, listed, gs)
  BY DEF Init, Sum, GenesisIs
<1>1. PICK gs \in [listed -> {str \in Strings : ValidAdmin(str)}] :
        GenesisIs(held, fee, metadata, listed, gs)
  BY <1>0
<1>2. /\ seen.balances \in GenesisBalances
      /\ seen.supply = [d \in Seen!Denoms |-> Sum(seen.balances[d])]
      /\ seen.communityPool = [n \in NativeDenoms |-> seen.balances[n][DistributionModule]]
      /\ seen.creationFee \in Fees
  BY <1>1 DEF GenesisIs, Seen!Denoms, Denoms, Seen!FactoryDenoms, FactoryDenoms
<1>3. gs \in [listed -> {str \in Seen!Strings : Seen!ValidAdmin(str)}]
  BY DEF Strings, Seen!Strings, ValidAdmin, Seen!ValidAdmin, IsAddress, Seen!IsAddress
<1>4. Seen!CoinsAreListed(listed)
  BY <1>1 DEF GenesisIs, Seen!CoinsAreListed, Seen!FactoryDenoms, FactoryDenoms
<1>5. Seen!InitGenesis(gs, metadata)
  BY <1>1 DEF GenesisIs, Seen!InitGenesis, Seen!GenesisAuthority, Branch!GenesisAuthority,
     Seen!GenesisCreators, Branch!GenesisCreators, Seen!WithMetadata, Branch!WithMetadata,
     Seen!Denoms, Branch!Denoms, Seen!FactoryDenoms, Branch!FactoryDenoms,
     Seen!Canonical, Branch!Canonical
<1>6. shown = Seen!Upgrade
  BY <1>1 DEF GenesisIs, Upgrade, Seen!Upgrade
<1>7. seen.supply = [d \in Seen!Denoms |-> Seen!FoldFunction(+, 0, seen.balances[d])]
  BY <1>2 DEF Sum, Seen!FoldFunction, FoldFunction, Seen!FoldFunctionOnSet, FoldFunctionOnSet,
     Seen!MapThenFoldSet, MapThenFoldSet
<1>8. \E l \in SUBSET GenesisDenoms, md \in GenesisMetadata :
        /\ Seen!CoinsAreListed(l)
        /\ \E g \in [l -> {str \in Seen!Strings : Seen!ValidAdmin(str)}] :
             Seen!InitGenesis(g, md)
  BY <1>3, <1>4, <1>5
<1> QED
  BY <1>2, <1>6, <1>7, <1>8 DEF Seen!Init

\* ... and with the invariant.
LEMMA InitStores ==
  ASSUME Init
  PROVE  KInv
<1>0. PICK held \in GenesisBalances, fee \in Fees, metadata \in GenesisMetadata,
          listed \in SUBSET GenesisDenoms :
        \E gs \in [listed -> {str \in Strings : ValidAdmin(str)}] : GenesisIs(held, fee, metadata, listed, gs)
  BY DEF Init, Sum, GenesisIs
<1>1. PICK gs \in [listed -> {str \in Strings : ValidAdmin(str)}] :
        GenesisIs(held, fee, metadata, listed, gs)
  BY <1>0
<1>2. Amount \subseteq Int
  BY MaxIntAssumption DEF Amount
<1>3. held \in [Denoms -> [Accounts -> Int]]
  <2>1. held \in [Denoms -> [Accounts -> Amount]]
    BY GenesisAssumption
  <2> QED
    BY <1>2, <2>1
<1>4. [d \in Denoms |-> Sum(held[d])] \in [Denoms -> Int]
  <2>1. \A d \in Denoms : Sum(held[d]) \in Amount
    BY GenesisAssumption DEF Sum
  <2> QED
    BY <1>2, <2>1
<1>5. fee \in [NativeDenoms -> Int]
  BY <1>2, ConstantsAssumption
<1>6. [n \in NativeDenoms |-> held[n][DistributionModule]] \in [NativeDenoms -> Int]
  <2>1. DistributionModule \in Accounts /\ NativeDenoms \subseteq Denoms
    BY ConstantsAssumption DEF ModuleAccounts, Denoms
  <2> QED
    BY <1>3, <2>1
<1>7. Branch!WithMetadata(metadata, listed) \in [Denoms -> Metadata \cup {NoMetadata}]
  <2>1. metadata \in [Denoms -> Metadata \cup {NoMetadata}]
    BY GenesisAssumption DEF Metadata
  <2>2. Branch!WithMetadata(metadata, listed)
          = [d \in Denoms |-> IF d \in listed /\ metadata[d] = NoMetadata
                              THEN MinimalMetadata ELSE metadata[d]]
    BY BranchIsOn
  <2> QED
    BY <2>1, <2>2 DEF Metadata
<1>8. DOMAIN gs = listed /\ listed \subseteq FactoryDenoms
  BY GenesisAssumption
<1>9. Branch!GenesisAuthority(gs) \in [Denoms -> AddrStrings \cup {Empty, NoRecord}]
  <2>1. Branch!GenesisAuthority(gs)
          = [d \in Denoms |-> IF d \in DOMAIN gs THEN gs[d] ELSE NoRecord]
    BY DEF Branch!GenesisAuthority, Branch!Denoms, Denoms, Branch!FactoryDenoms, FactoryDenoms
  <2>2. \A d \in DOMAIN gs : gs[d] \in AddrStrings \cup {Empty}
    BY <1>8 DEF ValidAdmin, IsAddress
  <2> QED
    BY <2>1, <2>2
<1>10. Branch!GenesisCreators(gs) \in SUBSET (AddrStrings \X FactoryDenoms)
  <2>1. Branch!GenesisCreators(gs) = {<<Canonical(d[1]), d>> : d \in DOMAIN gs}
    BY DEF Branch!GenesisCreators, Branch!Canonical, Canonical
  <2>2. \A d \in FactoryDenoms : d[1] \in AddrStrings
    BY DEF FactoryDenoms
  <2>3. \A d \in FactoryDenoms : Canonical(d[1]) \in AddrStrings
    BY <2>2, AddressAssumption DEF Canonical
  <2> QED
    BY <1>8, <2>1, <2>3
<1>11. stores \in Stores
  BY <1>1, <1>3, <1>4, <1>5, <1>6, <1>7, <1>9, <1>10 DEF GenesisIs, Stores
<1>12. CallsType
  <2>1. <<>> \in Seq(HandledMsgs)
    <3> HIDE DEF HandledMsgs
    <3> QED
      OBVIOUS
  <2> QED
    BY <1>1, <1>11, <2>1 DEF GenesisIs, CallsType
<1>13. Latest = stores
  BY <1>1 DEF GenesisIs, Latest, Before
<1>14. Chained
  BY <1>1 DEF GenesisIs, Chained
<1>15. Aligned /\ InHandler /\ InImport
  BY <1>1, <1>13 DEF GenesisIs, Aligned, InHandler, InImport
<1> QED
  BY <1>12, <1>14, <1>15 DEF KInv

-----------------------------------------------------------------------------
(* The refinement.                                                          *)

\* Every step keeps the invariant, and is a step of TokenFactory on the stores
\* shown, or leaves them.
LEMMA CallsStep ==
  ASSUME KInv, Next
  PROVE  KInv' /\ (UNCHANGED Seen!vars \/ Seen!Next)
<1>1. ASSUME UNCHANGED <<seen, shown>> PROVE UNCHANGED Seen!vars
  BY <1>1 DEF Seen!vars, Seen!state
<1>2. CASE \E m \in Admissible : Begin(m)
  BY <1>1, <1>2, BeginStep DEF Begin
<1>3. CASE Handler
  <2>1. UNCHANGED <<seen, shown>>
    BY <1>3 DEF Handler, Validate, Charge, ConsumeGas, WriteMetadata, WriteAuthority,
       WriteCreator, Authorize, MintCoins, SendMinted, Collect, BurnCoins, Transfer,
       SetAdmin, SetMetadata, BankTransfer, Call, LastCall
  <2> QED
    BY <1>1, <1>3, <2>1, CreateCalls, AuthorizeCall, MintCalls, BurnCalls, SingleCalls
       DEF Handler
<1>4. CASE Commit \/ Fail
  BY <1>1, <1>4, EndStep DEF Commit, Fail, Abort
<1>5. CASE Show
  <2>1. KInv' /\ HandledOn(seen, shown', seen') /\ shown' \in Messages /\ seen \in Stores
    BY <1>5, ShowStep DEF KInv, CallsType
  <2>2. Seen!Next
    BY <2>1, ShownIsStep
  <2> QED
    BY <2>1, <2>2
<1>6. ASSUME NEW fee \in Fees, Governs(fee)
      PROVE  KInv' /\ Seen!Next
  BY <1>6, GovernsStep DEF Seen!Next
<1>7. CASE Export
  BY <1>1, <1>7, ExportStep DEF Export
<1>8. CASE \E entry \in todo : ImportDenom(entry)
  BY <1>1, <1>8, ImportDenomStep DEF ImportDenom, Panic
<1>9. CASE ImportAdmin
  BY <1>1, <1>9, ImportAdminStep DEF ImportAdmin, Panic
<1>10. CASE Start
  <2>1. KInv' /\ Seen!Restart
    BY <1>10, StartStep
  <2> QED
    BY <2>1 DEF Seen!Next
<1> QED
  BY <1>2, <1>3, <1>4, <1>5, <1>6, <1>7, <1>8, <1>9, <1>10 DEF Next, Import

\* A step that changes nothing.
LEMMA CallsStutter ==
  ASSUME KInv, UNCHANGED vars
  PROVE  KInv' /\ UNCHANGED Seen!vars
<1>1. UNCHANGED <<stores, cache, pc, msg, handled, todo, seen, shown>>
  BY DEF vars, calls
<1>2. Latest' = Latest
  BY <1>1, LatestKept
<1>3. CallsType' /\ Chained'
  BY <1>1 DEF KInv, CallsType, Chained, Before
<1>4. Aligned'
  BY <1>1, <1>2 DEF KInv, Aligned
<1>5. InHandler'
  <2>1. Paying' <=> Paying
    BY <1>1, <1>2 DEF Paying
  <2>2. /\ OfAdmin({"mint"})' <=> OfAdmin({"mint"})
        /\ OfAdmin({"burn"})' <=> OfAdmin({"burn"})
        /\ OfAdmin({"force_transfer"})' <=> OfAdmin({"force_transfer"})
        /\ OfAdmin({"change_admin"})' <=> OfAdmin({"change_admin"})
        /\ OfAdmin({"set_denom_metadata"})' <=> OfAdmin({"set_denom_metadata"})
    BY <1>1, <1>2 DEF OfAdmin
  <2>3. InHandler
    BY DEF KInv
  <2>4. CASE pc \in {"mint coins", "send minted"}
    BY <1>1, <1>2, <2>2, <2>3, <2>4 DEF InHandler
  <2>5. CASE pc \in {"collect", "burn coins"}
    BY <1>1, <1>2, <2>2, <2>3, <2>5 DEF InHandler
  <2>6. CASE pc \in {"transfer", "set admin", "set metadata", "bank transfer"}
    BY <1>1, <1>2, <2>2, <2>3, <2>6 DEF InHandler
  <2>7. CASE pc \in {"consume gas", "write metadata", "write authority", "write creator"}
    BY <1>1, <1>2, <2>1, <2>3, <2>7 DEF InHandler
  <2>8. CASE pc \in {"next", "validate", "charge", "authorize"}
    BY <1>1, <1>2, <2>3, <2>8 DEF InHandler
  <2>9. CASE pc \notin {"next"} \cup CallNames
    BY <1>1, <2>9 DEF InHandler, CallNames
  <2> QED
    BY <2>4, <2>5, <2>6, <2>7, <2>8, <2>9 DEF CallNames
<1>6. InImport'
  BY <1>1 DEF KInv, InImport, Exported
<1>7. UNCHANGED Seen!vars
  BY <1>1 DEF Seen!vars, Seen!state
<1> QED
  BY <1>3, <1>4, <1>5, <1>6, <1>7 DEF KInv

\* At every call the branch holds exactly what the calls before it wrote, and the
\* checks of the message that have passed hold of the stores its handler found.
\* The handlers read the branch again between their calls; this is why that is safe.
THEOREM CallsInvariant == Spec => []KInv
<1>1. Init => KInv
  BY InitStores
<1>2. KInv /\ [Next]_vars => KInv'
  BY CallsStep, CallsStutter
<1> QED
  BY <1>1, <1>2, PTL DEF Spec

\* The calls of a handler add up to one step of TokenFactory, a transaction to one
\* step for each of its messages, a failure at any call to none, and the import of
\* the genesis, however often it panics and begins anew, to one restart.
THEOREM CallsImplementTokenFactory == Spec => ImplementsTokenFactory
<1>1. Init => Seen!Init
  BY SeenInit
<1>2. KInv /\ [Next]_vars => [UNCHANGED Seen!vars \/ Seen!Next]_(Seen!vars)
  BY CallsStep, CallsStutter
<1> QED
  BY <1>1, <1>2, CallsInvariant, PTL DEF Spec, ImplementsTokenFactory

-----------------------------------------------------------------------------
(* The exported genesis passes its validation.                              *)

\* The index lists a denom once, and one that the bank has metadata of: it is
\* by the metadata that CreateDenom knows that the denom exists.
Listed(s) ==
  /\ \A e, f \in s.creators : e[2] = f[2] => e = f
  /\ \A e \in s.creators : s.denomMetadata[e[2]] # NoMetadata

\* ... in all the stores that a restart may export.
ListedInv ==
  /\ Listed(stores) /\ Listed(seen)
  /\ \A k \in 1 .. Len(handled) : Listed(handled[k].after)

\* Stores with the same index, and metadata for whatever had it, stay listed.
LEMMA ListedKept ==
  ASSUME NEW s \in Stores, Listed(s), NEW t \in Stores, t.creators = s.creators,
         \A d \in Denoms : s.denomMetadata[d] # NoMetadata => t.denomMetadata[d] # NoMetadata
  PROVE  Listed(t)
<1>1. \A e \in s.creators : e[2] \in Denoms
  BY DEF Stores, Denoms
<1> QED
  BY <1>1 DEF Listed

\* A handled message leaves the index with every denom listed once.
LEMMA HandledListed ==
  ASSUME NEW s \in Stores, Listed(s), NEW m, NEW t, HandledOn(s, m, t)
  PROVE  Listed(t)
<1>0. t \in Stores /\ Denoms = FactoryDenoms \cup NativeDenoms
  BY HandledType DEF Denoms
<1>a. \A str \in AddrStrings : AccOf[str] \in Accounts
  BY AddressAssumption
<1>b. \A d \in Denoms : s.balances[d] \in [Accounts -> Int] /\ s.supply[d] \in Int
  BY DEF Stores
<1>n. NoMetadata \notin Metadata
  BY ConstantsAssumption
<1>1. CASE m \in CreateDenomMsgs /\ On(s)!CreateDenomOk(m)
           /\ t = Indexed(Recorded(Described(Charged(s, m), m), DenomOf(m), m.sender), m)
  <2>1. DenomOf(m) \in FactoryDenoms /\ DenomOf(m) \in Denoms /\ m.sender \in AddrStrings
    BY <1>0, <1>1, OnChecks, NewDenomIsOne
  <2> DEFINE c == Charged(s, m)
             d == Described(c, m)
             r == Recorded(d, DenomOf(m), m.sender)
  <2>2. c \in Stores /\ c.denomMetadata = s.denomMetadata /\ c.creators = s.creators
    BY <2>1, ChargedFields
  <2> HIDE DEF c
  <2>3. /\ d \in Stores /\ d.creators = c.creators
        /\ d.denomMetadata = [x \in Denoms |->
             IF x = DenomOf(m) /\ c.denomMetadata[x] = NoMetadata
             THEN MinimalMetadata ELSE c.denomMetadata[x]]
    BY <2>2, DescribedFields
  <2> HIDE DEF d
  <2>4. r \in Stores /\ r.creators = d.creators /\ r.denomMetadata = d.denomMetadata
    <3>1. d \in Stores /\ DenomOf(m) \in Denoms /\ m.sender \in AddrStrings \cup {Empty}
      BY <2>1, <2>3
    <3> QED
      BY <3>1, RecordedFields
  <2> HIDE DEF r
  <2>5. t.creators = r.creators \cup {<<m.sender, DenomOf(m)>>} /\ t.denomMetadata = r.denomMetadata
    <3>1. t = Indexed(r, m)
      BY <1>1 DEF r, d, c
    <3> QED
      BY <2>1, <2>4, <3>1, IndexedFields
  <2>6. s.denomMetadata[DenomOf(m)] = NoMetadata
    <3>1. On(s)!validateCreateDenom(m)
      BY <1>1, OnChecks
    <3> QED
      BY <3>1 DEF On!validateCreateDenom, On!HasMetadata, DenomOf
  <2>7. \A e \in s.creators : e[2] # DenomOf(m) /\ e[2] \in Denoms
    BY <2>6 DEF Listed, Stores, Denoms
  <2>8. \A e, f \in t.creators : e[2] = f[2] => e = f
    BY <2>2, <2>3, <2>4, <2>5, <2>7 DEF Listed
  <2>9. \A x \in Denoms : (s.denomMetadata[x] # NoMetadata \/ x = DenomOf(m))
                            => t.denomMetadata[x] # NoMetadata
    BY <1>n, <2>2, <2>3, <2>4, <2>5 DEF Metadata
  <2>10. \A e \in t.creators : t.denomMetadata[e[2]] # NoMetadata
    <3> SUFFICES ASSUME NEW e \in t.creators PROVE t.denomMetadata[e[2]] # NoMetadata
      OBVIOUS
    <3>1. CASE e \in s.creators
      BY <2>7, <2>9, <3>1 DEF Listed
    <3>2. CASE e = <<m.sender, DenomOf(m)>>
      BY <2>1, <2>9, <3>2
    <3> QED
      BY <2>2, <2>3, <2>4, <2>5, <3>1, <3>2
  <2> QED
    BY <2>8, <2>10 DEF Listed
<1>2. CASE m \in MintMsgs /\ On(s)!MintOk(m)
           /\ t = WithTotal(
              WithPurse(s, m.denom,
                On(s)!mintTo(s.balances[m.denom], m.amount, AccOf[OrSender(m.to, m)])),
              m.denom, s.supply[m.denom] + m.amount)
  BY <1>2, <1>0, ListedKept DEF WithTotal, WithPurse, Stores
<1>3. CASE m \in BurnMsgs /\ On(s)!BurnOk(m)
           /\ t = WithTotal(
              WithPurse(s, m.denom,
                On(s)!burnFrom(s.balances[m.denom], m.amount, AccOf[OrSender(m.from, m)])),
              m.denom, s.supply[m.denom] - m.amount)
  BY <1>3, <1>0, ListedKept DEF WithTotal, WithPurse, Stores
<1>4. CASE m \in ForceTransferMsgs /\ On(s)!ForceTransferOk(m)
           /\ t = WithPurse(s, m.denom,
              Send(s.balances[m.denom], AccOf[m.from], AccOf[m.to], m.amount))
  BY <1>4, <1>0, ListedKept DEF WithPurse, Stores
<1>5. CASE m \in ChangeAdminMsgs /\ On(s)!ChangeAdminOk(m) /\ t = Recorded(s, m.denom, m.newAdmin)
  BY <1>5, <1>0, ListedKept DEF Recorded, Stores
<1>6. CASE m \in SetDenomMetadataMsgs /\ On(s)!SetDenomMetadataOk(m)
           /\ t = [s EXCEPT !.denomMetadata[m.denom] = m.metadata]
  <2>1. m.denom \in Denoms /\ m.metadata \in Metadata
    BY <1>6, MessageFields
  <2>2. t.creators = s.creators
        /\ t.denomMetadata = [s.denomMetadata EXCEPT ![m.denom] = m.metadata]
    BY <1>6 DEF Stores
  <2>3. s.denomMetadata \in [Denoms -> Metadata \cup {NoMetadata}]
    BY DEF Stores
  <2>4. \A d \in Denoms : s.denomMetadata[d] # NoMetadata => t.denomMetadata[d] # NoMetadata
    BY <1>n, <2>1, <2>2, <2>3
  <2> QED
    BY <1>0, <2>2, <2>4, ListedKept
<1>7. CASE m \in BankSendMsgs /\ On(s)!BankSendOk(m)
           /\ t = WithPurse(s, m.denom,
              Send(s.balances[m.denom], AccOf[m.sender], AccOf[m.to], m.amount))
  BY <1>7, <1>0, ListedKept DEF WithPurse, Stores
<1> QED
  BY <1>1, <1>2, <1>3, <1>4, <1>5, <1>6, <1>7 DEF HandledOn

\* The imported stores list every denom once, under its creator.
LEMMA ImportedListed ==
  ASSUME NEW s \in Stores, NEW done \in SUBSET Exported(s)
  PROVE  Listed(Imported(s, done))
<1> DEFINE t == Imported(s, done)
           denoms == {e.denom : e \in done}
<1>1. /\ t.denomMetadata = [d \in Denoms |->
           IF d \in denoms /\ s.denomMetadata[d] = NoMetadata
           THEN MinimalMetadata ELSE s.denomMetadata[d]]
      /\ t.creators = {<<Canonical(d[1]), d>> : d \in denoms}
  BY ImportedFields
<1>2. denoms \subseteq Denoms
  BY ExportedEntries
<1>3. MinimalMetadata # NoMetadata
  BY ConstantsAssumption DEF Metadata
<1> HIDE DEF t, denoms
<1>4. \A e \in t.creators : e[2] \in denoms /\ e = <<Canonical(e[2][1]), e[2]>>
  BY <1>1
<1>5. \A d \in denoms : t.denomMetadata[d] # NoMetadata
  BY <1>1, <1>2, <1>3
<1>6. Listed(t)
  BY <1>4, <1>5 DEF Listed
<1> QED
  BY <1>6 DEF t

\* Steps that leave the stores shown, the stores written and the handled messages.
LEMMA ListedUnchanged ==
  ASSUME ListedInv, UNCHANGED <<stores, seen, handled>>
  PROVE  ListedInv'
BY DEF ListedInv, Listed

\* The stores that the next message will find are listed, too.
LEMMA LatestListed ==
  ASSUME CallsType, ListedInv
  PROVE  Listed(Latest)
<1>1. Len(handled) \in Nat
  BY SequenceFacts DEF CallsType
<1>2. CASE Len(handled) = 0
  BY <1>2 DEF ListedInv, Latest, Before
<1>3. CASE Len(handled) # 0
  <2>1. Len(handled) \in 1 .. Len(handled)
        /\ Len(handled) + 1 # 1 /\ Len(handled) + 1 - 1 = Len(handled)
    BY <1>1, <1>3
  <2>2. Listed(handled[Len(handled)].after)
    BY <2>1 DEF ListedInv
  <2> QED
    BY <2>1, <2>2 DEF Latest, Before
<1> QED
  BY <1>2, <1>3

\* A handler's last call: what it leaves is the next link of the chain.
LEMMA ListedAppended ==
  ASSUME KInv, KInv', ListedInv, NEW e \in HandledMsgs, handled' = Append(handled, e),
         UNCHANGED <<stores, seen>>
  PROVE  ListedInv'
<1> DEFINE L == Len(handled)
<1>1. /\ L \in Nat /\ Len(handled') = L + 1
      /\ handled'[L + 1] = e
      /\ \A k \in 1 .. L : handled'[k] = handled[k]
  <2>1. handled \in Seq(HandledMsgs)
    BY DEF KInv, CallsType
  <2> HIDE DEF HandledMsgs
  <2> QED
    BY <2>1, SequenceFacts
<1>2. Listed(Latest) /\ Latest \in Stores
  BY LatestListed, LatestType DEF KInv
<1>3. HandledOn(Latest, e.msg, e.after)
  <2>1. \A k \in 1 .. Len(handled') : HandledOn(Before(k), handled[k].msg, handled[k].after)'
    BY DEF KInv, Chained
  <2> SUFFICES ASSUME NEW k \in 1 .. Len(handled'), k = L + 1
               PROVE  HandledOn(Latest, e.msg, e.after)
    BY <1>1
  <2>2. Before(k)' = Before(k)
    <3>1. CASE k = 1
      BY <3>1 DEF Before
    <3>2. CASE k # 1
      <4>1. k - 1 \in 1 .. L
        BY <1>1, <3>2
      <4> HIDE DEF L
      <4> QED
        BY <1>1, <3>2, <4>1 DEF Before
    <3> QED
      BY <3>1, <3>2
  <2>3. HandledOn(Before(k), handled[k].msg, handled[k].after)'
    BY <2>1
  <2> QED
    BY <1>1, <2>2, <2>3 DEF Latest
<1>4. Listed(e.after)
  BY <1>2, <1>3, HandledListed
<1>5. ASSUME NEW k \in 1 .. Len(handled') PROVE Listed(handled'[k].after)
  <2>1. CASE k = L + 1
    BY <1>1, <1>4, <2>1
  <2>2. CASE k # L + 1
    <3>1. k \in 1 .. L
      BY <1>1, <2>2
    <3> QED
      BY <1>1, <3>1 DEF ListedInv
  <2> QED
    BY <2>1, <2>2
<1>6. Listed(stores') /\ Listed(seen')
  BY DEF ListedInv
<1> QED
  BY <1>5, <1>6 DEF ListedInv

\* A handler's calls are about one of the messages.
LEMMA HandlersMessage ==
  ASSUME KInv, pc \in CallNames
  PROVE  msg \in Messages
<1>1. InHandler
  BY DEF KInv
<1>2. CASE pc \in {"consume gas", "write metadata", "write authority", "write creator"}
  BY <1>1, <1>2 DEF InHandler, Paying, Messages
<1>3. CASE pc \in {"mint coins", "send minted"}
  <2>1. msg \in Admissible
    BY <1>1, <1>3 DEF InHandler, OfAdmin
  <2> QED
    BY <2>1, AdmissibleMessages
<1>4. CASE pc \in {"collect", "burn coins"}
  <2>1. msg \in Admissible
    BY <1>1, <1>4 DEF InHandler, OfAdmin
  <2> QED
    BY <2>1, AdmissibleMessages
<1>5. CASE pc \in {"transfer", "set admin", "set metadata", "bank transfer"}
  <2>1. msg \in Admissible
    BY <1>1, <1>5 DEF InHandler, OfAdmin
  <2> QED
    BY <2>1, AdmissibleMessages
<1>6. CASE pc \in {"validate", "charge", "authorize"}
  <2>1. msg \in Admissible
    BY <1>1, <1>6 DEF InHandler
  <2> QED
    BY <2>1, AdmissibleMessages
<1> QED
  BY <1>2, <1>3, <1>4, <1>5, <1>6 DEF CallNames

\* Every step leaves all these stores listed.
LEMMA ListedStep ==
  ASSUME KInv, KInv', ListedInv, Next
  PROVE  ListedInv'
<1>1. CASE UNCHANGED <<stores, seen, handled>>
  BY <1>1, ListedUnchanged
<1>2. CASE /\ pc \in CallNames /\ UNCHANGED <<stores, seen>>
           /\ handled' = Append(handled, [msg |-> msg, after |-> cache'])
  <2>1. [msg |-> msg, after |-> cache'] \in HandledMsgs
    BY <1>2, HandlersMessage DEF KInv, CallsType, HandledMsgs
  <2> QED
    BY <1>2, <2>1, ListedAppended
<1>3. CASE Handler
  <2>1. \/ UNCHANGED <<stores, seen, handled>>
        \/ /\ pc \in CallNames /\ UNCHANGED <<stores, seen>>
           /\ handled' = Append(handled, [msg |-> msg, after |-> cache'])
    BY <1>3 DEF Handler, Validate, Charge, ConsumeGas, WriteMetadata, WriteAuthority,
       WriteCreator, Authorize, MintCoins, SendMinted, Collect, BurnCoins, Transfer,
       SetAdmin, SetMetadata, BankTransfer, Call, LastCall, CallNames
  <2> QED
    BY <1>1, <1>2, <2>1
<1>4. CASE Commit
  <2>1. stores' = Latest /\ UNCHANGED <<seen, handled>>
    BY <1>4 DEF Commit, KInv, InHandler
  <2>2. Listed(stores')
    BY <2>1, LatestListed DEF KInv
  <2> QED
    BY <2>1, <2>2 DEF ListedInv
<1>5. CASE Fail
  BY <1>5 DEF Fail, Abort, ListedInv
<1>6. CASE Show
  <2>1. /\ handled # <<>> /\ handled' = Tail(handled)
        /\ seen' = Head(handled).after /\ stores' = stores
    BY <1>6 DEF Show
  <2>2. /\ Head(handled) = handled[1]
        /\ Len(handled) \in Nat \ {0} /\ Len(handled') = Len(handled) - 1
        /\ \A k \in 1 .. Len(handled) - 1 : handled'[k] = handled[k + 1]
    <3>1. handled \in Seq(HandledMsgs)
      BY DEF KInv, CallsType
    <3> HIDE DEF HandledMsgs
    <3> QED
      BY <2>1, <3>1, TailFacts
  <2>3. Listed(seen') /\ Listed(stores')
    BY <2>1, <2>2 DEF ListedInv
  <2>4. ASSUME NEW k \in 1 .. Len(handled') PROVE Listed(handled'[k].after)
    <3>1. k \in 1 .. Len(handled) - 1 /\ k + 1 \in 1 .. Len(handled)
      BY <2>2
    <3> QED
      BY <2>2, <3>1 DEF ListedInv
  <2> QED
    BY <2>3, <2>4 DEF ListedInv
<1>7. ASSUME NEW fee \in Fees, Governs(fee) PROVE ListedInv'
  <2>1. /\ seen' = stores' /\ handled' = handled
        /\ stores' = [stores EXCEPT !.creationFee = fee] /\ stores \in Stores
    BY <1>7 DEF Governs, KInv, CallsType
  <2>2. Listed(stores')
    BY <2>1 DEF ListedInv, Listed, Stores
  <2> QED
    BY <2>1, <2>2 DEF ListedInv
<1>8. CASE Export \/ ImportAdmin \/ \E entry \in todo : ImportDenom(entry)
  BY <1>1, <1>8 DEF Export, ImportAdmin, ImportDenom, Panic
<1>9. CASE Start
  <2>1. /\ seen' = stores' /\ handled' = handled /\ stores \in Stores
        /\ stores' = Imported(stores, Exported(stores))
    <3>1. Exported(stores) \ {} = Exported(stores)
      OBVIOUS
    <3> QED
      BY <1>9, <3>1 DEF Start, KInv, CallsType, InImport
  <2>2. Exported(stores) \in SUBSET Exported(stores)
    OBVIOUS
  <2>3. Listed(stores')
    BY <2>1, <2>2, ImportedListed
  <2> QED
    BY <2>1, <2>3 DEF ListedInv
<1>10. CASE \E m \in Admissible : Begin(m)
  BY <1>1, <1>10 DEF Begin
<1> QED
  BY <1>3, <1>4, <1>5, <1>6, <1>7, <1>8, <1>9, <1>10 DEF Next, Import

\* The chain's first genesis lists its denoms once.
LEMMA ListedInit ==
  ASSUME Init
  PROVE  ListedInv
<1>0. PICK held \in GenesisBalances, fee \in Fees, metadata \in GenesisMetadata,
          listed \in SUBSET GenesisDenoms :
        \E gs \in [listed -> {str \in Strings : ValidAdmin(str)}] :
          GenesisIs(held, fee, metadata, listed, gs)
  BY DEF Init, Sum, GenesisIs
<1>1. PICK gs \in [listed -> {str \in Strings : ValidAdmin(str)}] :
        GenesisIs(held, fee, metadata, listed, gs)
  BY <1>0
<1>2. /\ stores.creators = {<<Canonical(d[1]), d>> : d \in listed}
      /\ stores.denomMetadata = [d \in Denoms |-> IF d \in listed /\ metadata[d] = NoMetadata
                                                   THEN MinimalMetadata ELSE metadata[d]]
      /\ seen = stores /\ handled = <<>>
  <2>1. Branch!GenesisCreators(gs) = {<<Canonical(d[1]), d>> : d \in DOMAIN gs}
    BY DEF Branch!GenesisCreators, Branch!Canonical, Canonical
  <2>2. Branch!WithMetadata(metadata, listed)
          = [d \in Denoms |-> IF d \in listed /\ metadata[d] = NoMetadata
                              THEN MinimalMetadata ELSE metadata[d]]
    BY BranchIsOn
  <2> QED
    BY <1>1, <2>1, <2>2 DEF GenesisIs
<1>3. listed \subseteq Denoms
  BY GenesisAssumption DEF Denoms
<1>4. MinimalMetadata # NoMetadata
  BY ConstantsAssumption DEF Metadata
<1>5. \A e \in stores.creators : e[2] \in listed /\ e = <<Canonical(e[2][1]), e[2]>>
  BY <1>2
<1>6. \A d \in listed : stores.denomMetadata[d] # NoMetadata
  BY <1>2, <1>3, <1>4
<1>7. Listed(stores)
  BY <1>5, <1>6 DEF Listed
<1> QED
  BY <1>2, <1>7 DEF ListedInv

\* The exported genesis lists no denom twice, and every entry of it passes
\* GenesisState.Validate: an entry is as good as the index key it is made of.
LEMMA ListedValidates ==
  ASSUME CallsType, ListedInv
  PROVE  ExportValidates
<1>1. stores \in Stores /\ Listed(stores)
  BY DEF CallsType, ListedInv
<1>2. ASSUME NEW x \in Exported(stores), NEW y \in Exported(stores), x.denom = y.denom
      PROVE  x = y
  <2> DEFINE Entry(e) == [key |-> e, denom |-> e[2],
                          admin |-> IF stores.authority[e[2]] = NoRecord THEN Empty
                                    ELSE stores.authority[e[2]]]
  <2>1. PICK e \in stores.creators : x = Entry(e)
    BY DEF Exported
  <2>2. PICK f \in stores.creators : y = Entry(f)
    BY DEF Exported
  <2>3. e = f
    BY <1>1, <1>2, <2>1, <2>2 DEF Listed
  <2> QED
    BY <2>1, <2>2, <2>3
<1>3. ASSUME NEW x \in Exported(stores)
      PROVE  IsFactoryDenom(x.denom) /\ ValidAdmin(x.admin)
  BY <1>1, ExportedEntries DEF IsFactoryDenom, ValidAdmin, IsAddress
<1> QED
  BY <1>2, <1>3 DEF ExportValidates, ValidGenesis

\* Whatever the transactions did, and however the last import went, the exported
\* genesis passes GenesisState.Validate: no denom is listed twice, although the
\* index has a key for each pair of creator and denom.
THEOREM ExportAlwaysValidates == Spec => []ExportValidates
<1>1. Init => ListedInv
  BY ListedInit
<1>2. KInv /\ KInv' /\ ListedInv /\ [Next]_vars => ListedInv'
  <2>1. UNCHANGED vars => UNCHANGED <<stores, seen, handled>>
    BY DEF vars, calls
  <2> QED
    BY <2>1, ListedStep, ListedUnchanged
<1>3. KInv /\ ListedInv => ExportValidates
  BY ListedValidates DEF KInv
<1> QED
  BY <1>1, <1>2, <1>3, CallsInvariant, PTL DEF Spec
=============================================================================
