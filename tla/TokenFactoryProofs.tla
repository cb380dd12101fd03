------------------------- MODULE TokenFactoryProofs -------------------------
(***************************************************************************)
(* Theorems about the chain, for every set of accounts, spelling of        *)
(* addresses, denoms, amounts, fees, genesis and typed words that the      *)
(* assumptions allow: about TokenFactory, about the operations of          *)
(* Simulation and about the commands of Client, which run on it.           *)
(*                                                                         *)
(* The inductive invariant IInv is the conjunction of three of the         *)
(* invariants TLC checks, and none of them is inductive alone. TypeOK      *)
(* needs FeePoolBacked, for the community pool stays in range only because *)
(* an account that is in range holds it; a creation keeps                  *)
(* RegistryConsistent only because of its own last conjunct: no metadata   *)
(* means no record, and no record means no entry in the index.             *)
(*                                                                         *)
(* The second part adds the coins: the supply of every denom is what its   *)
(* accounts hold, whatever the accounts and the amounts. From this follow  *)
(* the bounds that the module relies on where its code checks nothing:     *)
(* that an admin is served, that the messages of the simulation pass, and  *)
(* that every step of the module is a step of TokenLedger.                 *)
(*                                                                         *)
(* The third part is about the commands. Whatever commands are run, the    *)
(* chain takes steps of TokenFactory, so that all of the above holds       *)
(* beside them; and a denom created by command is listed to its creator    *)
(* for good. ListedToCreator is not inductive, as it does not say under    *)
(* which of the spellings of an address the index lists a denom. Commanded *)
(* says it is the canonical one: that is where the import puts every       *)
(* denom, and so it is where the denom stays.                              *)
(***************************************************************************)
EXTENDS Simulation, Client, RecursionProofs, TLAPS

IInv == TypeOK /\ RegistryConsistent /\ FeePoolBacked

-----------------------------------------------------------------------------
(* What the bank's operations make of each account.                         *)

\* What a debit leaves of each account.
LEMMA DebitAt ==
  ASSUME NEW purse \in [Accounts -> Int], NEW a \in Accounts, NEW n \in Int
  PROVE  /\ Debit(purse, a, n) \in [Accounts -> Int]
         /\ \A b \in Accounts : Debit(purse, a, n)[b] = IF b = a THEN purse[b] - n ELSE purse[b]
BY DEF Debit

\* What a credit makes of each account.
LEMMA CreditAt ==
  ASSUME NEW purse \in [Accounts -> Int], NEW a \in Accounts, NEW n \in Int
  PROVE  /\ Credit(purse, a, n) \in [Accounts -> Int]
         /\ \A b \in Accounts : Credit(purse, a, n)[b] = IF b = a THEN purse[b] + n ELSE purse[b]
BY DEF Credit

\* What account b gains when n coins come to account a.
Part(b, a, n) == IF b = a THEN n ELSE 0

\* What SendCoins makes of each account, be it the sender, the recipient or both.
LEMMA SendAt ==
  ASSUME NEW purse \in [Accounts -> Int], NEW from \in Accounts, NEW to \in Accounts,
         NEW n \in Int
  PROVE  /\ Send(purse, from, to, n) \in [Accounts -> Int]
         /\ \A b \in Accounts :
              Send(purse, from, to, n)[b] = purse[b] - Part(b, from, n) + Part(b, to, n)
<1> DEFINE taken == Debit(purse, from, n)
<1>1. /\ taken \in [Accounts -> Int]
      /\ \A b \in Accounts : taken[b] = IF b = from THEN purse[b] - n ELSE purse[b]
  BY DebitAt
<1> HIDE DEF taken
<1>2. /\ Credit(taken, to, n) \in [Accounts -> Int]
      /\ \A b \in Accounts : Credit(taken, to, n)[b] = IF b = to THEN taken[b] + n ELSE taken[b]
  BY <1>1, CreditAt
<1>3. Send(purse, from, to, n) = Credit(taken, to, n)
  BY DEF Send, taken
<1> QED
  BY <1>1, <1>2, <1>3 DEF Part

\* SendCoins in two assignments is one move.
LEMMA SendIsMove ==
  ASSUME NEW purse \in [Accounts -> Int], NEW from \in Accounts, NEW to \in Accounts,
         NEW n \in Int
  PROVE  Send(purse, from, to, n) = Ledger!Moved(purse, from, to, n)
<1> DEFINE e == Send(purse, from, to, n)
           f == Ledger!Moved(purse, from, to, n)
<1>1. /\ e \in [Accounts -> Int]
      /\ \A b \in Accounts : e[b] = purse[b] - Part(b, from, n) + Part(b, to, n)
  BY SendAt
<1>2. f = [b \in Accounts |-> purse[b] - Part(b, from, n) + Part(b, to, n)]
  BY DEF Ledger!Moved, Part
<1> HIDE DEF e, f
<1>3. e = f
  BY <1>1, <1>2
<1> QED
  BY <1>3 DEF e, f

\* A mint through the module's account credits the recipient alone: the
\* module's account is back where it was.
LEMMA MintIsCredit ==
  ASSUME NEW purse \in [Accounts -> Int], NEW to \in Accounts, NEW n \in Int
  PROVE  mintTo(purse, n, to) = Credit(purse, to, n)
<1> DEFINE minted == Credit(purse, TokenFactoryModule, n)
           e == Send(minted, TokenFactoryModule, to, n)
           f == Credit(purse, to, n)
<1>0. TokenFactoryModule \in Accounts
  BY ConstantsAssumption DEF ModuleAccounts
<1>1. /\ minted \in [Accounts -> Int]
      /\ \A b \in Accounts :
           minted[b] = IF b = TokenFactoryModule THEN purse[b] + n ELSE purse[b]
  BY <1>0, CreditAt
<1> HIDE DEF minted
<1>2. /\ e \in [Accounts -> Int]
      /\ \A b \in Accounts :
           e[b] = minted[b] - Part(b, TokenFactoryModule, n) + Part(b, to, n)
  BY <1>0, <1>1, SendAt, ZenonT(60)
<1>3. f \in [Accounts -> Int] /\ \A b \in Accounts : f[b] = IF b = to THEN purse[b] + n ELSE purse[b]
  BY CreditAt
<1>4. mintTo(purse, n, to) = e
  BY DEF mintTo, minted
<1> HIDE DEF e, f
<1>5. \A b \in Accounts : e[b] = f[b]
  BY <1>1, <1>2, <1>3 DEF Part
<1>6. e = f
  BY <1>2, <1>3, <1>5
<1> QED
  BY <1>4, <1>6 DEF f

\* A burn through the module's account debits the holder alone.
LEMMA BurnIsDebit ==
  ASSUME NEW purse \in [Accounts -> Int], NEW from \in Accounts, NEW n \in Int
  PROVE  burnFrom(purse, n, from) = Debit(purse, from, n)
<1> DEFINE pooled == Send(purse, from, TokenFactoryModule, n)
           e == Debit(pooled, TokenFactoryModule, n)
           f == Debit(purse, from, n)
<1>0. TokenFactoryModule \in Accounts
  BY ConstantsAssumption DEF ModuleAccounts
<1>1. /\ pooled \in [Accounts -> Int]
      /\ \A b \in Accounts :
           pooled[b] = purse[b] - Part(b, from, n) + Part(b, TokenFactoryModule, n)
  BY <1>0, SendAt
<1> HIDE DEF pooled
<1>2. /\ e \in [Accounts -> Int]
      /\ \A b \in Accounts : e[b] = IF b = TokenFactoryModule THEN pooled[b] - n ELSE pooled[b]
  BY <1>0, <1>1, DebitAt
<1>3. f \in [Accounts -> Int] /\ \A b \in Accounts : f[b] = IF b = from THEN purse[b] - n ELSE purse[b]
  BY DebitAt
<1>4. burnFrom(purse, n, from) = e
  BY DEF burnFrom, pooled
<1> HIDE DEF e, f
<1>5. \A b \in Accounts : e[b] = f[b]
  BY <1>1, <1>2, <1>3 DEF Part
<1>6. e = f
  BY <1>2, <1>3, <1>5
<1> QED
  BY <1>4, <1>6 DEF f

-----------------------------------------------------------------------------
(* The bank's operations that pass their checks.                            *)

USE MaxIntAssumption, AddressAssumption, ConstantsAssumption

\* SendCoins that passes its checks keeps every balance in range, changes no
\* third account, and moves n coins between two accounts that differ.
LEMMA SendLemma ==
  ASSUME NEW purse \in [Accounts -> Amount], NEW from \in Accounts, NEW to \in Accounts,
         NEW n \in Amount, CanSend(purse, from, to, n)
  PROVE  /\ Send(purse, from, to, n) \in [Accounts -> Amount]
         /\ \A a \in Accounts \ {from, to} : Send(purse, from, to, n)[a] = purse[a]
         /\ from # to => /\ Send(purse, from, to, n)[to] = purse[to] + n
                         /\ Send(purse, from, to, n)[from] = purse[from] - n
         /\ from = to => Send(purse, from, to, n)[to] = purse[to]
BY DEF CanSend, Send, Credit, Debit, Amount

\* SendCoins takes coins from the sender alone.
LEMMA SendTakesFromSender ==
  ASSUME NEW purse \in [Accounts -> Amount], NEW from \in Accounts, NEW to \in Accounts,
         NEW n \in Amount, CanSend(purse, from, to, n), NEW a \in Accounts, a # from
  PROVE  ~(Send(purse, from, to, n)[a] < purse[a])
BY DEF CanSend, Send, Credit, Debit, Amount

\* MintCoins that passes its checks keeps the module's balance in range.
LEMMA MintLemma ==
  ASSUME NEW purse \in [Accounts -> Amount], NEW total \in Amount,
         NEW module \in Accounts, NEW n \in Amount,
         CanMintCoins(purse, total, module, n)
  PROVE  /\ Credit(purse, module, n) \in [Accounts -> Amount]
         /\ total + n \in Amount
BY DEF CanMintCoins, Credit, Amount

\* BurnCoins that passes its checks takes nothing below zero.
LEMMA BurnLemma ==
  ASSUME NEW purse \in [Accounts -> Amount], NEW total \in Amount,
         NEW module \in Accounts, NEW n \in Amount,
         CanBurnCoins(purse, total, module, n)
  PROVE  /\ Debit(purse, module, n) \in [Accounts -> Amount]
         /\ total - n \in Amount
         /\ \A a \in Accounts \ {module} : Debit(purse, module, n)[a] = purse[a]
BY DEF CanBurnCoins, Debit, Amount

-----------------------------------------------------------------------------
(* Type correctness, one lemma per group of steps.                          *)

\* A handler's last assignment: the transaction is recorded with its result.
LEMMA TxType ==
  ASSUME NEW m \in Messages \cup {Governance, Upgrade}, Done(m) \/ Failed(m)
  PROVE  tx' \in [msg : Messages \cup {Governance, Upgrade}, code : {"ok", "error"}]
BY DEF Done, Failed

\* A denom's purse is replaced by one in range: the other purses stay.
LEMMA PurseType ==
  ASSUME TypeOK, NEW d \in Denoms, NEW purse \in [Accounts -> Amount],
         balances' = [balances EXCEPT ![d] = purse]
  PROVE  balances' \in [Denoms -> [Accounts -> Amount]]
BY DEF TypeOK

\* CreateDenom keeps every variable in its type.
LEMMA CreateDenomType ==
  ASSUME TypeOK, FeePoolBacked, NEW m \in CreateDenomMsgs, CreateDenom(m)
  PROVE  TypeOK' /\ FeePoolBacked'
<1> DEFINE denom == <<m.sender, m.subdenom>>
           payer == AccOf[m.sender]
<1>1. /\ denom \in FactoryDenoms /\ denom \in Denoms
      /\ m.sender \in AddrStrings
      /\ payer \in Users /\ payer \in Accounts /\ payer # DistributionModule
      /\ DistributionModule \in Accounts
  BY DEF CreateDenom, CreateDenomOk, ValidCreateDenom, Signed, IsAddress, validateCreateDenom,
         CreateDenomMsgs, FactoryDenoms, Denoms, ModuleAccounts
<1>2. ASSUME NEW n \in NativeDenoms
      PROVE  /\ Send(balances[n], payer, DistributionModule, creationFee[n])
                  \in [Accounts -> Amount]
             /\ Send(balances[n], payer, DistributionModule, creationFee[n])[DistributionModule]
                  = communityPool[n] + creationFee[n]
  <2>1. balances[n] \in [Accounts -> Amount] /\ creationFee[n] \in Amount
    BY DEF TypeOK, Denoms
  <2>2. CanSend(balances[n], payer, DistributionModule, creationFee[n])
    BY DEF CreateDenom, CreateDenomOk, ValidCreateDenom, CanPayFee
  <2>3. QED
    BY <1>1, <2>1, <2>2, SendLemma DEF FeePoolBacked
<1>3. /\ balances' = [d \in Denoms |->
                        IF d \in NativeDenoms
                        THEN Send(balances[d], payer, DistributionModule, creationFee[d])
                        ELSE balances[d]]
      /\ communityPool' = [n \in NativeDenoms |-> communityPool[n] + creationFee[n]]
  BY DEF CreateDenom, chargeForCreateDenom
<1>4. balances' \in [Denoms -> [Accounts -> Amount]]
  BY <1>2, <1>3 DEF TypeOK, Denoms
<1>5. FeePoolBacked'
  BY <1>2, <1>3 DEF FeePoolBacked, Denoms
<1>6. communityPool' \in [NativeDenoms -> Amount]
  BY <1>1, <1>2, <1>3
<1>7. denomMetadata' \in [Denoms -> Metadata \cup {NoMetadata}]
  BY DEF TypeOK, CreateDenom, WithMetadata, Metadata
<1>8. authority' \in [Denoms -> AddrStrings \cup {Empty, NoRecord}]
  BY <1>1 DEF TypeOK, CreateDenom
<1>9. creators' \subseteq AddrStrings \X FactoryDenoms
  <2>1. creators' = creators \cup {<<m.sender, denom>>}
    BY DEF CreateDenom
  <2>2. <<m.sender, denom>> \in AddrStrings \X FactoryDenoms
    BY <1>1
  <2> QED
    BY <2>1, <2>2 DEF TypeOK
<1>10. tx' \in [msg : Messages \cup {Governance, Upgrade}, code : {"ok", "error"}]
  BY TxType DEF CreateDenom, Messages
<1>11. UNCHANGED <<supply, creationFee>>
  BY DEF CreateDenom
<1> QED
  BY <1>4, <1>5, <1>6, <1>7, <1>8, <1>9, <1>10, <1>11 DEF TypeOK

\* What the five handlers and the bank transfer have in common: the purse of
\* one denom and its supply are replaced by values in range.
LEMMA PurseStepType ==
  ASSUME TypeOK, NEW m \in Messages, Done(m),
         NEW d \in Denoms, NEW purse \in [Accounts -> Amount], NEW total \in Amount,
         balances' = [balances EXCEPT ![d] = purse],
         supply' = [supply EXCEPT ![d] = total],
         UNCHANGED <<denomMetadata, communityPool, creationFee, authority, creators>>
  PROVE  TypeOK'
<1>1. balances' \in [Denoms -> [Accounts -> Amount]]
  BY PurseType
<1>2. supply' \in [Denoms -> Amount]
  BY DEF TypeOK
<1>3. tx' \in [msg : Messages \cup {Governance, Upgrade}, code : {"ok", "error"}]
  BY TxType
<1> QED
  BY <1>1, <1>2, <1>3 DEF TypeOK

\* Mint keeps every variable in its type, and touches no native denom.
LEMMA MintType ==
  ASSUME TypeOK, FeePoolBacked, NEW m \in MintMsgs, Mint(m)
  PROVE  TypeOK' /\ FeePoolBacked'
<1> DEFINE d      == m.denom
           to     == AccOf[OrSender(m.to, m)]
           minted == Credit(balances[d], TokenFactoryModule, m.amount)
           purse  == Send(minted, TokenFactoryModule, to, m.amount)
<1>1. /\ d \in Denoms /\ d \in FactoryDenoms /\ d \notin NativeDenoms
      /\ m.amount \in Amount
      /\ to \in Accounts /\ TokenFactoryModule \in Accounts
      /\ m \in Messages
  BY DEF Mint, MintOk, MintMsgs, IsFactoryDenom, IsAddress, ModuleAccounts, Messages
<1>2. balances[d] \in [Accounts -> Amount] /\ supply[d] \in Amount
  BY <1>1 DEF TypeOK
<1>3. minted \in [Accounts -> Amount] /\ supply[d] + m.amount \in Amount
  <2>1. CanMintCoins(balances[d], supply[d], TokenFactoryModule, m.amount)
    BY DEF Mint, MintOk
  <2> QED
    BY <1>1, <1>2, <2>1, MintLemma
<1>4. purse \in [Accounts -> Amount]
  <2>1. CanSend(minted, TokenFactoryModule, to, m.amount)
    BY DEF Mint, MintOk
  <2> HIDE DEF minted
  <2> QED
    BY <1>1, <1>3, <2>1, SendLemma
<1>5. /\ balances' = [balances EXCEPT ![d] = purse]
      /\ supply' = [supply EXCEPT ![d] = supply[d] + m.amount]
      /\ UNCHANGED <<denomMetadata, communityPool, creationFee, authority, creators>>
      /\ Done(m)
  BY DEF Mint, mintTo
<1> HIDE DEF purse, minted
<1>6. TypeOK'
  BY <1>1, <1>3, <1>4, <1>5, PurseStepType
<1>7. FeePoolBacked'
  BY <1>1, <1>5 DEF FeePoolBacked, TypeOK, Denoms
<1> QED
  BY <1>6, <1>7

\* Burn keeps every variable in its type, and touches no native denom.
LEMMA BurnType ==
  ASSUME TypeOK, FeePoolBacked, NEW m \in BurnMsgs, Burn(m)
  PROVE  TypeOK' /\ FeePoolBacked'
<1> DEFINE d      == m.denom
           from   == AccOf[OrSender(m.from, m)]
           pooled == Send(balances[d], from, TokenFactoryModule, m.amount)
           purse  == Debit(pooled, TokenFactoryModule, m.amount)
<1>1. /\ d \in Denoms /\ d \in FactoryDenoms /\ d \notin NativeDenoms
      /\ m.amount \in Amount
      /\ from \in Accounts /\ TokenFactoryModule \in Accounts
      /\ m \in Messages
  BY DEF Burn, BurnOk, BurnMsgs, IsFactoryDenom, IsAddress, ModuleAccounts, Messages
<1>2. balances[d] \in [Accounts -> Amount] /\ supply[d] \in Amount
  BY <1>1 DEF TypeOK
<1>3. pooled \in [Accounts -> Amount]
  <2>1. CanSend(balances[d], from, TokenFactoryModule, m.amount)
    BY DEF Burn, BurnOk
  <2> QED
    BY <1>1, <1>2, <2>1, SendLemma
<1>4. purse \in [Accounts -> Amount] /\ supply[d] - m.amount \in Amount
  <2>1. CanBurnCoins(pooled, supply[d], TokenFactoryModule, m.amount)
    BY DEF Burn, BurnOk
  <2> HIDE DEF pooled
  <2> QED
    BY <1>1, <1>2, <1>3, <2>1, BurnLemma
<1>5. /\ balances' = [balances EXCEPT ![d] = purse]
      /\ supply' = [supply EXCEPT ![d] = supply[d] - m.amount]
      /\ UNCHANGED <<denomMetadata, communityPool, creationFee, authority, creators>>
      /\ Done(m)
  BY DEF Burn, burnFrom
<1> HIDE DEF purse, pooled
<1>6. TypeOK'
  BY <1>1, <1>4, <1>5, PurseStepType
<1>7. FeePoolBacked'
  BY <1>1, <1>5 DEF FeePoolBacked, TypeOK, Denoms
<1> QED
  BY <1>6, <1>7

\* ForceTransfer keeps every variable in its type, and touches no native denom.
LEMMA ForceTransferType ==
  ASSUME TypeOK, FeePoolBacked, NEW m \in ForceTransferMsgs, ForceTransfer(m)
  PROVE  TypeOK' /\ FeePoolBacked'
<1> DEFINE d     == m.denom
           purse == Send(balances[d], AccOf[m.from], AccOf[m.to], m.amount)
<1>1. /\ d \in Denoms /\ d \in FactoryDenoms /\ d \notin NativeDenoms
      /\ m.amount \in Amount
      /\ AccOf[m.from] \in Accounts /\ AccOf[m.to] \in Accounts
      /\ m \in Messages
  BY DEF ForceTransfer, ForceTransferOk, ValidForceTransfer, ForceTransferMsgs, IsFactoryDenom, IsAddress,
         Messages
<1>2. balances[d] \in [Accounts -> Amount] /\ supply[d] \in Amount
  BY <1>1 DEF TypeOK
<1>3. purse \in [Accounts -> Amount]
  BY <1>1, <1>2, SendLemma DEF ForceTransfer, ForceTransferOk, ValidForceTransfer
<1>4. /\ balances' = [balances EXCEPT ![d] = purse]
      /\ supply' = [supply EXCEPT ![d] = supply[d]]
      /\ UNCHANGED <<denomMetadata, communityPool, creationFee, authority, creators>>
      /\ Done(m)
  BY DEF ForceTransfer, forceTransfer, TypeOK
<1> HIDE DEF purse
<1>5. TypeOK'
  BY <1>1, <1>2, <1>3, <1>4, PurseStepType
<1>6. FeePoolBacked'
  BY <1>1, <1>4 DEF FeePoolBacked, TypeOK, Denoms
<1> QED
  BY <1>5, <1>6

\* A bank transfer keeps every variable in its type.  The distribution
\* module's balance stays: users sign, and its account is a blocked recipient.
LEMMA BankSendType ==
  ASSUME TypeOK, FeePoolBacked, NEW m \in BankSendMsgs, BankSend(m)
  PROVE  TypeOK' /\ FeePoolBacked'
<1> DEFINE d     == m.denom
           purse == Send(balances[d], AccOf[m.sender], AccOf[m.to], m.amount)
<1>1. /\ d \in Denoms
      /\ m.amount \in Amount
      /\ AccOf[m.sender] \in Users /\ AccOf[m.sender] \in Accounts
      /\ AccOf[m.to] \in Accounts \ ModuleAccounts
      /\ DistributionModule \in Accounts \ {AccOf[m.sender], AccOf[m.to]}
      /\ m \in Messages
  BY DEF BankSend, BankSendOk, BankSendMsgs, Signed, Blocked, IsAddress,
         ModuleAccounts, Messages
<1>2. balances[d] \in [Accounts -> Amount] /\ supply[d] \in Amount
  BY <1>1 DEF TypeOK
<1>3. purse \in [Accounts -> Amount] /\ purse[DistributionModule] = balances[d][DistributionModule]
  BY <1>1, <1>2, SendLemma DEF BankSend, BankSendOk
<1>4. /\ balances' = [balances EXCEPT ![d] = purse]
      /\ supply' = [supply EXCEPT ![d] = supply[d]]
      /\ UNCHANGED <<denomMetadata, communityPool, creationFee, authority, creators>>
      /\ Done(m)
  BY DEF BankSend, TypeOK
<1> HIDE DEF purse
<1>5. TypeOK'
  BY <1>1, <1>2, <1>3, <1>4, PurseStepType
<1>6. FeePoolBacked'
  BY <1>1, <1>3, <1>4 DEF FeePoolBacked, TypeOK, Denoms
<1> QED
  BY <1>5, <1>6

\* The admins a genesis may name: an address string, or the empty one.
LEMMA ValidAdmins == {str \in Strings : ValidAdmin(str)} = AddrStrings \cup {Empty}
BY DEF ValidAdmin, IsAddress, Strings

\* The index an import builds lists factory denoms under well-formed strings.
LEMMA CreatorsType ==
  ASSUME NEW gs, DOMAIN gs \subseteq FactoryDenoms
  PROVE  GenesisCreators(gs) \subseteq AddrStrings \X FactoryDenoms
<1> SUFFICES ASSUME NEW e \in GenesisCreators(gs) PROVE e \in AddrStrings \X FactoryDenoms
  OBVIOUS
<1>1. PICK d \in DOMAIN gs : e = <<Canonical(d[1]), d>>
  BY DEF GenesisCreators
<1>2. d \in FactoryDenoms /\ d[1] \in AddrStrings
  BY DEF FactoryDenoms
<1> QED
  BY <1>1, <1>2 DEF Canonical

\* The initial state: the bank's genesis is valid, and the module's part of
\* it lists denoms with admins that GenesisState.Validate accepts.
LEMMA InitType == Init => TypeOK /\ FeePoolBacked
<1> SUFFICES ASSUME Init PROVE TypeOK /\ FeePoolBacked
  OBVIOUS
<1>1. PICK listed \in SUBSET GenesisDenoms, metadata \in GenesisMetadata :
        \E gs \in [listed -> AddrStrings \cup {Empty}] : InitGenesis(gs, metadata)
  BY ValidAdmins DEF Init
<1>1a. PICK gs \in [listed -> AddrStrings \cup {Empty}] : InitGenesis(gs, metadata)
  BY <1>1
<1>2. balances \in [Denoms -> [Accounts -> Amount]] /\ supply \in [Denoms -> Amount]
  BY GenesisAssumption DEF Init
<1>3. denomMetadata \in [Denoms -> Metadata \cup {NoMetadata}]
  <2>1. metadata \in [Denoms -> CustomMetadata \cup {NoMetadata}]
    BY GenesisAssumption
  <2>2. denomMetadata = WithMetadata(metadata, DOMAIN gs)
    BY <1>1a DEF InitGenesis
  <2> QED
    BY <2>1, <2>2 DEF WithMetadata, Metadata
<1>4. authority \in [Denoms -> AddrStrings \cup {Empty, NoRecord}]
  BY <1>1a DEF InitGenesis, GenesisAuthority
<1>5. creators \subseteq AddrStrings \X FactoryDenoms
  <2>1. DOMAIN gs \subseteq FactoryDenoms
    BY <1>1a, GenesisAssumption
  <2>2. creators = GenesisCreators(gs)
    BY <1>1a DEF InitGenesis
  <2> QED
    BY <2>1, <2>2, CreatorsType
<1>6. /\ communityPool \in [NativeDenoms -> Amount]
      /\ creationFee \in [NativeDenoms -> Amount]
  <2>1. DistributionModule \in Accounts
    BY DEF ModuleAccounts
  <2>2. communityPool = [n \in NativeDenoms |-> balances[n][DistributionModule]]
    BY DEF Init
  <2>3. \A n \in NativeDenoms : balances[n][DistributionModule] \in Amount
    BY <1>2, <2>1 DEF Denoms
  <2>4. creationFee \in [NativeDenoms -> Amount]
    BY DEF Init
  <2> QED
    BY <2>2, <2>3, <2>4
<1>7. tx \in [msg : Messages \cup {Governance, Upgrade}, code : {"ok", "error"}]
  BY DEF Init
<1> QED
  BY <1>2, <1>3, <1>4, <1>5, <1>6, <1>7 DEF TypeOK, FeePoolBacked, Init

\* Export lists the denoms of the index, each with an admin that may be empty.
LEMMA ExportType ==
  ASSUME TypeOK
  PROVE  /\ DOMAIN ExportGenesis \subseteq FactoryDenoms
         /\ \A d \in DOMAIN ExportGenesis : ExportGenesis[d] \in AddrStrings \cup {Empty}
<1>1. DOMAIN ExportGenesis = {entry[2] : entry \in creators}
  BY DEF ExportGenesis
<1>2. \A entry \in creators : entry[2] \in FactoryDenoms
  BY DEF TypeOK
<1> QED
  BY <1>1, <1>2 DEF TypeOK, ExportGenesis, Admin, Denoms

\* A restart keeps every variable in its type.
LEMMA RestartType ==
  ASSUME TypeOK, FeePoolBacked, Restart
  PROVE  TypeOK' /\ FeePoolBacked'
<1> DEFINE gs == ExportGenesis
<1>1. /\ DOMAIN gs \subseteq FactoryDenoms
      /\ \A d \in DOMAIN gs : gs[d] \in AddrStrings \cup {Empty}
  BY ExportType
<1>2. authority' \in [Denoms -> AddrStrings \cup {Empty, NoRecord}]
  <2> HIDE DEF gs
  <2>1. authority' = GenesisAuthority(gs)
    BY DEF Restart, gs
  <2> QED
    BY <1>1, <2>1 DEF GenesisAuthority
<1>3. creators' \subseteq AddrStrings \X FactoryDenoms
  BY <1>1, CreatorsType DEF Restart
<1>4. denomMetadata' \in [Denoms -> Metadata \cup {NoMetadata}]
  BY DEF TypeOK, Restart, WithMetadata, Metadata
<1>5. tx' \in [msg : Messages \cup {Governance, Upgrade}, code : {"ok", "error"}]
  BY TxType DEF Restart
<1> QED
  BY <1>2, <1>3, <1>4, <1>5 DEF Restart, TypeOK, FeePoolBacked

\* The steps that leave the bank alone.
LEMMA OtherTypes ==
  ASSUME TypeOK, FeePoolBacked,
         \/ \E m \in ChangeAdminMsgs : ChangeAdmin(m)
         \/ \E m \in SetDenomMetadataMsgs : SetDenomMetadata(m)
         \/ \E fee \in Fees : SetParams(fee)
         \/ Reject
         \/ UNCHANGED vars
  PROVE  TypeOK' /\ FeePoolBacked'
<1>1. ASSUME NEW m \in ChangeAdminMsgs, ChangeAdmin(m) PROVE TypeOK' /\ FeePoolBacked'
  <2>1. m \in Messages /\ m.newAdmin \in AddrStrings
    BY <1>1 DEF ChangeAdmin, ChangeAdminOk, ValidChangeAdmin, IsAddress, Messages
  <2>2. tx' \in [msg : Messages \cup {Governance, Upgrade}, code : {"ok", "error"}]
    BY <1>1, <2>1, TxType DEF ChangeAdmin
  <2> QED
    BY <1>1, <2>1, <2>2 DEF ChangeAdmin, TypeOK, FeePoolBacked
<1>2. ASSUME NEW m \in SetDenomMetadataMsgs, SetDenomMetadata(m)
      PROVE  TypeOK' /\ FeePoolBacked'
  <2>1. m \in Messages /\ m.metadata \in Metadata
    BY DEF SetDenomMetadataMsgs, Messages
  <2>2. tx' \in [msg : Messages \cup {Governance, Upgrade}, code : {"ok", "error"}]
    BY <1>2, <2>1, TxType DEF SetDenomMetadata
  <2> QED
    BY <1>2, <2>1, <2>2 DEF SetDenomMetadata, TypeOK, FeePoolBacked
<1>3. ASSUME NEW fee \in Fees, SetParams(fee) PROVE TypeOK' /\ FeePoolBacked'
  <2>1. tx' \in [msg : Messages \cup {Governance, Upgrade}, code : {"ok", "error"}]
    BY <1>3, TxType DEF SetParams
  <2> QED
    BY <1>3, <2>1 DEF SetParams, TypeOK, FeePoolBacked
<1>4. CASE Reject
  <2>1. PICK m \in Messages : Failed(m)
    BY <1>4 DEF Reject, Messages
  <2>2. tx' \in [msg : Messages \cup {Governance, Upgrade}, code : {"ok", "error"}]
    BY <2>1, TxType
  <2> QED
    BY <1>4, <2>2 DEF Reject, state, TypeOK, FeePoolBacked
<1>5. CASE UNCHANGED vars
  BY <1>5 DEF vars, state, TypeOK, FeePoolBacked
<1> QED
  BY <1>1, <1>2, <1>3, <1>4, <1>5

\* Every step keeps the types and the community pool backed.
LEMMA NextType == TypeOK /\ FeePoolBacked /\ [Next]_vars => TypeOK' /\ FeePoolBacked'
BY CreateDenomType, MintType, BurnType, ForceTransferType, BankSendType, RestartType,
   OtherTypes DEF Next

-----------------------------------------------------------------------------
(* The registry.                                                            *)

\* RegistryConsistent of any values of the three stores.
Consistent(records, index, metadata) ==
  /\ \A d \in Denoms : records[d] # NoRecord <=> \E c \in AddrStrings : <<c, d>> \in index
  /\ \A e \in index : AccOf[e[1]] = AccOf[e[2][1]]
  /\ \A e, f \in index : e[2] = f[2] => e = f
  /\ \A d \in Denoms : records[d] # NoRecord => metadata[d] # NoMetadata

\* Import builds a consistent registry from any list of denoms.
LEMMA ImportedRegistry ==
  ASSUME NEW gs, DOMAIN gs \subseteq FactoryDenoms,
         \A d \in DOMAIN gs : gs[d] \in AddrStrings \cup {Empty},
         NEW metadata \in [Denoms -> Metadata \cup {NoMetadata}]
  PROVE  Consistent(GenesisAuthority(gs), GenesisCreators(gs), WithMetadata(metadata, DOMAIN gs))
<1>1. ASSUME NEW e \in GenesisCreators(gs)
      PROVE  /\ e = <<Canonical(e[2][1]), e[2]>>
             /\ e[2] \in DOMAIN gs
             /\ e[2][1] \in AddrStrings
  BY DEF GenesisCreators, FactoryDenoms
<1>2. ASSUME NEW d \in DOMAIN gs
      PROVE  /\ <<Canonical(d[1]), d>> \in GenesisCreators(gs)
             /\ Canonical(d[1]) \in AddrStrings
  BY DEF GenesisCreators, FactoryDenoms, Canonical
<1>3. \A d \in Denoms : GenesisAuthority(gs)[d] # NoRecord <=> d \in DOMAIN gs
  BY DEF GenesisAuthority, Strings
<1>4. \A d \in Denoms : GenesisAuthority(gs)[d] # NoRecord
        <=> \E c \in AddrStrings : <<c, d>> \in GenesisCreators(gs)
  <2>1. ASSUME NEW d \in Denoms, NEW c \in AddrStrings, <<c, d>> \in GenesisCreators(gs)
        PROVE  d \in DOMAIN gs
    BY <2>1, <1>1
  <2> QED
    BY <1>2, <1>3, <2>1
<1>5. \A e \in GenesisCreators(gs) : AccOf[e[1]] = AccOf[e[2][1]]
  BY <1>1 DEF Canonical
<1>6. \A e, f \in GenesisCreators(gs) : e[2] = f[2] => e = f
  BY <1>1
<1>7. \A d \in Denoms : GenesisAuthority(gs)[d] # NoRecord
        => WithMetadata(metadata, DOMAIN gs)[d] # NoMetadata
  <2>1. MinimalMetadata # NoMetadata
    BY DEF Metadata
  <2> QED
    BY <1>3, <2>1 DEF WithMetadata
<1> QED
  BY <1>4, <1>5, <1>6, <1>7 DEF Consistent

\* The first genesis builds a consistent registry, whatever it lists.
LEMMA InitRegistry == Init => RegistryConsistent
<1> SUFFICES ASSUME Init PROVE RegistryConsistent
  OBVIOUS
<1>1. PICK listed \in SUBSET GenesisDenoms, metadata \in GenesisMetadata :
        \E gs \in [listed -> AddrStrings \cup {Empty}] : InitGenesis(gs, metadata)
  BY ValidAdmins DEF Init
<1>2. \E gs : /\ DOMAIN gs \subseteq FactoryDenoms
              /\ \A d \in DOMAIN gs : gs[d] \in AddrStrings \cup {Empty}
              /\ InitGenesis(gs, metadata)
  <2>1. PICK gs \in [listed -> AddrStrings \cup {Empty}] : InitGenesis(gs, metadata)
    BY <1>1
  <2>2. /\ DOMAIN gs \subseteq FactoryDenoms
        /\ \A d \in DOMAIN gs : gs[d] \in AddrStrings \cup {Empty}
    BY <2>1, GenesisAssumption
  <2> QED
    BY <2>1, <2>2
<1>3. PICK gs : /\ DOMAIN gs \subseteq FactoryDenoms
                /\ \A d \in DOMAIN gs : gs[d] \in AddrStrings \cup {Empty}
                /\ InitGenesis(gs, metadata)
  BY <1>2
<1>4. metadata \in [Denoms -> Metadata \cup {NoMetadata}]
  <2>1. metadata \in [Denoms -> CustomMetadata \cup {NoMetadata}]
    BY GenesisAssumption
  <2> QED
    BY <2>1 DEF Metadata
<1>5. /\ authority = GenesisAuthority(gs)
      /\ creators = GenesisCreators(gs)
      /\ denomMetadata = WithMetadata(metadata, DOMAIN gs)
  BY <1>3 DEF InitGenesis
<1>6. Consistent(GenesisAuthority(gs), GenesisCreators(gs), WithMetadata(metadata, DOMAIN gs))
  BY <1>3, <1>4, ImportedRegistry
<1> QED
  BY <1>5, <1>6 DEF Consistent, RegistryConsistent, RecordsAreIndexed,
     IndexedOnceUnderCreator, RecordsHaveMetadata, HasMetadata

\* A restart rebuilds a consistent registry.
LEMMA RestartRegistry == TypeOK /\ Restart => RegistryConsistent'
<1> SUFFICES ASSUME TypeOK, Restart PROVE RegistryConsistent'
  OBVIOUS
<1> DEFINE gs == ExportGenesis
<1>1. /\ DOMAIN gs \subseteq FactoryDenoms
      /\ \A d \in DOMAIN gs : gs[d] \in AddrStrings \cup {Empty}
  BY ExportType
<1>2. denomMetadata \in [Denoms -> Metadata \cup {NoMetadata}]
  BY DEF TypeOK
<1>3. /\ authority' = GenesisAuthority(gs)
      /\ creators' = GenesisCreators(gs)
      /\ denomMetadata' = WithMetadata(denomMetadata, DOMAIN gs)
  BY DEF Restart
<1> HIDE DEF gs
<1>4. Consistent(GenesisAuthority(gs), GenesisCreators(gs), WithMetadata(denomMetadata, DOMAIN gs))
  BY <1>1, <1>2, ImportedRegistry
<1> QED
  BY <1>3, <1>4 DEF Consistent, RegistryConsistent, RecordsAreIndexed,
     IndexedOnceUnderCreator, RecordsHaveMetadata, HasMetadata

\* What validateCreateDenom learns from the bank's metadata holds of both of
\* the module's stores: a denom it lets through has no record and no entry.
LEMMA FreshDenom ==
  ASSUME TypeOK, RegistryConsistent, NEW m \in CreateDenomMsgs, CreateDenomOk(m)
  PROVE  LET denom == <<m.sender, m.subdenom>> IN
         /\ denom \in FactoryDenoms /\ denom \in Denoms
         /\ m.sender \in AddrStrings
         /\ authority[denom] = NoRecord
         /\ \A e \in creators : e[2] # denom
<1> DEFINE denom == <<m.sender, m.subdenom>>
<1>1. denom \in FactoryDenoms /\ denom \in Denoms /\ m.sender \in AddrStrings
  BY DEF CreateDenomOk, ValidCreateDenom, Signed, IsAddress, validateCreateDenom,
         CreateDenomMsgs, FactoryDenoms, Denoms
<1>2. authority[denom] = NoRecord
  <2>1. ~HasMetadata(denom)
    BY DEF CreateDenomOk, ValidCreateDenom, validateCreateDenom
  <2> HIDE DEF denom
  <2> QED
    BY <1>1, <2>1 DEF RegistryConsistent, RecordsHaveMetadata
<1>3. ASSUME NEW e \in creators, e[2] = denom PROVE FALSE
  <2>1. e = <<e[1], e[2]>> /\ e[1] \in AddrStrings
    BY DEF TypeOK
  <2> HIDE DEF denom
  <2>2. \E c \in AddrStrings : <<c, denom>> \in creators
    BY <1>3, <2>1, ZenonT(60)
  <2> QED
    BY <1>1, <1>2, <2>2 DEF RegistryConsistent, RecordsAreIndexed
<1> QED
  BY <1>1, <1>2, <1>3

\* CreateDenom adds one record, one entry and the metadata of one denom.
LEMMA CreateDenomRegistry ==
  ASSUME TypeOK, RegistryConsistent, NEW m \in CreateDenomMsgs, CreateDenom(m)
  PROVE  RegistryConsistent'
<1> DEFINE denom == <<m.sender, m.subdenom>>
<1>1. /\ denom \in FactoryDenoms /\ denom \in Denoms
      /\ m.sender \in AddrStrings
      /\ authority[denom] = NoRecord
      /\ \A e \in creators : e[2] # denom
  BY FreshDenom DEF CreateDenom
<1>2. /\ authority' = [authority EXCEPT ![denom] = m.sender]
      /\ creators' = creators \cup {<<m.sender, denom>>}
      /\ denomMetadata' = WithMetadata(denomMetadata, {denom})
  BY DEF CreateDenom
<1>3. denom[1] = m.sender
  OBVIOUS
<1>4. m.sender # NoRecord
  BY <1>1 DEF Strings
<1> HIDE DEF denom
<1>5. RecordsAreIndexed'
  <2> SUFFICES ASSUME NEW d \in Denoms
               PROVE  authority'[d] # NoRecord <=> \E c \in AddrStrings : <<c, d>> \in creators'
    BY DEF RecordsAreIndexed
  <2>1. CASE d = denom
    BY <1>1, <1>2, <1>4, <2>1 DEF TypeOK
  <2>2. CASE d # denom
    <3>1. authority'[d] = authority[d]
      BY <1>2, <2>2 DEF TypeOK
    <3>2. \A c : <<c, d>> \in creators' <=> <<c, d>> \in creators
      BY <1>2, <2>2
    <3> QED
      BY <3>1, <3>2 DEF RegistryConsistent, RecordsAreIndexed
  <2> QED
    BY <2>1, <2>2
<1>6. IndexedOnceUnderCreator'
  BY <1>1, <1>2, <1>3 DEF RegistryConsistent, IndexedOnceUnderCreator
<1>7. RecordsHaveMetadata'
  <2>1. MinimalMetadata # NoMetadata
    BY DEF Metadata
  <2>2. \A d \in Denoms : authority'[d] # NoRecord => d = denom \/ authority[d] # NoRecord
    BY <1>2 DEF TypeOK
  <2>3. \A d \in Denoms : d = denom \/ HasMetadata(d) => denomMetadata'[d] # NoMetadata
    BY <1>2, <2>1 DEF HasMetadata, WithMetadata
  <2> QED
    BY <2>2, <2>3 DEF RegistryConsistent, RecordsHaveMetadata, HasMetadata
<1> QED
  BY <1>5, <1>6, <1>7 DEF RegistryConsistent

\* A message that passes IsAdmin is about a denom with a record.
LEMMA AdminHasRecord ==
  ASSUME NEW m, Signed(m), IsAdmin(m)
  PROVE  authority[m.denom] # NoRecord /\ m.sender = authority[m.denom]
BY DEF Signed, IsAdmin, Admin, IsAddress

\* ChangeAdmin replaces one record by another, SetDenomMetadata metadata by
\* metadata.
LEMMA AdminRegistry ==
  ASSUME TypeOK, RegistryConsistent,
         \/ \E m \in ChangeAdminMsgs : ChangeAdmin(m)
         \/ \E m \in SetDenomMetadataMsgs : SetDenomMetadata(m)
  PROVE  RegistryConsistent'
<1>1. ASSUME NEW m \in ChangeAdminMsgs, ChangeAdmin(m) PROVE RegistryConsistent'
  <2>1. authority[m.denom] # NoRecord
    BY <1>1, AdminHasRecord DEF ChangeAdmin, ChangeAdminOk, ValidChangeAdmin
  <2>2. m.newAdmin # NoRecord
    BY <1>1 DEF ChangeAdmin, ChangeAdminOk, ValidChangeAdmin, IsAddress, Strings
  <2>3. \A d \in Denoms : authority'[d] # NoRecord <=> authority[d] # NoRecord
    BY <1>1, <2>1, <2>2 DEF ChangeAdmin, TypeOK
  <2>4. UNCHANGED <<creators, denomMetadata>>
    BY <1>1 DEF ChangeAdmin
  <2> QED
    BY <2>3, <2>4 DEF RegistryConsistent, RecordsAreIndexed, IndexedOnceUnderCreator,
                      RecordsHaveMetadata, HasMetadata
<1>2. ASSUME NEW m \in SetDenomMetadataMsgs, SetDenomMetadata(m) PROVE RegistryConsistent'
  <2>1. \A d \in Denoms : HasMetadata(d) => denomMetadata'[d] # NoMetadata
    BY <1>2 DEF SetDenomMetadata, SetDenomMetadataOk, ValidSetDenomMetadata, HasMetadata, TypeOK, Metadata
  <2>2. UNCHANGED <<creators, authority>>
    BY <1>2 DEF SetDenomMetadata
  <2> QED
    BY <2>1, <2>2 DEF RegistryConsistent, RecordsAreIndexed, IndexedOnceUnderCreator,
                      RecordsHaveMetadata, HasMetadata
<1> QED
  BY <1>1, <1>2

\* Every step keeps the registry consistent; most do not touch it.
LEMMA NextRegistry == TypeOK /\ RegistryConsistent /\ [Next]_vars => RegistryConsistent'
<1> SUFFICES ASSUME TypeOK, RegistryConsistent, [Next]_vars PROVE RegistryConsistent'
  OBVIOUS
<1>1. CASE UNCHANGED <<authority, creators, denomMetadata>>
  BY <1>1 DEF RegistryConsistent, RecordsAreIndexed, IndexedOnceUnderCreator,
              RecordsHaveMetadata, HasMetadata
<1>2. \/ \E m \in CreateDenomMsgs : CreateDenom(m)
      \/ \E m \in ChangeAdminMsgs : ChangeAdmin(m)
      \/ \E m \in SetDenomMetadataMsgs : SetDenomMetadata(m)
      \/ Restart
      \/ UNCHANGED <<authority, creators, denomMetadata>>
  BY DEF Next, Mint, Burn, ForceTransfer, BankSend, SetParams, Reject, vars, state
<1> QED
  BY <1>1, <1>2, CreateDenomRegistry, AdminRegistry, RestartRegistry

-----------------------------------------------------------------------------
(* What a step may do.                                                      *)

\* The recorded transaction of a step with message m.
LEMMA TxOf ==
  ASSUME NEW m, Done(m) \/ Failed(m)
  PROVE  /\ tx'.msg = m
         /\ Done(m) => tx'.code = "ok"
         /\ Failed(m) => tx'.code = "error"
BY DEF Done, Failed

\* A message of a user is no governance change and no restart.
LEMMA MessageIsUserTx ==
  ASSUME NEW m \in Messages
  PROVE  m \notin {Governance, Upgrade}
<1>1. m.type \notin {"governance", "upgrade"}
  BY DEF Messages, CreateDenomMsgs, MintMsgs, BurnMsgs, ForceTransferMsgs, ChangeAdminMsgs,
         SetDenomMetadataMsgs, BankSendMsgs
<1> QED
  BY <1>1 DEF Governance, Upgrade

\* A restart keeps every record: export reads it, import writes it back.
LEMMA RestartKeepsRecords ==
  ASSUME TypeOK, RegistryConsistent, Restart
  PROVE  authority' = authority
<1>1. DOMAIN ExportGenesis = {entry[2] : entry \in creators}
  BY DEF ExportGenesis
<1>2. ASSUME NEW d \in Denoms
      PROVE  d \in DOMAIN ExportGenesis <=> authority[d] # NoRecord
  <2>1. d \in DOMAIN ExportGenesis => \E c \in AddrStrings : <<c, d>> \in creators
    <3> SUFFICES ASSUME NEW e \in creators, e[2] = d
                 PROVE  \E c \in AddrStrings : <<c, d>> \in creators
      BY <1>1
    <3>1. e = <<e[1], d>> /\ e[1] \in AddrStrings
      BY DEF TypeOK
    <3> QED
      BY <3>1, ZenonT(60)
  <2>2. (\E c \in AddrStrings : <<c, d>> \in creators) => d \in DOMAIN ExportGenesis
    <3> SUFFICES ASSUME NEW c \in AddrStrings, <<c, d>> \in creators
                 PROVE  d \in DOMAIN ExportGenesis
      OBVIOUS
    <3>1. <<c, d>>[2] = d
      OBVIOUS
    <3> QED
      BY <1>1, <3>1
  <2> QED
    BY <2>1, <2>2 DEF RegistryConsistent, RecordsAreIndexed
<1>3. \A d \in DOMAIN ExportGenesis : ExportGenesis[d] = Admin(d)
  BY DEF ExportGenesis
<1>4. \A d \in Denoms : authority'[d] = authority[d]
  BY <1>2, <1>3 DEF Restart, GenesisAuthority, Admin
<1>5. authority' = [d \in Denoms |-> authority'[d]]
  BY DEF Restart, GenesisAuthority
<1>6. authority = [d \in Denoms |-> authority[d]]
  BY DEF TypeOK
<1> QED
  BY <1>4, <1>5, <1>6

\* A restart keeps the bank's metadata: what it would fill in is there.
LEMMA RestartKeepsMetadata ==
  ASSUME TypeOK, RegistryConsistent, Restart
  PROVE  denomMetadata' = denomMetadata
<1>1. \A d \in DOMAIN ExportGenesis : d \in Denoms /\ authority[d] # NoRecord
  <2> SUFFICES ASSUME NEW e \in creators PROVE e[2] \in Denoms /\ authority[e[2]] # NoRecord
    BY DEF ExportGenesis
  <2>1. e = <<e[1], e[2]>> /\ e[1] \in AddrStrings /\ e[2] \in Denoms
    BY DEF TypeOK, Denoms
  <2>2. \E c \in AddrStrings : <<c, e[2]>> \in creators
    BY <2>1, ZenonT(60)
  <2> QED
    BY <2>1, <2>2 DEF RegistryConsistent, RecordsAreIndexed
<1>2. \A d \in DOMAIN ExportGenesis : denomMetadata[d] # NoMetadata
  BY <1>1 DEF RegistryConsistent, RecordsHaveMetadata, HasMetadata
<1>3. denomMetadata' = [d \in Denoms |-> denomMetadata[d]]
  BY <1>2 DEF Restart, WithMetadata
<1> QED
  BY <1>3 DEF TypeOK

\* A denom is created at most once.
LEMMA NextRegistersOnce == IInv /\ [Next]_vars => [RegistersOnce]_vars
<1> SUFFICES ASSUME IInv, Next PROVE RegistersOnce
  OBVIOUS
<1> USE DEF IInv
<1>1. ASSUME NEW m \in CreateDenomMsgs, CreateDenom(m) PROVE RegistersOnce
  <2> DEFINE denom == <<m.sender, m.subdenom>>
  <2>1. /\ denom \in Denoms /\ m.sender \in AddrStrings
        /\ authority[denom] = NoRecord
        /\ \A e \in creators : e[2] # denom
    BY <1>1, FreshDenom DEF CreateDenom
  <2>2. authority' = [authority EXCEPT ![denom] = m.sender] /\ tx'.msg = m
    BY <1>1, TxOf DEF CreateDenom
  <2>3. m.sender # NoRecord
    BY <2>1 DEF Strings
  <2>4. \A d \in Denoms : authority[d] # NoRecord => authority'[d] # NoRecord
    BY <2>1, <2>2, <2>3 DEF TypeOK
  <2> QED
    BY <2>1, <2>2, <2>4 DEF RegistersOnce
<1>2. ASSUME NEW m \in ChangeAdminMsgs, ChangeAdmin(m) PROVE RegistersOnce
  <2>1. tx'.msg.type = "change_admin"
    BY <1>2, TxOf DEF ChangeAdmin, ChangeAdminMsgs
  <2>2. m.newAdmin # NoRecord
    BY <1>2 DEF ChangeAdmin, ChangeAdminOk, ValidChangeAdmin, IsAddress, Strings
  <2> QED
    BY <1>2, <2>1, <2>2 DEF ChangeAdmin, TypeOK, RegistersOnce, Succeeded
<1>3. CASE Restart
  BY <1>3, TxOf, RestartKeepsRecords DEF Restart, Upgrade, RegistersOnce, Succeeded
<1>4. CASE Reject
  BY <1>4, TxOf DEF Reject, state, RegistersOnce, Succeeded
<1>5. ASSUME NEW m \in Messages, m.type # "create_denom", Done(m), UNCHANGED authority
      PROVE  RegistersOnce
  BY <1>5, TxOf DEF RegistersOnce, Succeeded
<1>6. ASSUME NEW m \in MintMsgs, Mint(m) PROVE RegistersOnce
  BY <1>5, <1>6 DEF Mint, MintMsgs, Messages
<1>7. ASSUME NEW m \in BurnMsgs, Burn(m) PROVE RegistersOnce
  BY <1>5, <1>7 DEF Burn, BurnMsgs, Messages
<1>8. ASSUME NEW m \in ForceTransferMsgs, ForceTransfer(m) PROVE RegistersOnce
  BY <1>5, <1>8 DEF ForceTransfer, ForceTransferMsgs, Messages
<1>9. ASSUME NEW m \in SetDenomMetadataMsgs, SetDenomMetadata(m) PROVE RegistersOnce
  BY <1>5, <1>9 DEF SetDenomMetadata, SetDenomMetadataMsgs, Messages
<1>10. ASSUME NEW m \in BankSendMsgs, BankSend(m) PROVE RegistersOnce
  BY <1>5, <1>10 DEF BankSend, BankSendMsgs, Messages
<1>11. ASSUME NEW fee \in Fees, SetParams(fee) PROVE RegistersOnce
  BY <1>11, TxOf DEF SetParams, Governance, RegistersOnce, Succeeded
<1> QED
  BY <1>1, <1>2, <1>3, <1>4, <1>6, <1>7, <1>8, <1>9, <1>10, <1>11 DEF Next

\* What an admin controls changes only in a transaction the admin signed.
LEMMA NextAdminSigns == IInv /\ [Next]_vars => [AdminSigns]_vars
<1> SUFFICES ASSUME IInv, Next PROVE AdminSigns
  OBVIOUS
<1> USE DEF IInv
<1>1. ASSUME NEW m \in CreateDenomMsgs, CreateDenom(m) PROVE AdminSigns
  <2> DEFINE denom == <<m.sender, m.subdenom>>
  <2>1. denom \in Denoms /\ authority[denom] = NoRecord
    BY <1>1, FreshDenom DEF CreateDenom
  <2>2. \A d \in Denoms \ {denom} : authority'[d] = authority[d] /\ denomMetadata'[d] = denomMetadata[d]
    <3> HIDE DEF denom
    <3>1. /\ authority' = [authority EXCEPT ![denom] = m.sender]
          /\ denomMetadata' = WithMetadata(denomMetadata, {denom})
      BY <1>1 DEF CreateDenom, denom
    <3> QED
      BY <3>1 DEF WithMetadata, TypeOK
  <2>3. supply' = supply
    BY <1>1 DEF CreateDenom
  <2> HIDE DEF denom
  <2> QED
    BY <2>1, <2>2, <2>3 DEF AdminSigns, Denoms
<1>2. ASSUME NEW m \in Messages, Signed(m), IsAdmin(m), Done(m), m.denom \in Denoms,
             \A d \in Denoms \ {m.denom} :
               /\ authority'[d] = authority[d]
               /\ supply'[d] = supply[d]
               /\ denomMetadata'[d] = denomMetadata[d]
      PROVE  AdminSigns
  <2>1. tx'.msg = m
    BY <1>2, TxOf
  <2>2. UserTx
    BY <1>2, <2>1, MessageIsUserTx DEF UserTx
  <2>3. m.sender = authority[m.denom]
    BY <1>2, AdminHasRecord
  <2> QED
    BY <1>2, <2>1, <2>2, <2>3 DEF AdminSigns, Denoms
<1>3. ASSUME NEW m \in MintMsgs, Mint(m) PROVE AdminSigns
  <2>1. m \in Messages /\ m.denom \in Denoms
    BY DEF MintMsgs, Messages
  <2> QED
    BY <1>2, <1>3, <2>1 DEF Mint, MintOk, TypeOK
<1>4. ASSUME NEW m \in BurnMsgs, Burn(m) PROVE AdminSigns
  <2>1. m \in Messages /\ m.denom \in Denoms
    BY DEF BurnMsgs, Messages
  <2> QED
    BY <1>2, <1>4, <2>1 DEF Burn, BurnOk, TypeOK
<1>5. ASSUME NEW m \in ChangeAdminMsgs, ChangeAdmin(m) PROVE AdminSigns
  <2>1. m \in Messages /\ m.denom \in Denoms
    BY DEF ChangeAdminMsgs, Messages
  <2> QED
    BY <1>2, <1>5, <2>1 DEF ChangeAdmin, ChangeAdminOk, ValidChangeAdmin, TypeOK
<1>6. ASSUME NEW m \in SetDenomMetadataMsgs, SetDenomMetadata(m) PROVE AdminSigns
  <2>1. m \in Messages /\ m.denom \in Denoms
    BY DEF SetDenomMetadataMsgs, Messages
  <2> QED
    BY <1>2, <1>6, <2>1 DEF SetDenomMetadata, SetDenomMetadataOk, ValidSetDenomMetadata, TypeOK
<1>7. CASE Restart
  BY <1>7, RestartKeepsRecords, RestartKeepsMetadata DEF Restart, AdminSigns
<1>8. CASE UNCHANGED <<authority, supply, denomMetadata>>
  BY <1>8 DEF AdminSigns
<1> QED
  BY <1>1, <1>3, <1>4, <1>5, <1>6, <1>7, <1>8
     DEF Next, ForceTransfer, BankSend, SetParams, Reject, state

\* Holdings shrink only when their holder, or the denom's admin, signed.
LEMMA NextHolderOrAdminSigns == IInv /\ [Next]_vars => [HolderOrAdminSigns]_vars
<1> SUFFICES ASSUME IInv, Next PROVE HolderOrAdminSigns
  OBVIOUS
<1> USE DEF IInv
<1>1. ASSUME NEW m \in CreateDenomMsgs, CreateDenom(m) PROVE HolderOrAdminSigns
  <2> DEFINE payer == AccOf[m.sender]
  <2>1. tx'.msg = m /\ UserTx
    <3>1. m \in Messages
      BY DEF Messages
    <3> QED
      BY <1>1, <3>1, TxOf, MessageIsUserTx DEF CreateDenom, UserTx
  <2>2. ASSUME NEW n \in NativeDenoms, NEW a \in Accounts, a # payer
        PROVE  ~(balances'[n][a] < balances[n][a])
    <3> DEFINE pool == DistributionModule
    <3>1. /\ balances[n] \in [Accounts -> Amount] /\ creationFee[n] \in Amount
          /\ payer \in Accounts /\ pool \in Accounts /\ payer # pool
      BY <1>1 DEF CreateDenom, CreateDenomOk, ValidCreateDenom, Signed, IsAddress, TypeOK, Denoms, ModuleAccounts
    <3>2. CanSend(balances[n], payer, pool, creationFee[n])
      BY <1>1 DEF CreateDenom, CreateDenomOk, ValidCreateDenom, CanPayFee
    <3>3. balances'[n] = Send(balances[n], payer, pool, creationFee[n])
      BY <1>1 DEF CreateDenom, chargeForCreateDenom, Denoms
    <3> HIDE DEF payer
    <3> QED
      BY <2>2, <3>1, <3>2, <3>3, SendTakesFromSender
  <2>3. ASSUME NEW d \in FactoryDenoms PROVE balances'[d] = balances[d]
    BY <1>1 DEF CreateDenom, chargeForCreateDenom, Denoms
  <2>4. ASSUME NEW d \in FactoryDenoms, NEW a \in Accounts
        PROVE  ~(balances'[d][a] < balances[d][a])
    BY <2>3 DEF TypeOK, Denoms, Amount
  <2> QED
    BY <2>1, <2>2, <2>4 DEF HolderOrAdminSigns, Denoms
<1>2. ASSUME NEW m \in Messages, Signed(m), IsAdmin(m), Done(m), m.denom \in FactoryDenoms,
             \A d \in Denoms \ {m.denom} : balances'[d] = balances[d]
      PROVE  HolderOrAdminSigns
  <2>1. tx'.msg = m /\ UserTx /\ m.sender = authority[m.denom]
    BY <1>2, TxOf, MessageIsUserTx, AdminHasRecord DEF UserTx
  <2>2. ASSUME NEW d \in Denoms \ {m.denom}, NEW a \in Accounts
        PROVE  ~(balances'[d][a] < balances[d][a])
    BY <1>2 DEF TypeOK, Amount
  <2> QED
    BY <1>2, <2>1, <2>2 DEF HolderOrAdminSigns
<1>3. ASSUME NEW m \in MintMsgs, Mint(m) PROVE HolderOrAdminSigns
  <2>1. m \in Messages /\ m.denom \in FactoryDenoms
    BY <1>3 DEF Mint, MintOk, IsFactoryDenom, Messages
  <2> QED
    BY <1>2, <1>3, <2>1 DEF Mint, MintOk, TypeOK
<1>4. ASSUME NEW m \in BurnMsgs, Burn(m) PROVE HolderOrAdminSigns
  <2>1. m \in Messages /\ m.denom \in FactoryDenoms
    BY <1>4 DEF Burn, BurnOk, IsFactoryDenom, Messages
  <2> QED
    BY <1>2, <1>4, <2>1 DEF Burn, BurnOk, TypeOK
<1>5. ASSUME NEW m \in ForceTransferMsgs, ForceTransfer(m) PROVE HolderOrAdminSigns
  <2>1. m \in Messages /\ m.denom \in FactoryDenoms
    BY <1>5 DEF ForceTransfer, ForceTransferOk, ValidForceTransfer, IsFactoryDenom, Messages
  <2> QED
    BY <1>2, <1>5, <2>1 DEF ForceTransfer, ForceTransferOk, ValidForceTransfer, TypeOK
<1>6. ASSUME NEW m \in BankSendMsgs, BankSend(m) PROVE HolderOrAdminSigns
  <2> DEFINE from == AccOf[m.sender]
             to   == AccOf[m.to]
  <2>1. /\ m \in Messages /\ m.denom \in Denoms /\ m.amount \in Amount
        /\ from \in Accounts /\ to \in Accounts
    BY <1>6 DEF BankSend, BankSendOk, BankSendMsgs, Signed, IsAddress, Messages
  <2>2. tx'.msg = m /\ UserTx
    BY <1>6, <2>1, TxOf, MessageIsUserTx DEF BankSend, UserTx
  <2>3. ASSUME NEW d \in Denoms \ {m.denom}, NEW a \in Accounts
        PROVE  ~(balances'[d][a] < balances[d][a])
    BY <1>6 DEF BankSend, TypeOK, Amount
  <2>4. ASSUME NEW a \in Accounts, a # from
        PROVE  ~(balances'[m.denom][a] < balances[m.denom][a])
    <3>1. balances[m.denom] \in [Accounts -> Amount]
      BY <2>1 DEF TypeOK
    <3>2. CanSend(balances[m.denom], from, to, m.amount)
      BY <1>6 DEF BankSend, BankSendOk
    <3>3. balances'[m.denom] = Send(balances[m.denom], from, to, m.amount)
      BY <1>6, <2>1 DEF BankSend, TypeOK
    <3> HIDE DEF from, to
    <3> QED
      BY <2>1, <2>4, <3>1, <3>2, <3>3, SendTakesFromSender
  <2> QED
    BY <2>2, <2>3, <2>4 DEF HolderOrAdminSigns
<1>7. CASE UNCHANGED balances
  BY <1>7 DEF HolderOrAdminSigns, TypeOK, Amount
<1> QED
  BY <1>1, <1>3, <1>4, <1>5, <1>6, <1>7
     DEF Next, ChangeAdmin, SetDenomMetadata, SetParams, Reject, Restart, state

\* The fee is charged exactly when a denom is created, in full, to the creator.
LEMMA NextChargesOnCreate == IInv /\ [Next]_vars => [ChargesOnCreate]_vars
<1> SUFFICES ASSUME IInv, Next PROVE ChargesOnCreate
  OBVIOUS
<1> USE DEF IInv
<1>1. ASSUME NEW m \in CreateDenomMsgs, CreateDenom(m) PROVE ChargesOnCreate
  <2> DEFINE payer == AccOf[m.sender]
  <2>1. tx'.msg = m /\ Succeeded("create_denom")
    BY <1>1, TxOf DEF CreateDenom, CreateDenomMsgs, Succeeded
  <2>2. payer \in Users /\ CanPayFee(payer) /\ chargeForCreateDenom(payer)
    BY <1>1 DEF CreateDenom, CreateDenomOk, Signed
  <2> HIDE DEF payer
  <2>3. payer \in Accounts /\ DistributionModule \in Accounts /\ payer # DistributionModule
    BY <2>2 DEF ModuleAccounts
  <2>4. ASSUME NEW n \in NativeDenoms
        PROVE  /\ communityPool'[n] = communityPool[n] + creationFee[n]
               /\ balances'[n][payer] = balances[n][payer] - creationFee[n]
    <3>1. n \in Denoms /\ balances[n] \in [Accounts -> Amount] /\ creationFee[n] \in Amount
      BY DEF TypeOK, Denoms
    <3>2. CanSend(balances[n], payer, DistributionModule, creationFee[n])
      BY <2>2 DEF CanPayFee
    <3>3. balances'[n] = Send(balances[n], payer, DistributionModule, creationFee[n])
      BY <2>2, <3>1 DEF chargeForCreateDenom
    <3>4. Send(balances[n], payer, DistributionModule, creationFee[n])[payer]
            = balances[n][payer] - creationFee[n]
      BY <2>3, <3>1 DEF Send, Debit, Credit, Amount
    <3> QED
      BY <2>2, <3>3, <3>4 DEF chargeForCreateDenom
  <2> QED
    BY <2>1, <2>4 DEF ChargesOnCreate, payer
<1>2. ASSUME ~Succeeded("create_denom"), UNCHANGED communityPool PROVE ChargesOnCreate
  BY <1>2 DEF ChargesOnCreate, TypeOK, Amount
<1>3. ASSUME NEW m \in Messages, m.type # "create_denom" \/ Failed(m),
             Done(m) \/ Failed(m), UNCHANGED communityPool
      PROVE  ChargesOnCreate
  BY <1>2, <1>3, TxOf DEF Succeeded, Done, Failed
<1>4. ASSUME NEW m \in MintMsgs, Mint(m) PROVE ChargesOnCreate
  BY <1>3, <1>4 DEF Mint, MintMsgs, Messages
<1>5. ASSUME NEW m \in BurnMsgs, Burn(m) PROVE ChargesOnCreate
  BY <1>3, <1>5 DEF Burn, BurnMsgs, Messages
<1>6. ASSUME NEW m \in ForceTransferMsgs, ForceTransfer(m) PROVE ChargesOnCreate
  BY <1>3, <1>6 DEF ForceTransfer, ForceTransferMsgs, Messages
<1>7. ASSUME NEW m \in ChangeAdminMsgs, ChangeAdmin(m) PROVE ChargesOnCreate
  BY <1>3, <1>7 DEF ChangeAdmin, ChangeAdminMsgs, Messages
<1>8. ASSUME NEW m \in SetDenomMetadataMsgs, SetDenomMetadata(m) PROVE ChargesOnCreate
  BY <1>3, <1>8 DEF SetDenomMetadata, SetDenomMetadataMsgs, Messages
<1>9. ASSUME NEW m \in BankSendMsgs, BankSend(m) PROVE ChargesOnCreate
  BY <1>3, <1>9 DEF BankSend, BankSendMsgs, Messages
<1>10. ASSUME NEW fee \in Fees, SetParams(fee) PROVE ChargesOnCreate
  BY <1>2, <1>10, TxOf DEF SetParams, Governance, Succeeded
<1>11. CASE Restart
  BY <1>2, <1>11, TxOf DEF Restart, Upgrade, Succeeded
<1>12. CASE Reject
  <2>1. PICK m \in Messages : Failed(m)
    BY <1>12 DEF Reject, Messages
  <2> QED
    BY <1>3, <1>12, <2>1 DEF Reject, state
<1> QED
  BY <1>1, <1>4, <1>5, <1>6, <1>7, <1>8, <1>9, <1>10, <1>11, <1>12 DEF Next

\* A restart lists each denom it found under its creator's account.
LEMMA RestartKeepsCreators ==
  ASSUME TypeOK, RegistryConsistent, Restart
  PROVE  {<<AccOf[e[1]], e[2]>> : e \in creators'} = {<<AccOf[e[1]], e[2]>> : e \in creators}
<1>1. DOMAIN ExportGenesis = {e[2] : e \in creators}
  BY DEF ExportGenesis
<1>2. creators' = {<<Canonical(d[1]), d>> : d \in DOMAIN ExportGenesis}
  BY DEF Restart, GenesisCreators
<1>3. \A e \in creators : AccOf[Canonical(e[2][1])] = AccOf[e[1]]
  <2> SUFFICES ASSUME NEW e \in creators PROVE AccOf[Canonical(e[2][1])] = AccOf[e[1]]
    OBVIOUS
  <2>1. e[2][1] \in AddrStrings
    BY DEF TypeOK, FactoryDenoms
  <2>2. AccOf[e[1]] = AccOf[e[2][1]]
    BY DEF RegistryConsistent, IndexedOnceUnderCreator
  <2> QED
    BY <2>1, <2>2 DEF Canonical
<1>4. ASSUME NEW e \in creators
      PROVE  /\ <<Canonical(e[2][1]), e[2]>> \in creators'
             /\ AccOf[Canonical(e[2][1])] = AccOf[e[1]]
  BY <1>1, <1>2, <1>3
<1>5. ASSUME NEW f \in creators'
      PROVE  \E e \in creators : f[2] = e[2] /\ AccOf[f[1]] = AccOf[e[1]]
  <2>1. PICK e \in creators : f = <<Canonical(e[2][1]), e[2]>>
    BY <1>1, <1>2
  <2> QED
    BY <1>3, <2>1
<1> QED
  <2>1. ASSUME NEW e \in creators
        PROVE  \E f \in creators' : <<AccOf[e[1]], e[2]>> = <<AccOf[f[1]], f[2]>>
    <3>1. <<Canonical(e[2][1]), e[2]>> \in creators'
      BY <1>4
    <3> WITNESS <<Canonical(e[2][1]), e[2]>> \in creators'
    <3> QED
      BY <1>4
  <2>2. ASSUME NEW f \in creators'
        PROVE  \E e \in creators : <<AccOf[f[1]], f[2]>> = <<AccOf[e[1]], e[2]>>
    BY <1>5
  <2> QED
    BY <2>1, <2>2

\* A restart changes no admin, no metadata and no denom's creator.
LEMMA NextKeepsRegistry == IInv /\ [Next]_vars => [KeepsRegistry]_vars
<1> SUFFICES ASSUME IInv, Next, tx'.msg = Upgrade, ~Restart PROVE FALSE
  BY RestartKeepsRecords, RestartKeepsMetadata, RestartKeepsCreators DEF KeepsRegistry, IInv
<1>1. ASSUME NEW m \in Messages PROVE ~Done(m) /\ ~Failed(m)
  BY MessageIsUserTx, TxOf
<1>2. ~ \E fee \in Fees : SetParams(fee)
  BY TxOf DEF SetParams, Governance, Upgrade
<1>3. ~Reject
  BY <1>1 DEF Reject, Messages
<1> QED
  BY <1>1, <1>2, <1>3
     DEF Next, CreateDenom, Mint, Burn, ForceTransfer, ChangeAdmin, SetDenomMetadata,
         BankSend, Messages

-----------------------------------------------------------------------------
(* The theorems.                                                            *)

\* The conjunction is inductive and holds initially.
THEOREM Inductive == Spec => []IInv
<1>1. Init => IInv
  BY InitType, InitRegistry DEF IInv
<1>2. IInv /\ [Next]_vars => IInv'
  BY NextType, NextRegistry DEF IInv
<1> QED
  BY <1>1, <1>2, PTL DEF Spec

\* Every reachable value has its type: no balance, supply or pool leaves the
\* range of sdk.Int, and no stored admin fails DenomAuthorityMetadata.Validate.
THEOREM TypeCorrect == Spec => []TypeOK
<1>1. IInv => TypeOK
  BY DEF IInv
<1> QED
  BY <1>1, Inductive, PTL

\* Authority records, creators index and bank metadata always agree.
THEOREM RegistryStaysConsistent == Spec => []RegistryConsistent
<1>1. IInv => RegistryConsistent
  BY DEF IInv
<1> QED
  BY <1>1, Inductive, PTL

\* The distribution module's account always holds the community pool.
THEOREM FeePoolStaysBacked == Spec => []FeePoolBacked
<1>1. IInv => FeePoolBacked
  BY DEF IInv
<1> QED
  BY <1>1, Inductive, PTL

\* A denom is never created a second time, and its record is never removed.
THEOREM DenomsCreatedOnce == Spec => CreatedOnce
<1>1. Spec => []IInv
  BY Inductive
<1>2. IInv /\ [Next]_vars => [RegistersOnce]_vars
  BY NextRegistersOnce
<1> QED
  BY <1>1, <1>2, PTL DEF Spec, CreatedOnce

\* The admin, supply and metadata of a denom change only when its admin signed.
THEOREM AdminAlwaysSigns == Spec => OnlyAdminActs
<1>1. Spec => []IInv
  BY Inductive
<1>2. IInv /\ [Next]_vars => [AdminSigns]_vars
  BY NextAdminSigns
<1> QED
  BY <1>1, <1>2, PTL DEF Spec, OnlyAdminActs

\* Nobody but its holder and the denom's admin can reduce an account's holdings.
THEOREM HoldingsAreSafe == Spec => NobodyElseTakes
<1>1. Spec => []IInv
  BY Inductive
<1>2. IInv /\ [Next]_vars => [HolderOrAdminSigns]_vars
  BY NextHolderOrAdminSigns
<1> QED
  BY <1>1, <1>2, PTL DEF Spec, NobodyElseTakes

\* The creation fee is charged when a denom is created and at no other time.
THEOREM FeeChargedOnCreate == Spec => FeeExactlyOnCreate
<1>1. Spec => []IInv
  BY Inductive
<1>2. IInv /\ [Next]_vars => [ChargesOnCreate]_vars
  BY NextChargesOnCreate
<1> QED
  BY <1>1, <1>2, PTL DEF Spec, FeeExactlyOnCreate

\* A restart from the exported genesis brings the registry back.
THEOREM RestartLosesNothing == Spec => RestartPreserves
<1>1. Spec => []IInv
  BY Inductive
<1>2. IInv /\ [Next]_vars => [KeepsRegistry]_vars
  BY NextKeepsRegistry
<1> QED
  BY <1>1, <1>2, PTL DEF Spec, RestartPreserves

-----------------------------------------------------------------------------
(* The coins of one purse, and what the bank's operations do to them.       *)

Coins(purse) == SumFunctionOnSet(purse, Accounts)

\* SupplyBacked, of any supplies and holdings, with the sum of RecursionProofs.
Backed(total, held) == \A d \in Denoms : total[d] = Coins(held[d])

\* The supply that a bank's genesis records for a purse is the sum of RecursionProofs.
LEMMA FoldIsCoins ==
  ASSUME NEW purse, DOMAIN purse = Accounts
  PROVE  FoldFunction(+, 0, purse) = Coins(purse)
BY DEF Coins, FoldFunction, SumFunctionOnSet

\* SupplyBacked and Backed say the same of typed holdings.
LEMMA FoldsAreBacked ==
  ASSUME NEW total, NEW held \in [Denoms -> [Accounts -> Amount]]
  PROVE  (\A d \in Denoms : total[d] = FoldFunction(+, 0, held[d])) <=> Backed(total, held)
<1>1. ASSUME NEW d \in Denoms
      PROVE  FoldFunction(+, 0, held[d]) = Coins(held[d])
  <2>1. DOMAIN held[d] = Accounts
    OBVIOUS
  <2> QED
    BY <2>1, FoldIsCoins
<1> QED
  BY <1>1 DEF Backed

\* Taking coins from an account is a change of one summand.
LEMMA DebitCoins ==
  ASSUME NEW purse \in [Accounts -> Int], NEW a \in Accounts, NEW n \in Int
  PROVE  /\ Debit(purse, a, n) \in [Accounts -> Int]
         /\ Coins(Debit(purse, a, n)) = Coins(purse) - n
<1> DEFINE e == Debit(purse, a, n)
<1>1. /\ e \in [Accounts -> Int]
      /\ e[a] = purse[a] - n
      /\ \A x \in Accounts \ {a} : e[x] = purse[x]
  BY DEF Debit
<1> HIDE DEF e
<1>2. Coins(e) = Coins(purse) - purse[a] + e[a]
  BY <1>1, AccountsAssumption, SumChange DEF Coins
<1>3. Coins(purse) \in Int
  BY AccountsAssumption, SumType DEF Coins
<1>4. Coins(e) = Coins(purse) - n
  BY <1>1, <1>2, <1>3
<1> QED
  BY <1>1, <1>4 DEF e

\* Adding coins to an account adds as many to the purse.
LEMMA CreditCoins ==
  ASSUME NEW purse \in [Accounts -> Int], NEW a \in Accounts, NEW n \in Int
  PROVE  /\ Credit(purse, a, n) \in [Accounts -> Int]
         /\ Coins(Credit(purse, a, n)) = Coins(purse) + n
<1> DEFINE e == Credit(purse, a, n)
<1>1. /\ e \in [Accounts -> Int]
      /\ e[a] = purse[a] + n
      /\ \A x \in Accounts \ {a} : e[x] = purse[x]
  BY DEF Credit
<1> HIDE DEF e
<1>2. Coins(e) = Coins(purse) - purse[a] + e[a]
  BY <1>1, AccountsAssumption, SumChange DEF Coins
<1>3. Coins(purse) \in Int
  BY AccountsAssumption, SumType DEF Coins
<1>4. Coins(e) = Coins(purse) + n
  BY <1>1, <1>2, <1>3
<1> QED
  BY <1>1, <1>4 DEF e

\* SendCoins moves coins: it neither makes nor loses one, also when the
\* sender and the recipient are one account.
LEMMA SendKeepsCoins ==
  ASSUME NEW purse \in [Accounts -> Int], NEW from \in Accounts, NEW to \in Accounts,
         NEW n \in Int
  PROVE  /\ Send(purse, from, to, n) \in [Accounts -> Int]
         /\ Coins(Send(purse, from, to, n)) = Coins(purse)
<1> DEFINE taken == Debit(purse, from, n)
<1>0. Coins(purse) \in Int
  BY AccountsAssumption, SumType DEF Coins
<1>1. taken \in [Accounts -> Int] /\ Coins(taken) = Coins(purse) - n
  BY DebitCoins
<1> HIDE DEF taken
<1>2. Credit(taken, to, n) \in [Accounts -> Int] /\ Coins(Credit(taken, to, n)) = Coins(taken) + n
  BY <1>1, CreditCoins
<1>3. Send(purse, from, to, n) = Credit(taken, to, n)
  BY DEF Send, taken
<1> QED
  BY <1>0, <1>1, <1>2, <1>3

\* The keeper's three bank actions on one purse: a mint adds what it mints, a
\* burn takes what it burns, a forced transfer changes nothing, although the
\* first two go through the module's own account.
LEMMA CoinsOfActions ==
  ASSUME NEW purse \in [Accounts -> Int], NEW a \in Accounts, NEW n \in Int
  PROVE  /\ Coins(mintTo(purse, n, a)) = Coins(purse) + n
         /\ Coins(burnFrom(purse, n, a)) = Coins(purse) - n
<1>1. TokenFactoryModule \in Accounts
  BY ConstantsAssumption DEF ModuleAccounts
<1>2. Coins(mintTo(purse, n, a)) = Coins(purse) + n
  <2> DEFINE minted == Credit(purse, TokenFactoryModule, n)
  <2>1. minted \in [Accounts -> Int] /\ Coins(minted) = Coins(purse) + n
    BY <1>1, CreditCoins
  <2> HIDE DEF minted
  <2>2. Coins(Send(minted, TokenFactoryModule, a, n)) = Coins(minted)
    BY <1>1, <2>1, SendKeepsCoins
  <2> QED
    BY <2>1, <2>2 DEF mintTo, minted
<1>3. Coins(burnFrom(purse, n, a)) = Coins(purse) - n
  <2> DEFINE pooled == Send(purse, a, TokenFactoryModule, n)
  <2>1. pooled \in [Accounts -> Int] /\ Coins(pooled) = Coins(purse)
    BY <1>1, SendKeepsCoins
  <2> HIDE DEF pooled
  <2>2. Coins(Debit(pooled, TokenFactoryModule, n)) = Coins(pooled) - n
    BY <1>1, <2>1, DebitCoins
  <2> QED
    BY <2>1, <2>2 DEF burnFrom, pooled
<1> QED
  BY <1>2, <1>3

-----------------------------------------------------------------------------
(* The supply.                                                              *)

\* A step on the purse of one denom keeps every supply backed if it changes
\* that denom's supply by as much as the coins in the purse.
LEMMA PurseStepBacked ==
  ASSUME TypeOK, Backed(supply, balances), NEW d \in Denoms, NEW purse, NEW total,
         total = Coins(purse),
         balances' = [balances EXCEPT ![d] = purse],
         supply' = [supply EXCEPT ![d] = total]
  PROVE  Backed(supply', balances')
<1>1. ASSUME NEW e \in Denoms PROVE supply'[e] = Coins(balances'[e])
  <2>1. CASE e = d
    BY <2>1 DEF TypeOK
  <2>2. CASE e # d
    BY <2>2 DEF TypeOK, Backed
  <2> QED
    BY <2>1, <2>2
<1> QED
  BY <1>1 DEF Backed

\* A purse of reachable amounts is one of integers.
LEMMA PurseOfInts ==
  ASSUME TypeOK, NEW d \in Denoms
  PROVE  balances[d] \in [Accounts -> Int] /\ Amount \subseteq Int
BY MaxIntAssumption DEF TypeOK, Amount

\* No step changes a supply but a mint and a burn, and no step the coins
\* themselves: one step of the proof per handler.
LEMMA NextBacked == TypeOK /\ Backed(supply, balances) /\ [Next]_vars => Backed(supply', balances')
<1> SUFFICES ASSUME TypeOK, Backed(supply, balances), [Next]_vars
             PROVE  Backed(supply', balances')
  OBVIOUS
<1>0. \A a \in AddrStrings : AccOf[a] \in Accounts
  BY AddressAssumption
<1>1. ASSUME NEW m \in CreateDenomMsgs, CreateDenom(m) PROVE Backed(supply', balances')
  <2> DEFINE payer == AccOf[m.sender]
  <2>1. payer \in Accounts /\ DistributionModule \in Accounts
    BY <1>0, <1>1, ConstantsAssumption DEF CreateDenom, CreateDenomOk, ValidCreateDenom, IsAddress, ModuleAccounts
  <2>2. /\ balances' = [d \in Denoms |->
                          IF d \in NativeDenoms
                          THEN Send(balances[d], payer, DistributionModule, creationFee[d])
                          ELSE balances[d]]
        /\ supply' = supply
    BY <1>1 DEF CreateDenom, chargeForCreateDenom
  <2> HIDE DEF payer
  <2>3. ASSUME NEW n \in NativeDenoms
        PROVE  Coins(Send(balances[n], payer, DistributionModule, creationFee[n])) = Coins(balances[n])
    <3>1. n \in Denoms /\ creationFee[n] \in Amount
      BY DEF Denoms, TypeOK
    <3>2. balances[n] \in [Accounts -> Int] /\ creationFee[n] \in Int
      BY <3>1, PurseOfInts
    <3> QED
      BY <2>1, <3>2, SendKeepsCoins
  <2> QED
    BY <2>2, <2>3 DEF Backed
<1>2. ASSUME NEW m \in MintMsgs, Mint(m) PROVE Backed(supply', balances')
  <2> DEFINE to == AccOf[OrSender(m.to, m)]
             purse == mintTo(balances[m.denom], m.amount, to)
  <2>1. m.denom \in Denoms /\ m.amount \in Int /\ to \in Accounts
    <3>1. m.denom \in Denoms /\ m.amount \in Amount
      BY ConstantsAssumption DEF MintMsgs
    <3> QED
      BY <1>0, <1>2, <3>1, PurseOfInts DEF Mint, MintOk, IsAddress
  <2> HIDE DEF to
  <2>2. Coins(purse) = Coins(balances[m.denom]) + m.amount
    BY <2>1, PurseOfInts, CoinsOfActions
  <2>3. supply[m.denom] + m.amount = Coins(purse)
    BY <2>1, <2>2 DEF Backed
  <2>4. /\ balances' = [balances EXCEPT ![m.denom] = purse]
        /\ supply' = [supply EXCEPT ![m.denom] = supply[m.denom] + m.amount]
    BY <1>2 DEF Mint, to
  <2> HIDE DEF purse
  <2> QED
    BY <2>1, <2>3, <2>4, PurseStepBacked
<1>3. ASSUME NEW m \in BurnMsgs, Burn(m) PROVE Backed(supply', balances')
  <2> DEFINE from == AccOf[OrSender(m.from, m)]
             purse == burnFrom(balances[m.denom], m.amount, from)
  <2>1. m.denom \in Denoms /\ m.amount \in Int /\ from \in Accounts
    <3>1. m.denom \in Denoms /\ m.amount \in Amount
      BY ConstantsAssumption DEF BurnMsgs
    <3> QED
      BY <1>0, <1>3, <3>1, PurseOfInts DEF Burn, BurnOk, IsAddress
  <2> HIDE DEF from
  <2>2. Coins(purse) = Coins(balances[m.denom]) - m.amount
    BY <2>1, PurseOfInts, CoinsOfActions
  <2>3. supply[m.denom] - m.amount = Coins(purse)
    BY <2>1, <2>2 DEF Backed
  <2>4. /\ balances' = [balances EXCEPT ![m.denom] = purse]
        /\ supply' = [supply EXCEPT ![m.denom] = supply[m.denom] - m.amount]
    BY <1>3 DEF Burn, from
  <2> HIDE DEF purse
  <2> QED
    BY <2>1, <2>3, <2>4, PurseStepBacked
<1>4. ASSUME NEW d \in Denoms, NEW from \in Accounts, NEW to \in Accounts, NEW n \in Amount,
             balances' = [balances EXCEPT ![d] = Send(balances[d], from, to, n)],
             supply' = supply
      PROVE  Backed(supply', balances')
  <2> DEFINE purse == Send(balances[d], from, to, n)
  <2>1. balances[d] \in [Accounts -> Int] /\ n \in Int
    BY PurseOfInts
  <2>2. Coins(purse) = Coins(balances[d])
    BY <2>1, SendKeepsCoins
  <2>3. supply[d] = Coins(purse)
    BY <2>2 DEF Backed
  <2>4. supply' = [supply EXCEPT ![d] = supply[d]]
    BY <1>4 DEF TypeOK
  <2>5. balances' = [balances EXCEPT ![d] = purse]
    BY <1>4
  <2> HIDE DEF purse
  <2> QED
    BY <2>3, <2>4, <2>5, PurseStepBacked
<1>5. ASSUME NEW m \in ForceTransferMsgs, ForceTransfer(m) PROVE Backed(supply', balances')
  <2>1. m.denom \in Denoms /\ m.amount \in Amount
    BY ConstantsAssumption DEF ForceTransferMsgs
  <2>2. AccOf[m.from] \in Accounts /\ AccOf[m.to] \in Accounts
    BY <1>0, <1>5 DEF ForceTransfer, ForceTransferOk, ValidForceTransfer, IsAddress
  <2> QED
    BY <1>4, <1>5, <2>1, <2>2 DEF ForceTransfer, forceTransfer
<1>6. ASSUME NEW m \in BankSendMsgs, BankSend(m) PROVE Backed(supply', balances')
  <2>1. m.denom \in Denoms /\ m.amount \in Amount
    BY ConstantsAssumption DEF BankSendMsgs
  <2>2. AccOf[m.sender] \in Accounts /\ AccOf[m.to] \in Accounts
    BY <1>0, <1>6 DEF BankSend, BankSendOk, Signed, IsAddress
  <2> QED
    BY <1>4, <1>6, <2>1, <2>2 DEF BankSend
<1>7. CASE UNCHANGED <<balances, supply>>
  BY <1>7
<1> QED
  BY <1>1, <1>2, <1>3, <1>5, <1>6, <1>7
     DEF Next, ChangeAdmin, SetDenomMetadata, SetParams, Reject, Restart, state, vars

\* The recorded supply of every denom is what its accounts hold.  The
\* invariant with its types is inductive: the registry plays no part.
THEOREM SupplyStaysBacked == Spec => []SupplyBacked
<1>1. Init => Backed(supply, balances)
  <2> SUFFICES ASSUME Init PROVE Backed(supply, balances)
    OBVIOUS
  <2>1. balances \in [Denoms -> [Accounts -> Amount]]
    BY GenesisAssumption DEF Init
  <2>2. \A d \in Denoms : supply[d] = FoldFunction(+, 0, balances[d])
    BY DEF Init
  <2> QED
    BY <2>1, <2>2, FoldsAreBacked
<1>2. TypeOK /\ Backed(supply, balances) /\ [Next]_vars => Backed(supply, balances)'
  BY NextBacked DEF Backed
<1>3. TypeOK /\ Backed(supply, balances) => SupplyBacked
  BY FoldsAreBacked DEF TypeOK, SupplyBacked
<1> QED
  BY <1>1, <1>2, <1>3, TypeCorrect, PTL DEF Spec

-----------------------------------------------------------------------------
(* What the supply bounds.                                                  *)

\* Nobody holds more than the supply, and no two accounts together.
LEMMA HoldingsBounded ==
  ASSUME TypeOK, Backed(supply, balances), NEW d \in Denoms
  PROVE  /\ supply[d] \in Nat /\ supply[d] <= MaxInt
         /\ \A a \in Accounts : balances[d][a] \in Nat /\ balances[d][a] <= supply[d]
         /\ \A a, b \in Accounts : a # b => balances[d][a] + balances[d][b] <= supply[d]
<1>1. balances[d] \in [Accounts -> Nat]
  BY MaxIntAssumption DEF TypeOK, Amount
<1>2. supply[d] = Coins(balances[d])
  BY DEF Backed
<1>3. supply[d] \in Nat /\ supply[d] <= MaxInt
  BY MaxIntAssumption DEF TypeOK, Amount
<1>4. /\ \A a \in Accounts : balances[d][a] <= Coins(balances[d])
      /\ \A a, b \in Accounts : a # b => balances[d][a] + balances[d][b] <= Coins(balances[d])
  BY <1>1, AccountsAssumption, SumBounds DEF Coins
<1> QED
  BY <1>1, <1>2, <1>3, <1>4

\* So coins that an account holds can always be sent: the recipient's balance
\* stays in range, which SendCoins leaves to a panic of sdk.Int.
LEMMA HeldCanBeSent ==
  ASSUME TypeOK, Backed(supply, balances), NEW d \in Denoms,
         NEW from \in Accounts, NEW to \in Accounts, NEW n \in Nat, balances[d][from] >= n
  PROVE  CanSend(balances[d], from, to, n)
<1>1. /\ supply[d] \in Nat /\ supply[d] <= MaxInt
      /\ balances[d][from] \in Nat /\ balances[d][from] <= supply[d]
      /\ balances[d][to] \in Nat
      /\ from # to => balances[d][from] + balances[d][to] <= supply[d]
  BY HoldingsBounded
<1>2. Debit(balances[d], from, n)[to] = IF from = to THEN balances[d][to] - n ELSE balances[d][to]
  BY DEF Debit, TypeOK
<1> QED
  BY <1>1, <1>2, MaxIntAssumption DEF CanSend

\* And coins collected from an account that is not the module's can be burnt.
LEMMA HeldCanBeBurnt ==
  ASSUME TypeOK, Backed(supply, balances), NEW d \in Denoms,
         NEW from \in Accounts \ {TokenFactoryModule}, NEW n \in Nat, balances[d][from] >= n
  PROVE  /\ CanSend(balances[d], from, TokenFactoryModule, n)
         /\ CanBurnCoins(Send(balances[d], from, TokenFactoryModule, n), supply[d],
                         TokenFactoryModule, n)
<1>0. TokenFactoryModule \in Accounts
  BY ConstantsAssumption DEF ModuleAccounts
<1>1. /\ supply[d] \in Nat
      /\ balances[d][from] \in Nat /\ balances[d][from] <= supply[d]
      /\ balances[d][TokenFactoryModule] \in Nat
  BY <1>0, HoldingsBounded
<1>2. Send(balances[d], from, TokenFactoryModule, n)[TokenFactoryModule]
        = balances[d][TokenFactoryModule] + n
  BY <1>0 DEF Send, Debit, Credit, TypeOK
<1>3. CanBurnCoins(Send(balances[d], from, TokenFactoryModule, n), supply[d],
                   TokenFactoryModule, n)
  BY <1>1, <1>2 DEF CanBurnCoins
<1> QED
  BY <1>0, <1>3, HeldCanBeSent

-----------------------------------------------------------------------------
(* Nothing but the checks on the message stands between an admin and the    *)
(* coins of its denom.                                                      *)

\* The denom of an admin's message is one of the module's, and HasMetadata.
LEMMA AdminsDenom ==
  ASSUME TypeOK, RegistryConsistent, NEW m, m.denom \in Denoms,
         m.sender \in AddrStrings, m.sender = authority[m.denom]
  PROVE  IsAdmin(m) /\ m.denom \in FactoryDenoms /\ HasMetadata(m.denom)
<1>1. authority[m.denom] # NoRecord
  BY ConstantsAssumption DEF Strings
<1>2. PICK c \in AddrStrings : <<c, m.denom>> \in creators
  BY <1>1 DEF RegistryConsistent, RecordsAreIndexed
<1>3. <<c, m.denom>> \in AddrStrings \X FactoryDenoms
  BY <1>2 DEF TypeOK
<1>4. m.denom \in FactoryDenoms
  BY <1>3
<1>5. HasMetadata(m.denom)
  BY <1>1 DEF RegistryConsistent, RecordsHaveMetadata
<1> QED
  BY <1>1, <1>4, <1>5 DEF IsAdmin, Admin

\* The amounts of messages are not negative.
LEMMA AmountsAreNat == Amounts \subseteq Nat
BY ConstantsAssumption, MaxIntAssumption DEF Amount

\* A burn that is refused was asked of somebody who does not hold the coins,
\* or of a module account, or its sender is not the admin.
LEMMA BurnIsServed ==
  ASSUME TypeOK, RegistryConsistent, Backed(supply, balances), NEW m \in BurnMsgs,
         Signed(m), m.sender = authority[m.denom], m.amount > 0,
         OrSender(m.from, m) \in AddrStrings, AccOf[OrSender(m.from, m)] \in Users,
         balances[m.denom][AccOf[OrSender(m.from, m)]] >= m.amount
  PROVE  BurnOk(m)
<1> DEFINE str  == OrSender(m.from, m)
           from == AccOf[str]
<1>1. m.denom \in Denoms /\ m.sender \in AddrStrings /\ m.amount \in Nat
  BY AmountsAreNat DEF BurnMsgs, Signed, IsAddress
<1>2. IsAdmin(m) /\ m.denom \in FactoryDenoms
  BY <1>1, AdminsDenom
<1>3. from \in Accounts \ {TokenFactoryModule} /\ str \notin ModuleAccounts /\ IsAddress(str)
  BY ConstantsAssumption, AddressAssumption DEF ModuleAccounts, IsAddress
<1>4. balances[m.denom][from] >= m.amount
  OBVIOUS
<1>5. ValidBurn(m) /\ IsFactoryDenom(m.denom) /\ ~IsModuleAccount(str)
  BY <1>1, <1>2, <1>3 DEF ValidBurn, IsFactoryDenom, IsModuleAccount, IsAddress
<1>6. /\ CanSend(balances[m.denom], from, TokenFactoryModule, m.amount)
      /\ CanBurnCoins(Send(balances[m.denom], from, TokenFactoryModule, m.amount),
                      supply[m.denom], TokenFactoryModule, m.amount)
  <2> HIDE DEF from
  <2> QED
    BY <1>1, <1>3, <1>4, HeldCanBeBurnt
<1> QED
  BY <1>2, <1>3, <1>5, <1>6 DEF BurnOk

\* A forced transfer of coins that the sender has goes through.
LEMMA ForceTransferIsServed ==
  ASSUME TypeOK, RegistryConsistent, Backed(supply, balances), NEW m \in ForceTransferMsgs,
         Signed(m), m.sender = authority[m.denom],
         m.from \in AddrStrings, m.to \in AddrStrings,
         balances[m.denom][AccOf[m.from]] >= m.amount
  PROVE  ForceTransferOk(m)
<1>1. /\ m.denom \in Denoms /\ m.sender \in AddrStrings /\ m.amount \in Nat
      /\ AccOf[m.from] \in Accounts /\ AccOf[m.to] \in Accounts
  BY AmountsAreNat, AddressAssumption DEF ForceTransferMsgs, Signed, IsAddress
<1>2. IsAdmin(m) /\ m.denom \in FactoryDenoms
  BY <1>1, AdminsDenom
<1>3. CanSend(balances[m.denom], AccOf[m.from], AccOf[m.to], m.amount)
  BY <1>1, HeldCanBeSent
<1> QED
  BY <1>1, <1>2, <1>3 DEF ForceTransferOk, ValidForceTransfer, IsFactoryDenom, IsAddress

\* The admin may name any address as the next one.
LEMMA ChangeAdminIsServed ==
  ASSUME TypeOK, RegistryConsistent, NEW m \in ChangeAdminMsgs,
         Signed(m), m.sender = authority[m.denom], m.newAdmin \in AddrStrings
  PROVE  ChangeAdminOk(m)
<1>1. m.denom \in Denoms /\ m.sender \in AddrStrings
  BY DEF ChangeAdminMsgs, Signed, IsAddress
<1>2. IsAdmin(m) /\ m.denom \in FactoryDenoms
  BY <1>1, AdminsDenom
<1> QED
  BY <1>1, <1>2 DEF ChangeAdminOk, ValidChangeAdmin, ValidAdmin, IsFactoryDenom, IsAddress

\* The invariant of the coins: the registry's, and that the supply is backed.
CoinInv == IInv /\ Backed(supply, balances)

\* The invariant of the coins holds in every reachable state.
LEMMA CoinsInvariant == Spec => []CoinInv
<1>1. IInv /\ SupplyBacked => CoinInv
  BY FoldsAreBacked DEF CoinInv, IInv, TypeOK, SupplyBacked
<1> QED
  BY <1>1, Inductive, SupplyStaysBacked, PTL

\* An admin is refused nothing that the checks on its message allow.
LEMMA NextServesAdmin == CoinInv /\ [Next]_vars => [ServesAdmin]_vars
<1> SUFFICES ASSUME CoinInv, Next PROVE ServesAdmin
  OBVIOUS
<1> USE DEF CoinInv, IInv
<1>1. ~Reject => tx'.code = "ok"
  <2>1. Reject \/ \E m : Done(m)
    BY DEF Next, CreateDenom, Mint, Burn, ForceTransfer, ChangeAdmin, SetDenomMetadata,
           BankSend, SetParams, Restart
  <2> QED
    BY <2>1, TxOf
<1>2. ASSUME NEW m \in BurnMsgs, ~BurnOk(m), Failed(m) PROVE ServesAdmin
  <2>1. m.type = "burn" /\ tx'.msg = m
    BY <1>2, TxOf DEF BurnMsgs
  <2> QED
    BY <1>2, <2>1, BurnIsServed DEF ServesAdmin, IsAddress
<1>3. ASSUME NEW m \in ForceTransferMsgs, ~ForceTransferOk(m), Failed(m) PROVE ServesAdmin
  <2>1. m.type = "force_transfer" /\ tx'.msg = m
    BY <1>3, TxOf DEF ForceTransferMsgs
  <2> QED
    BY <1>3, <2>1, ForceTransferIsServed DEF ServesAdmin, IsAddress
<1>4. ASSUME NEW m \in ChangeAdminMsgs, ~ChangeAdminOk(m), Failed(m) PROVE ServesAdmin
  <2>1. m.type = "change_admin" /\ tx'.msg = m
    BY <1>4, TxOf DEF ChangeAdminMsgs
  <2> QED
    BY <1>4, <2>1, ChangeAdminIsServed DEF ServesAdmin, IsAddress
<1>5. ASSUME NEW m, m.type \notin {"burn", "force_transfer", "change_admin"}, Failed(m)
      PROVE  ServesAdmin
  BY <1>5, TxOf DEF ServesAdmin
<1>6. CASE Reject
  BY <1>2, <1>3, <1>4, <1>5, <1>6
     DEF Reject, CreateDenomMsgs, MintMsgs, SetDenomMetadataMsgs, BankSendMsgs
<1>7. CASE ~Reject
  BY <1>1, <1>7 DEF ServesAdmin
<1> QED
  BY <1>6, <1>7

\* Neither the supply nor the largest integer gets in an admin's way.
THEOREM AdminAlwaysServed == Spec => AdminIsServed
<1>1. CoinInv /\ [Next]_vars => [ServesAdmin]_vars
  BY NextServesAdmin
<1> QED
  BY <1>1, CoinsInvariant, PTL DEF Spec, AdminIsServed

-----------------------------------------------------------------------------
(* The generators of the simulator.                                         *)

\* A denom that a generator finds has a record, and an admin with an address.
LEMMA ChosenDenom ==
  ASSUME TypeOK, RegistryConsistent, NEW c \in getTokenFactoryDenomAndItsAdmin
  PROVE  /\ c.denom \in FactoryDenoms /\ c.denom \in Denoms
         /\ authority[c.denom] \in AddrStrings
         /\ Admin(c.denom) = authority[c.denom]
         /\ c.addr = AccOf[authority[c.denom]] /\ c.addr \in Accounts
         /\ c.acc \in Accs
<1>1. PICK a \in Creating :
        \E d \in {e \in gatherAllKeysFromStore(a) : IsAddress(Admin(e))} :
          c = [acc |-> a, denom |-> d, addr |-> AccOf[Admin(d)]]
  BY DEF getTokenFactoryDenomAndItsAdmin
<1>2. PICK d \in gatherAllKeysFromStore(a) :
        IsAddress(Admin(d)) /\ c = [acc |-> a, denom |-> d, addr |-> AccOf[Admin(d)]]
  BY <1>1
<1>3. d \in FactoryDenoms
  <2>1. PICK x \in creators : d = x[2]
    BY <1>2 DEF gatherAllKeysFromStore
  <2> QED
    BY <2>1 DEF TypeOK
<1>4. d \in Denoms /\ authority[d] \in AddrStrings /\ Admin(d) = authority[d]
  BY <1>2, <1>3, AddressAssumption DEF Denoms, Admin, IsAddress
<1>5. AccOf[authority[d]] \in Accounts /\ a \in Accs
  BY <1>4, AddressAssumption DEF Creating
<1> QED
  BY <1>2, <1>3, <1>4, <1>5

\* A chosen account can pay the fee it was chosen for: the coins fit into the
\* pool's account because payer and pool together hold no more than there are.
LEMMA CreatePasses ==
  ASSUME CoinInv, NEW t \in SimulateMsgCreateDenom, validateCreateDenom(t.msg)
  PROVE  CreateDenomOk(t.msg)
<1> USE DEF CoinInv, IInv
<1> DEFINE Payers  == {b \in RandomSimAccountWithMinCoins : StringOf[b] \in Creators}
           Made(a, s) == SignedBy(a, [type |-> "create_denom", sender |-> StringOf[a],
                                      subdenom |-> s])
<1>1. PICK a \in Payers, s \in LongestSubdenoms : t = Made(a, s)
  <2>1. SimulateMsgCreateDenom = {Made(a, s) : a \in Payers, s \in LongestSubdenoms}
    BY DEF SimulateMsgCreateDenom
  <2> HIDE DEF Payers, Made
  <2> QED
    BY <2>1
<1>2. t.msg.sender = StringOf[a] /\ t.msg.subdenom = s
  BY <1>1 DEF SignedBy
<1>3. a \in Users /\ a \in Accounts /\ DistributionModule \in Accounts
  BY SimulationAssumption, ConstantsAssumption DEF RandomSimAccountWithMinCoins, ModuleAccounts
<1>4. StringOf[a] \in AddrStrings /\ AccOf[StringOf[a]] = a
  BY <1>3, AddressAssumption
<1>5. CanPayFee(a)
  <2> SUFFICES ASSUME NEW n \in NativeDenoms
               PROVE  CanSend(balances[n], a, DistributionModule, creationFee[n])
    BY DEF CanPayFee
  <2>1. n \in Denoms /\ creationFee[n] \in Nat
    BY MaxIntAssumption DEF Denoms, TypeOK, Amount
  <2>2. balances[n][a] >= creationFee[n]
    BY DEF RandomSimAccountWithMinCoins
  <2> QED
    BY <1>3, <2>1, <2>2, HeldCanBeSent
<1>6. s \in ValidSubdenoms
  BY SimulationAssumption
<1> QED
  BY <1>2, <1>3, <1>4, <1>5, <1>6 DEF CreateDenomOk, Signed, ValidCreateDenom, IsAddress

\* What signing by the sender tells of a message about a chosen denom.
LEMMA DeliverableSender ==
  ASSUME TypeOK, RegistryConsistent, NEW c \in getTokenFactoryDenomAndItsAdmin,
         NEW m, m.sender = StringOf[c.addr], m.denom = c.denom,
         Deliverable(SignedBy(c.acc, m))
  PROVE  /\ m.sender = authority[m.denom] /\ m.sender \in AddrStrings
         /\ AccOf[m.sender] \in Users /\ AccOf[m.sender] = c.addr
         /\ Signed(m)
<1>1. c.acc = AccOf[m.sender] /\ Admin(m.denom) = Canonical(Admin(m.denom))
  BY DEF Deliverable, SignedBy
<1>2. /\ Admin(m.denom) = authority[m.denom] /\ authority[m.denom] \in AddrStrings
      /\ c.addr = AccOf[authority[m.denom]] /\ c.addr \in Accounts /\ c.acc \in Users
  BY ChosenDenom, SimulationAssumption
<1>3. m.sender = authority[m.denom]
  BY <1>1, <1>2 DEF Canonical
<1> QED
  BY <1>1, <1>2, <1>3 DEF Signed, IsAddress

\* A generated mint within the largest integer passes.
LEMMA MintPasses ==
  ASSUME CoinInv, NEW t \in SimulateMsgMintDenom, Deliverable(t),
         supply[t.msg.denom] + t.msg.amount <= MaxInt
  PROVE  MintOk(t.msg)
<1> USE DEF CoinInv, IInv
<1>1. PICK c \in getTokenFactoryDenomAndItsAdmin, n \in RandPositiveInt(MintLimit) :
        t = SignedBy(c.acc, [type |-> "mint", sender |-> StringOf[c.addr], denom |-> c.denom,
                             amount |-> n, to |-> Empty])
  BY DEF SimulateMsgMintDenom
<1> DEFINE m == t.msg
<1>2. m.sender = StringOf[c.addr] /\ m.denom = c.denom /\ m.amount = n /\ m.to = Empty
  BY <1>1 DEF SignedBy
<1>3. t = SignedBy(c.acc, m)
  BY <1>1 DEF SignedBy
<1> HIDE DEF m
<1>4. /\ m.sender = authority[m.denom] /\ m.sender \in AddrStrings
      /\ AccOf[m.sender] \in Users /\ Signed(m)
  BY <1>2, <1>3, DeliverableSender
<1>5. m.denom \in Denoms /\ n \in Nat /\ n > 0
  BY <1>2, ChosenDenom, SimulationAssumption DEF RandPositiveInt
<1>6. IsAdmin(m) /\ m.denom \in FactoryDenoms /\ HasMetadata(m.denom)
  BY <1>4, <1>5, AdminsDenom
<1> DEFINE to == AccOf[m.sender]
           purse == balances[m.denom]
<1>7. /\ to \in Accounts /\ to # TokenFactoryModule /\ ~Blocked(to)
      /\ TokenFactoryModule \in Accounts
  BY <1>4, ConstantsAssumption DEF Blocked, ModuleAccounts
<1>8. /\ supply[m.denom] \in Nat /\ supply[m.denom] + n <= MaxInt
      /\ purse[to] \in Nat /\ purse[to] <= supply[m.denom]
      /\ purse[TokenFactoryModule] \in Nat /\ purse[TokenFactoryModule] <= supply[m.denom]
  BY <1>2, <1>5, <1>7, HoldingsBounded DEF m
<1>9. CanMintCoins(purse, supply[m.denom], TokenFactoryModule, n)
  BY <1>5, <1>8, MaxIntAssumption DEF CanMintCoins
<1>10. CanSend(Credit(purse, TokenFactoryModule, n), TokenFactoryModule, to, n)
  <2> DEFINE minted == Credit(purse, TokenFactoryModule, n)
  <2>1. /\ minted[TokenFactoryModule] = purse[TokenFactoryModule] + n
        /\ Debit(minted, TokenFactoryModule, n)[to] = purse[to]
    BY <1>5, <1>7 DEF Credit, Debit, TypeOK
  <2> HIDE DEF purse, to
  <2> QED
    BY <1>5, <1>8, <2>1, MaxIntAssumption DEF CanSend
<1>11. OrSender(m.to, m) = m.sender
  BY <1>2 DEF OrSender
<1>12. ValidMint(m) /\ IsFactoryDenom(m.denom)
  BY <1>2, <1>4, <1>5, <1>6 DEF ValidMint, IsFactoryDenom, IsAddress
<1>13. MintOk(m)
  BY <1>2, <1>4, <1>6, <1>7, <1>9, <1>10, <1>11, <1>12 DEF MintOk, IsAddress
<1> QED
  BY <1>13 DEF m

\* A generated burn passes: the admin burns what it holds.
LEMMA BurnPasses ==
  ASSUME CoinInv, NEW t \in SimulateMsgBurnDenom, Deliverable(t)
  PROVE  BurnOk(t.msg)
<1>0. t \in SimulateMsgBurnDenom
  OBVIOUS
<1> USE DEF CoinInv, IInv
<1>1. PICK c \in getTokenFactoryDenomAndItsAdmin :
        \E n \in RandPositiveInt(balances[c.denom][c.addr]) :
          t = SignedBy(c.acc, [type |-> "burn", sender |-> StringOf[c.addr],
                               denom |-> c.denom, amount |-> n, from |-> Empty])
  BY ONLY <1>0 DEF SimulateMsgBurnDenom
<1>1a. PICK n \in RandPositiveInt(balances[c.denom][c.addr]) :
          t = SignedBy(c.acc, [type |-> "burn", sender |-> StringOf[c.addr],
                               denom |-> c.denom, amount |-> n, from |-> Empty])
  BY <1>1
<1> DEFINE m == t.msg
<1>2. m.sender = StringOf[c.addr] /\ m.denom = c.denom /\ m.amount = n /\ m.from = Empty
  BY <1>1a DEF SignedBy
<1>3. t = SignedBy(c.acc, m)
  BY <1>1a DEF SignedBy
<1> HIDE DEF m
<1>4. /\ m.sender = authority[m.denom] /\ m.sender \in AddrStrings
      /\ AccOf[m.sender] \in Users /\ AccOf[m.sender] = c.addr /\ Signed(m)
  BY <1>2, <1>3, DeliverableSender
<1>5. m.denom \in Denoms
  BY <1>2, ChosenDenom
<1>6. IsAdmin(m) /\ m.denom \in FactoryDenoms
  BY <1>4, <1>5, AdminsDenom
<1> DEFINE from == AccOf[m.sender]
<1>7. from \in Accounts \ {TokenFactoryModule} /\ m.sender \notin ModuleAccounts
  BY <1>4, ConstantsAssumption, AddressAssumption DEF ModuleAccounts
<1>8. n \in Nat /\ n > 0 /\ balances[m.denom][from] >= n
  <2>1. balances[m.denom][from] \in Nat
    BY <1>5, <1>7, HoldingsBounded
  <2> QED
    BY <1>2, <1>4, <2>1 DEF RandPositiveInt
<1>9. /\ CanSend(balances[m.denom], from, TokenFactoryModule, n)
      /\ CanBurnCoins(Send(balances[m.denom], from, TokenFactoryModule, n), supply[m.denom],
                      TokenFactoryModule, n)
  <2> HIDE DEF from
  <2> QED
    BY <1>5, <1>7, <1>8, HeldCanBeBurnt
<1>10. OrSender(m.from, m) = m.sender
  BY <1>2 DEF OrSender
<1>11. BurnOk(m)
  BY <1>2, <1>4, <1>6, <1>7, <1>8, <1>9, <1>10
     DEF BurnOk, ValidBurn, IsFactoryDenom, IsModuleAccount, IsAddress
<1> QED
  BY <1>11 DEF m

\* So does a generated change of admin, to another simulated account.
LEMMA ChangeAdminPasses ==
  ASSUME CoinInv, NEW t \in SimulateMsgChangeAdmin, Deliverable(t)
  PROVE  ChangeAdminOk(t.msg)
<1> USE DEF CoinInv, IInv
<1>1. PICK c \in getTokenFactoryDenomAndItsAdmin :
        \E a \in Accs \ {c.addr} :
          t = SignedBy(c.acc, [type |-> "change_admin", sender |-> StringOf[c.addr],
                               denom |-> c.denom, newAdmin |-> StringOf[a]])
  BY DEF SimulateMsgChangeAdmin
<1>1a. PICK a \in Accs \ {c.addr} :
          t = SignedBy(c.acc, [type |-> "change_admin", sender |-> StringOf[c.addr],
                               denom |-> c.denom, newAdmin |-> StringOf[a]])
  BY <1>1
<1> DEFINE m == t.msg
<1>2. m.sender = StringOf[c.addr] /\ m.denom = c.denom /\ m.newAdmin = StringOf[a]
  BY <1>1a DEF SignedBy
<1>3. t = SignedBy(c.acc, m)
  BY <1>1a DEF SignedBy
<1> HIDE DEF m
<1>4. m.sender = authority[m.denom] /\ m.sender \in AddrStrings /\ Signed(m)
  BY <1>2, <1>3, DeliverableSender
<1>5. m.denom \in Denoms
  BY <1>2, ChosenDenom
<1>6. IsAdmin(m) /\ m.denom \in FactoryDenoms
  BY <1>4, <1>5, AdminsDenom
<1>7. m.newAdmin \in AddrStrings
  BY <1>2, SimulationAssumption, ConstantsAssumption, AddressAssumption
<1>8. ChangeAdminOk(m)
  BY <1>4, <1>6, <1>7 DEF ChangeAdminOk, ValidChangeAdmin, ValidAdmin, IsFactoryDenom, IsAddress
<1> QED
  BY <1>8 DEF m

\* Every message that the simulator signs with its sender's key passes its
\* handler, so that no random run stops at one of this module.
THEOREM GeneratedMessagesPass == Spec => []SignedMessagesPass
<1>1. CoinInv => SignedMessagesPass
  BY CreatePasses, MintPasses, BurnPasses, ChangeAdminPasses DEF SignedMessagesPass
<1> QED
  BY <1>1, CoinsInvariant, PTL

-----------------------------------------------------------------------------
(* The refinement: TokenFactory implements TokenLedger.                     *)

Owners == [d \in Denoms |-> OwnerOf(d)]

\* Coins of a denom without a record do not exist: the first genesis gives out
\* none, and minting asks for an admin.
UnissuedAreEmpty == \A d \in FactoryDenoms : authority[d] = NoRecord => supply[d] = 0

\* What the refinement needs beyond CoinInv.
LedgerInv == CoinInv /\ UnissuedAreEmpty /\ creationFee \in Fees

\* A genesis lists the denoms it gives coins of.
LEMMA InitUnissued == Init => UnissuedAreEmpty
<1> SUFFICES ASSUME Init, NEW d \in FactoryDenoms, authority[d] = NoRecord
             PROVE  supply[d] = 0
  BY DEF UnissuedAreEmpty
<1>1. PICK listed \in SUBSET GenesisDenoms, metadata \in GenesisMetadata :
        /\ CoinsAreListed(listed)
        /\ \E gs \in [listed -> AddrStrings \cup {Empty}] : InitGenesis(gs, metadata)
  BY ValidAdmins DEF Init
<1>2. PICK gs \in [listed -> AddrStrings \cup {Empty}] : InitGenesis(gs, metadata)
  BY <1>1
<1>3. d \notin listed
  <2>1. authority = GenesisAuthority(gs) /\ d \in Denoms
    BY <1>2 DEF InitGenesis, Denoms
  <2>2. NoRecord \notin AddrStrings \cup {Empty}
    BY ConstantsAssumption DEF Strings
  <2> QED
    BY <1>2, <2>1, <2>2 DEF GenesisAuthority
<1> QED
  BY <1>1, <1>3 DEF CoinsAreListed

\* Only a mint makes coins, and it asks for a record; no step takes a record away.
LEMMA NextUnissued == IInv /\ UnissuedAreEmpty /\ [Next]_vars => UnissuedAreEmpty'
<1> SUFFICES ASSUME IInv, UnissuedAreEmpty, [Next]_vars PROVE UnissuedAreEmpty'
  OBVIOUS
<1> USE DEF IInv
<1>1. ASSUME NEW m \in CreateDenomMsgs, CreateDenom(m) PROVE UnissuedAreEmpty'
  <2> DEFINE denom == <<m.sender, m.subdenom>>
  <2>1. m.sender # NoRecord
    BY <1>1, ConstantsAssumption DEF CreateDenom, CreateDenomOk, ValidCreateDenom, IsAddress, Strings
  <2>2. authority' = [authority EXCEPT ![denom] = m.sender] /\ supply' = supply
    BY <1>1 DEF CreateDenom
  <2> HIDE DEF denom
  <2>3. \A d \in Denoms : authority'[d] = NoRecord => authority[d] = NoRecord
    BY <2>1, <2>2 DEF TypeOK
  <2> QED
    BY <2>2, <2>3 DEF UnissuedAreEmpty, Denoms
<1>2. ASSUME NEW m, Signed(m), IsAdmin(m),
             \A d \in Denoms \ {m.denom} : supply'[d] = supply[d],
             authority' = authority
      PROVE  UnissuedAreEmpty'
  BY <1>2, AdminHasRecord DEF UnissuedAreEmpty, Denoms
<1>3. ASSUME NEW m \in MintMsgs, Mint(m) PROVE UnissuedAreEmpty'
  BY <1>2, <1>3 DEF Mint, MintOk, TypeOK
<1>4. ASSUME NEW m \in BurnMsgs, Burn(m) PROVE UnissuedAreEmpty'
  BY <1>2, <1>4 DEF Burn, BurnOk, TypeOK
<1>5. ASSUME NEW m \in ChangeAdminMsgs, ChangeAdmin(m) PROVE UnissuedAreEmpty'
  <2>1. m.newAdmin # NoRecord
    BY <1>5, ConstantsAssumption DEF ChangeAdmin, ChangeAdminOk, ValidChangeAdmin, IsAddress, Strings
  <2>2. authority' = [authority EXCEPT ![m.denom] = m.newAdmin] /\ supply' = supply
    BY <1>5 DEF ChangeAdmin
  <2>3. \A d \in Denoms : authority'[d] = NoRecord => authority[d] = NoRecord
    BY <2>1, <2>2 DEF TypeOK
  <2> QED
    BY <2>2, <2>3 DEF UnissuedAreEmpty, Denoms
<1>6. CASE Restart
  BY <1>6, RestartKeepsRecords DEF Restart, UnissuedAreEmpty
<1>7. CASE UNCHANGED <<authority, supply>>
  BY <1>7 DEF UnissuedAreEmpty
<1> QED
  BY <1>1, <1>3, <1>4, <1>5, <1>6, <1>7
     DEF Next, ForceTransfer, SetDenomMetadata, BankSend, SetParams, Reject, state, vars

\* Governance sets the creation fee to one of the fees it may set.
LEMMA FeeIsAllowed == creationFee \in Fees /\ [Next]_vars => creationFee' \in Fees
<1> SUFFICES ASSUME creationFee \in Fees, [Next]_vars PROVE creationFee' \in Fees
  OBVIOUS
<1>1. creationFee' = creationFee \/ \E fee \in Fees : SetParams(fee)
  BY DEF Next, CreateDenom, Mint, Burn, ForceTransfer, ChangeAdmin, SetDenomMetadata,
         BankSend, Reject, Restart, state, vars
<1> QED
  BY <1>1 DEF SetParams

\* The invariant of the refinement holds in every reachable state.
LEMMA LedgerInvariant == Spec => []LedgerInv
<1> DEFINE Others == UnissuedAreEmpty /\ creationFee \in Fees
<1>1. Init => Others
  BY InitUnissued DEF Init
<1>2. IInv /\ Others /\ [Next]_vars => Others'
  BY NextUnissued, FeeIsAllowed
<1>3. CoinInv /\ Others => LedgerInv
  BY DEF LedgerInv
<1> HIDE DEF Others
<1> QED
  BY <1>1, <1>2, <1>3, Inductive, CoinsInvariant, PTL DEF Spec

-----------------------------------------------------------------------------
(* Who acts, and who owns.                                                  *)

\* The actor of a step is the account that signed.
LEMMA ActorIsSigner ==
  ASSUME NEW m \in Messages, Signed(m), Done(m)
  PROVE  ActorOf(tx)' = AccOf[m.sender] /\ AccOf[m.sender] \in Accounts
<1>1. tx'.msg = m /\ m \notin {Governance, Upgrade}
  BY TxOf, MessageIsUserTx
<1>2. IsAddress(m.sender) /\ AccOf[m.sender] \in Accounts
  BY AddressAssumption DEF Signed, IsAddress
<1> QED
  BY <1>1, <1>2 DEF ActorOf

\* The admin of a denom is its owner.
LEMMA AdminIsOwner ==
  ASSUME NEW m, Signed(m), IsAdmin(m), m.denom \in FactoryDenoms
  PROVE  OwnerOf(m.denom) = AccOf[m.sender]
<1>1. m.sender = authority[m.denom] /\ authority[m.denom] # NoRecord
  BY AdminHasRecord
<1>2. authority[m.denom] # Empty /\ m.denom \notin NativeDenoms
  BY <1>1, AddressAssumption, ConstantsAssumption DEF Signed, IsAddress
<1> QED
  BY <1>1, <1>2 DEF OwnerOf

\* Owners change only with the records.
LEMMA OwnersKept == authority' = authority => Owners' = Owners
BY DEF Owners, OwnerOf

-----------------------------------------------------------------------------
(* Each step is a step of the ledger.                                       *)

\* A genesis of the module is a beginning of the ledger.
LEMMA InitIsLInit == Init /\ LedgerInv => Ledger!LInit
<1> SUFFICES ASSUME LedgerInv PROVE Ledger!LInit
  OBVIOUS
<1> USE DEF LedgerInv, CoinInv, IInv
<1>1. ASSUME NEW d \in NativeDenoms PROVE Owners[d] = "nobody"
  BY DEF Owners, OwnerOf, Denoms
<1>2. ASSUME NEW d \in FactoryDenoms, Owners[d] = "unissued" PROVE supply[d] = 0
  <2>1. d \in Denoms /\ d \notin NativeDenoms
    BY ConstantsAssumption DEF Denoms
  <2>2. Owners[d] = OwnerOf(d)
    BY <2>1 DEF Owners
  <2>3. authority[d] \in AddrStrings \cup {Empty, NoRecord}
    BY <2>1 DEF TypeOK
  <2>4. authority[d] = NoRecord
    BY <1>2, <2>1, <2>2, <2>3, OwnersAssumption, AddressAssumption DEF OwnerOf
  <2> QED
    BY <2>4 DEF UnissuedAreEmpty
<1>3. ASSUME NEW d \in Denoms, NEW a \in Accounts PROVE balances[d][a] \in 0 .. supply[d]
  <2>1. supply[d] \in Nat /\ balances[d][a] \in Nat /\ balances[d][a] <= supply[d]
    BY HoldingsBounded
  <2> QED
    BY <2>1
<1> QED
  BY <1>1, <1>2, <1>3 DEF Ledger!LInit, Ledger!Denoms, Owners, Denoms

\* A creation makes the creator the owner of a denom without coins, at one of
\* the prices, which go to the pool.
LEMMA CreateDenomIsCreate ==
  ASSUME LedgerInv, NEW m \in CreateDenomMsgs, CreateDenom(m)
  PROVE  Ledger!LNext
<1> USE DEF LedgerInv, CoinInv, IInv
<1> DEFINE d == <<m.sender, m.subdenom>>
           u == AccOf[m.sender]
<1>1. m \in Messages /\ Signed(m) /\ Done(m) /\ CreateDenomOk(m) /\ m.sender \in AddrStrings
  BY DEF Messages, CreateDenom, CreateDenomOk, ValidCreateDenom, IsAddress
<1>2. ActorOf(tx)' = u /\ u \in Accounts
  BY <1>1, ActorIsSigner
<1>3. d \in FactoryDenoms /\ d \in Denoms /\ d \notin NativeDenoms /\ authority[d] = NoRecord
  BY <1>1, FreshDenom, ConstantsAssumption
<1>4. supply[d] = 0 /\ UNCHANGED supply
  BY <1>3 DEF UnissuedAreEmpty, CreateDenom
<1>5. Owners[d] = "unissued"
  BY <1>3 DEF Owners, OwnerOf
<1>6. authority' = [authority EXCEPT ![d] = m.sender]
  BY DEF CreateDenom
<1>7. Owners' = [Owners EXCEPT ![d] = u]
  <2>1. m.sender # NoRecord /\ m.sender # Empty
    BY <1>1, AddressAssumption, ConstantsAssumption DEF Strings
  <2>2. authority'[d] = m.sender /\ \A e \in Denoms \ {d} : authority'[e] = authority[e]
    BY <1>3, <1>6 DEF TypeOK
  <2> HIDE DEF d
  <2>3. OwnerOf(d)' = u /\ \A e \in Denoms \ {d} : OwnerOf(e)' = OwnerOf(e)
    BY <1>3, <2>1, <2>2 DEF OwnerOf
  <2> QED
    BY <1>3, <2>3 DEF Owners
<1>8. balances' = [e \in Denoms |->
                     IF e \in NativeDenoms
                     THEN Ledger!Moved(balances[e], u, DistributionModule, creationFee[e])
                     ELSE balances[e]]
  <2>1. balances' = [e \in Denoms |->
                       IF e \in NativeDenoms
                       THEN Send(balances[e], u, DistributionModule, creationFee[e])
                       ELSE balances[e]]
    BY DEF CreateDenom, chargeForCreateDenom
  <2>2. ASSUME NEW e \in NativeDenoms
        PROVE  Send(balances[e], u, DistributionModule, creationFee[e])
                 = Ledger!Moved(balances[e], u, DistributionModule, creationFee[e])
    <3>1. e \in Denoms /\ creationFee[e] \in Amount /\ DistributionModule \in Accounts
      BY ConstantsAssumption DEF Denoms, TypeOK, ModuleAccounts
    <3>2. balances[e] \in [Accounts -> Int] /\ creationFee[e] \in Int
      BY <3>1, PurseOfInts
    <3> HIDE DEF u
    <3> QED
      BY <1>2, <3>1, <3>2, SendIsMove
  <2> HIDE DEF u
  <2> QED
    BY <2>1, <2>2
<1>9. Ledger!Create(u, d)
  <2> HIDE DEF u, d
  <2> QED
    BY <1>4, <1>5, <1>7, <1>8 DEF Ledger!Create, Ledger!Denoms, Owners, Denoms
<1> QED
  <2> HIDE DEF u, d
  <2> QED
    BY <1>2, <1>3, <1>9 DEF Ledger!LNext

\* A step of the owner of a denom.
LEMMA OwnersStep ==
  ASSUME NEW m \in Messages, Signed(m), Done(m), IsAdmin(m), m.denom \in FactoryDenoms,
         NEW a \in Accounts,
         \/ Ledger!Issue(m.denom, a)
         \/ Ledger!Retire(m.denom, a)
         \/ Ledger!HandOver(m.denom, a)
         \/ \E to \in Accounts : Ledger!Move(m.denom, a, to)
  PROVE  Ledger!LNext
<1>1. ActorOf(tx)' = AccOf[m.sender] /\ AccOf[m.sender] \in Accounts
  BY ActorIsSigner
<1>2. OwnerOf(m.denom) = AccOf[m.sender]
  BY AdminIsOwner
<1>3. [d \in Denoms |-> OwnerOf(d)][m.denom] = OwnerOf(m.denom)
  BY DEF Denoms
<1>4. Ledger!OwnDenom(AccOf[m.sender], m.denom)
  BY <1>2, <1>3 DEF Ledger!OwnDenom
<1> QED
  BY <1>1, <1>4 DEF Ledger!LNext

\* A mint issues coins of the sender's own denom.
LEMMA MintStep ==
  ASSUME LedgerInv, NEW m \in MintMsgs, Mint(m)
  PROVE  Ledger!LNext
<1> USE DEF LedgerInv, CoinInv, IInv
<1> DEFINE d == m.denom
           to == AccOf[OrSender(m.to, m)]
           n == m.amount
<1>1. /\ m \in Messages /\ Signed(m) /\ Done(m) /\ IsAdmin(m) /\ d \in FactoryDenoms
      /\ n > 0 /\ to \in Accounts
  BY AddressAssumption DEF Messages, Mint, MintOk, ValidMint, IsFactoryDenom, IsAddress
<1>2. d \in Denoms /\ n \in Nat
  BY AmountsAreNat DEF MintMsgs
<1>3. balances[d] \in [Accounts -> Int] /\ supply[d] \in Nat
  BY <1>2, PurseOfInts, HoldingsBounded
<1>4. mintTo(balances[d], n, to) = Credit(balances[d], to, n)
  <2> HIDE DEF to
  <2> QED
    BY <1>1, <1>2, <1>3, MintIsCredit
<1>5. /\ balances' = [balances EXCEPT ![d] = mintTo(balances[d], n, to)]
      /\ supply' = [supply EXCEPT ![d] = @ + n]
      /\ authority' = authority
  BY DEF Mint
<1> HIDE DEF to
<1>6. balances' = [balances EXCEPT ![d][to] = @ + n]
  BY <1>4, <1>5 DEF Credit
<1>7. supply'[d] = supply[d] + n
  BY <1>2, <1>5 DEF TypeOK
<1>8. n \in 1 .. supply'[d]
  BY <1>1, <1>2, <1>3, <1>7
<1>9. Ledger!Issue(d, to)
  BY <1>5, <1>6, <1>8, OwnersKept DEF Ledger!Issue, Owners
<1> QED
  BY <1>1, <1>9, OwnersStep

\* A burn retires coins of the sender's own denom.
LEMMA BurnStep ==
  ASSUME LedgerInv, NEW m \in BurnMsgs, Burn(m)
  PROVE  Ledger!LNext
<1> USE DEF LedgerInv, CoinInv, IInv
<1> DEFINE d == m.denom
           from == AccOf[OrSender(m.from, m)]
           n == m.amount
<1>1. /\ m \in Messages /\ Signed(m) /\ Done(m) /\ IsAdmin(m) /\ d \in FactoryDenoms
      /\ n > 0 /\ from \in Accounts /\ balances[d][from] >= n
  BY AddressAssumption DEF Messages, Burn, BurnOk, ValidBurn, IsFactoryDenom, IsAddress, CanSend
<1>2. d \in Denoms /\ n \in Nat
  BY AmountsAreNat DEF BurnMsgs
<1>3. balances[d] \in [Accounts -> Int]
  BY <1>2, PurseOfInts
<1>4. burnFrom(balances[d], n, from) = Debit(balances[d], from, n)
  <2> HIDE DEF from
  <2> QED
    BY <1>1, <1>2, <1>3, BurnIsDebit
<1>5. /\ balances' = [balances EXCEPT ![d] = burnFrom(balances[d], n, from)]
      /\ supply' = [supply EXCEPT ![d] = @ - n]
      /\ authority' = authority
  BY DEF Burn
<1> HIDE DEF from
<1>6. balances' = [balances EXCEPT ![d][from] = @ - n]
  BY <1>4, <1>5 DEF Debit
<1>7. n \in 1 .. balances[d][from]
  BY <1>1, <1>2, <1>3
<1>8. Ledger!Retire(d, from)
  BY <1>5, <1>6, <1>7, OwnersKept DEF Ledger!Retire, Owners
<1> QED
  BY <1>1, <1>8, OwnersStep

\* SendCoins between two accounts of one denom is a move of it.
LEMMA MoveOfSend ==
  ASSUME TypeOK, NEW d \in Denoms, NEW from \in Accounts, NEW to \in Accounts, NEW n \in Nat,
         balances[d][from] >= n,
         balances' = [balances EXCEPT ![d] = Send(balances[d], from, to, n)],
         UNCHANGED <<supply, authority>>
  PROVE  Ledger!Move(d, from, to)
<1>1. balances[d] \in [Accounts -> Int]
  BY PurseOfInts
<1>2. Send(balances[d], from, to, n) = Ledger!Moved(balances[d], from, to, n)
  BY <1>1, SendIsMove
<1>3. n \in 0 .. balances[d][from]
  BY <1>1
<1>4. balances' = [balances EXCEPT ![d] = Ledger!Moved(@, from, to, n)]
  BY <1>2
<1> QED
  BY <1>3, <1>4, OwnersKept DEF Ledger!Move, Owners

\* A forced transfer moves coins of the sender's own denom.
LEMMA ForceTransferStep ==
  ASSUME LedgerInv, NEW m \in ForceTransferMsgs, ForceTransfer(m)
  PROVE  Ledger!LNext
<1> USE DEF LedgerInv, CoinInv, IInv
<1>1. /\ m \in Messages /\ Signed(m) /\ Done(m) /\ IsAdmin(m) /\ m.denom \in FactoryDenoms
      /\ AccOf[m.from] \in Accounts /\ AccOf[m.to] \in Accounts
      /\ balances[m.denom][AccOf[m.from]] >= m.amount
  BY AddressAssumption DEF Messages, ForceTransfer, ForceTransferOk, ValidForceTransfer,
     IsFactoryDenom, IsAddress, CanSend
<1>2. m.denom \in Denoms /\ m.amount \in Nat
  BY AmountsAreNat DEF ForceTransferMsgs
<1>3. Ledger!Move(m.denom, AccOf[m.from], AccOf[m.to])
  BY <1>1, <1>2, MoveOfSend DEF ForceTransfer, forceTransfer
<1> QED
  BY <1>1, <1>3, OwnersStep

\* A change of admin hands the sender's own denom over.
LEMMA ChangeAdminStep ==
  ASSUME LedgerInv, NEW m \in ChangeAdminMsgs, ChangeAdmin(m)
  PROVE  Ledger!LNext
<1> USE DEF LedgerInv, CoinInv, IInv
<1> DEFINE d == m.denom
           new == AccOf[m.newAdmin]
<1>1. /\ m \in Messages /\ Signed(m) /\ Done(m) /\ IsAdmin(m) /\ d \in FactoryDenoms
      /\ m.newAdmin \in AddrStrings /\ new \in Accounts
  BY AddressAssumption DEF Messages, ChangeAdmin, ChangeAdminOk, ValidChangeAdmin,
     IsFactoryDenom, IsAddress
<1>2. d \in Denoms /\ d \notin NativeDenoms
  BY <1>1, ConstantsAssumption DEF Denoms
<1>3. authority' = [authority EXCEPT ![d] = m.newAdmin] /\ UNCHANGED <<balances, supply>>
  BY DEF ChangeAdmin
<1>4. Owners' = [Owners EXCEPT ![d] = new]
  <2>1. m.newAdmin # NoRecord /\ m.newAdmin # Empty
    BY <1>1, AddressAssumption, ConstantsAssumption DEF Strings
  <2>2. authority'[d] = m.newAdmin /\ \A e \in Denoms \ {d} : authority'[e] = authority[e]
    BY <1>2, <1>3 DEF TypeOK
  <2> HIDE DEF d
  <2>3. OwnerOf(d)' = new /\ \A e \in Denoms \ {d} : OwnerOf(e)' = OwnerOf(e)
    BY <1>2, <2>1, <2>2 DEF OwnerOf
  <2> QED
    BY <1>2, <2>3 DEF Owners
<1>5. Ledger!HandOver(d, new)
  <2> HIDE DEF d, new
  <2> QED
    BY <1>3, <1>4 DEF Ledger!HandOver, Owners
<1> QED
  <2> HIDE DEF new
  <2> QED
    BY <1>1, <1>5, OwnersStep

\* A bank send moves the sender's own coins.
LEMMA BankSendStep ==
  ASSUME LedgerInv, NEW m \in BankSendMsgs, BankSend(m)
  PROVE  Ledger!LNext
<1> USE DEF LedgerInv, CoinInv, IInv
<1>1. /\ m \in Messages /\ Signed(m) /\ Done(m)
      /\ AccOf[m.sender] \in Accounts /\ AccOf[m.to] \in Accounts
      /\ balances[m.denom][AccOf[m.sender]] >= m.amount
  BY AddressAssumption DEF Messages, BankSend, BankSendOk, Signed, IsAddress, CanSend
<1>2. m.denom \in Denoms /\ m.amount \in Nat
  BY AmountsAreNat DEF BankSendMsgs
<1>3. Ledger!Move(m.denom, AccOf[m.sender], AccOf[m.to])
  BY <1>1, <1>2, MoveOfSend DEF BankSend
<1>4. ActorOf(tx)' = AccOf[m.sender]
  BY <1>1, ActorIsSigner
<1>5. Ledger!OwnCoins(AccOf[m.sender], m.denom)
  BY <1>1, <1>3 DEF Ledger!OwnCoins
<1> QED
  BY <1>1, <1>2, <1>4, <1>5 DEF Ledger!LNext, Ledger!Denoms, Denoms

\* Every step of the module is a step of the ledger, or none.
LEMMA NextIsLNext == LedgerInv /\ [Next]_vars => [Ledger!LNext]_(Ledger!lvars)
<1> SUFFICES ASSUME LedgerInv, [Next]_vars PROVE Ledger!LNext
  OBVIOUS
<1>1. ASSUME UNCHANGED <<authority, balances, supply>> PROVE Ledger!LNext
  BY <1>1, OwnersKept DEF Ledger!LNext, Ledger!assets, Owners
<1>2. ASSUME NEW m \in SetDenomMetadataMsgs, SetDenomMetadata(m) PROVE Ledger!LNext
  BY <1>1, <1>2 DEF SetDenomMetadata
<1>3. ASSUME NEW fee \in Fees, SetParams(fee) PROVE Ledger!LNext
  BY <1>1, <1>3 DEF SetParams
<1>4. CASE Restart
  BY <1>1, <1>4, RestartKeepsRecords DEF Restart, LedgerInv, CoinInv, IInv
<1>5. CASE Reject \/ UNCHANGED vars
  BY <1>1, <1>5 DEF Reject, state, vars
<1> QED
  BY <1>2, <1>3, <1>4, <1>5, CreateDenomIsCreate, MintStep, BurnStep, ForceTransferStep,
     ChangeAdminStep, BankSendStep DEF Next

\* The module implements the ledger: what a step does to coins, supplies and
\* admins is what TokenLedger lets the account do that signed it.
THEOREM LedgerImplemented == Spec => ImplementsLedger
<1>1. Init /\ LedgerInv => Ledger!LInit
  BY InitIsLInit
<1>2. LedgerInv /\ [Next]_vars => [Ledger!LNext]_(Ledger!lvars)
  BY NextIsLNext
<1> QED
  BY <1>1, <1>2, LedgerInvariant, PTL DEF Spec, ImplementsLedger, Ledger!LSpec

-----------------------------------------------------------------------------
(* The commands of Client.                                                  *)

\* A denom created by command carries the canonical spelling of its creator,
\* and the index lists it under that very string.
Commanded ==
  \A d \in commanded :
    /\ d \in FactoryDenoms
    /\ Canonical(d[1]) = d[1]
    /\ <<d[1], d>> \in creators

CInv == IInv /\ Commanded

-----------------------------------------------------------------------------
(* A command is a step of the chain, or none.                               *)

\* What a command writes for an account that can sign is a string a message
\* may have as its sender, and its own canonical spelling.
LEMMA SenderLemma ==
  ASSUME NEW from \in Senders, Signed([sender |-> from])
  PROVE  /\ Sender(from) \in Senders
         /\ Sender(from) \in AddrStrings
         /\ Canonical(Sender(from)) = Sender(from)
         /\ from \in Creators => Sender(from) \in Creators
<1>1. from \in AddrStrings
  BY DEF Signed, IsAddress
<1>2. AccOf[from] \in Accounts
  BY <1>1
<1>3. /\ StringOf[AccOf[from]] \in AddrStrings
      /\ AccOf[StringOf[AccOf[from]]] = AccOf[from]
  BY <1>2
<1>4. Sender(from) \in Senders /\ (from \in Creators => Sender(from) \in Creators)
  BY ClientAssumption DEF Sender
<1> QED
  BY <1>3, <1>4 DEF Sender, Canonical

\* The create-denom command.
LEMMA CreateCommandSteps ==
  ASSUME NEW from \in Creators, NEW args \in TypedArgs(Subdenoms),
         NewCreateDenomCmd(from, args)
  PROVE  [Next]_vars
<1> DEFINE m == NewMsgCreateDenom(Sender(from), args[1])
<1>1. Signed([sender |-> from]) /\ Len(args) = 1
  BY DEF NewCreateDenomCmd, Runs
<1>2. args[1] \in Subdenoms
  BY <1>1 DEF TypedArgs
<1>3. Sender(from) \in Creators
  BY <1>1, SenderLemma
<1>4. m \in CreateDenomMsgs
  BY <1>2, <1>3 DEF CreateDenomMsgs, NewMsgCreateDenom
<1>5. CreateDenom(m) \/ Refused(m, ValidCreateDenom(m), CreateDenomOk(m))
  BY DEF NewCreateDenomCmd
<1> HIDE DEF m
<1>6. CASE CreateDenom(m)
  BY <1>4, <1>6 DEF Next
<1>7. CASE Refused(m, ValidCreateDenom(m), CreateDenomOk(m))
  BY <1>4, <1>7 DEF Refused, Next, Reject, vars
<1> QED
  BY <1>5, <1>6, <1>7

\* The amount of a typed coin is one a message may have.
LEMMA TypedCoinLemma ==
  ASSUME NEW args \in TypedArgs(TypedCoins), Len(args) = 1
  PROVE  /\ ParseCoinNormalized(args[1]).amount \in Amounts
         /\ ParseCoinNormalized(args[1]).denom \in Denoms
<1>1. args[1] \in TypedCoins
  BY DEF TypedArgs
<1>2. args[1].halves \in TypedHalves /\ args[1].denom \in Denoms
  BY <1>1 DEF TypedCoins
<1> QED
  BY <1>2, ClientAssumption DEF ParseCoinNormalized

\* The mint command.
LEMMA MintCommandSteps ==
  ASSUME NEW from \in Senders, NEW args \in TypedArgs(TypedCoins), NewMintCmd(from, args)
  PROVE  [Next]_vars
<1> DEFINE m == NewMsgMint(Sender(from), ParseCoinNormalized(args[1]))
<1>1. Signed([sender |-> from]) /\ Len(args) = 1
  BY DEF NewMintCmd, Runs
<1>2. m \in MintMsgs
  BY <1>1, SenderLemma, TypedCoinLemma DEF MintMsgs, NewMsgMint, Strings
<1>3. Mint(m) \/ Refused(m, ValidMint(m), MintOk(m))
  BY DEF NewMintCmd
<1> HIDE DEF m
<1>4. CASE Mint(m)
  BY <1>2, <1>4 DEF Next
<1>5. CASE Refused(m, ValidMint(m), MintOk(m))
  BY <1>2, <1>5 DEF Refused, Next, Reject, vars
<1> QED
  BY <1>3, <1>4, <1>5

\* The burn command.
LEMMA BurnCommandSteps ==
  ASSUME NEW from \in Senders, NEW args \in TypedArgs(TypedCoins), NewBurnCmd(from, args)
  PROVE  [Next]_vars
<1> DEFINE m == NewMsgBurn(Sender(from), ParseCoinNormalized(args[1]))
<1>1. Signed([sender |-> from]) /\ Len(args) = 1
  BY DEF NewBurnCmd, Runs
<1>2. m \in BurnMsgs
  BY <1>1, SenderLemma, TypedCoinLemma DEF BurnMsgs, NewMsgBurn, Strings
<1>3. Burn(m) \/ Refused(m, ValidBurn(m), BurnOk(m))
  BY DEF NewBurnCmd
<1> HIDE DEF m
<1>4. CASE Burn(m)
  BY <1>2, <1>4 DEF Next
<1>5. CASE Refused(m, ValidBurn(m), BurnOk(m))
  BY <1>2, <1>5 DEF Refused, Next, Reject, vars
<1> QED
  BY <1>3, <1>4, <1>5

\* The change-admin command runs on one word only, and then sends nothing.
LEMMA ChangeAdminCommandSteps ==
  ASSUME NEW from \in Senders, NEW args \in AdminArgs, NewChangeAdminCmd(from, args)
  PROVE  UNCHANGED <<vars, commanded>>
<1>1. Len(args) = 1
  BY DEF NewChangeAdminCmd, Runs
<1>2. PICK d \in Denoms : args = <<d>>
  BY <1>1 DEF AdminArgs
<1>3. 2 \notin DOMAIN args
  BY <1>2
<1> QED
  BY <1>3 DEF NewChangeAdminCmd

\* A query changes nothing of the chain.
LEMMA QueryLeaves == Query => UNCHANGED <<vars, commanded>>
BY DEF Query, GetCmdDenomAuthorityMetadata, GetCmdDenomsFromCreator, Rest

\* The cases of a step: one of the chain that commands no denom, or the
\* create-denom command.
LEMMA ClientCases ==
  ASSUME [ClientNext]_clientVars
  PROVE  \/ [Next]_vars /\ UNCHANGED commanded
         \/ \E from \in Creators, args \in TypedArgs(Subdenoms) :
              /\ NewCreateDenomCmd(from, args)
              /\ ~UNCHANGED commanded
<1>1. CASE UNCHANGED clientVars
  BY <1>1 DEF clientVars
<1>2. CASE Elsewhere
  BY <1>2 DEF Elsewhere
<1>3. CASE Query
  BY <1>3, QueryLeaves
<1>4. CASE Command
  <2>1. ASSUME NEW from, NEW args, NEW what, DoesNotRun(what, from, args)
        PROVE  UNCHANGED <<vars, commanded>>
    BY <2>1 DEF DoesNotRun
  <2>2. ASSUME NEW from \in Creators, NEW args \in TypedArgs(Subdenoms),
               NewCreateDenomCmd(from, args), UNCHANGED commanded
        PROVE  [Next]_vars
    BY <2>2, CreateCommandSteps
  <2>3. ASSUME NEW from \in Senders, NEW args \in TypedArgs(TypedCoins),
               NewMintCmd(from, args) \/ NewBurnCmd(from, args)
        PROVE  [Next]_vars /\ UNCHANGED commanded
    <3>1. [Next]_vars
      BY <2>3, MintCommandSteps, BurnCommandSteps
    <3>2. UNCHANGED commanded
      BY <2>3 DEF NewMintCmd, NewBurnCmd, Refused
    <3> QED
      BY <3>1, <3>2
  <2>4. ASSUME NEW from \in Senders, NEW args \in AdminArgs, NewChangeAdminCmd(from, args)
        PROVE  UNCHANGED <<vars, commanded>>
    BY <2>4, ChangeAdminCommandSteps
  <2> QED
    BY <1>4, <2>1, <2>2, <2>3, <2>4 DEF Command
<1> QED
  BY <1>1, <1>2, <1>3, <1>4 DEF ClientNext

\* Seen without the programs around it, every step is one of the chain.
LEMMA ClientSteps == [ClientNext]_clientVars => [Next]_vars
BY ClientCases, CreateCommandSteps

-----------------------------------------------------------------------------
(* What was created by command stays listed.                                *)

\* No message takes an entry from the index.
LEMMA IndexGrows ==
  ASSUME [Next]_vars, ~Restart
  PROVE  creators \subseteq creators'
<1>1. ASSUME NEW m, CreateDenom(m) PROVE creators \subseteq creators'
  BY <1>1 DEF CreateDenom
<1> QED
  BY <1>1 DEF Next, Mint, Burn, ForceTransfer, ChangeAdmin, SetDenomMetadata, BankSend,
              SetParams, Reject, vars, state

\* The import lists every denom under the canonical spelling, where those
\* created by command are already.
LEMMA RestartKeepsCommanded ==
  ASSUME Commanded, Restart
  PROVE  \A d \in commanded : <<d[1], d>> \in creators'
<1> SUFFICES ASSUME NEW d \in commanded PROVE <<d[1], d>> \in creators'
  OBVIOUS
<1>1. Canonical(d[1]) = d[1] /\ <<d[1], d>> \in creators
  BY DEF Commanded
<1>2. DOMAIN ExportGenesis = {e[2] : e \in creators}
  BY DEF ExportGenesis
<1>3. <<d[1], d>>[2] = d
  OBVIOUS
<1>4. d \in DOMAIN ExportGenesis
  BY <1>1, <1>2, <1>3
<1>5. creators' = {<<Canonical(e[1]), e>> : e \in DOMAIN ExportGenesis}
  BY DEF Restart, GenesisCreators
<1> QED
  BY <1>1, <1>4, <1>5

\* The create-denom command that creates a denom lists it under its sender.
LEMMA CommandLists ==
  ASSUME TypeOK, Commanded, NEW from \in Creators, NEW args \in TypedArgs(Subdenoms),
         NewCreateDenomCmd(from, args), ~UNCHANGED commanded
  PROVE  Commanded'
<1> DEFINE m == NewMsgCreateDenom(Sender(from), args[1])
           c == Sender(from)
           new == <<c, args[1]>>
<1>1. /\ Signed([sender |-> from])
      /\ CreateDenom(m)
      /\ commanded' = commanded \cup {<<m.sender, m.subdenom>>}
  BY DEF NewCreateDenomCmd, Runs, Refused
<1>2. m.sender = c /\ m.subdenom = args[1]
  BY DEF NewMsgCreateDenom
<1>3. c \in Creators \cap AddrStrings /\ Canonical(c) = c
  BY <1>1, SenderLemma
<1>4. args[1] \in ValidSubdenoms
  BY <1>1, <1>2 DEF CreateDenom, CreateDenomOk, ValidCreateDenom
<1>5. creators' = creators \cup {<<c, new>>}
  BY <1>1, <1>2 DEF CreateDenom
<1>6. commanded' = commanded \cup {new}
  BY <1>1, <1>2
<1> HIDE DEF m, c
<1>7. new \in FactoryDenoms /\ new[1] = c
  BY <1>3, <1>4 DEF FactoryDenoms
<1> HIDE DEF new
<1>8. ASSUME NEW d \in commanded'
      PROVE  d \in FactoryDenoms /\ Canonical(d[1]) = d[1] /\ <<d[1], d>> \in creators'
  <2>1. CASE d \in commanded
    BY <1>5, <2>1 DEF Commanded
  <2>2. CASE d = new
    BY <1>3, <1>5, <1>7, <2>2
  <2> QED
    BY <1>6, <2>1, <2>2
<1> QED
  BY <1>8 DEF Commanded, Canonical

\* Commanded is preserved by every step.
LEMMA CommandedStays == CInv /\ [ClientNext]_clientVars => Commanded'
<1> SUFFICES ASSUME CInv, [ClientNext]_clientVars PROVE Commanded'
  OBVIOUS
<1>1. TypeOK /\ Commanded
  BY DEF CInv, IInv
<1>2. CASE [Next]_vars /\ UNCHANGED commanded
  <2>1. \A d \in commanded : <<d[1], d>> \in creators'
    <3>1. CASE Restart
      BY <1>1, <3>1, RestartKeepsCommanded
    <3>2. CASE ~Restart
      BY <1>1, <1>2, <3>2, IndexGrows DEF Commanded
    <3> QED
      BY <3>1, <3>2
  <2> QED
    BY <1>1, <1>2, <2>1 DEF Commanded, Canonical
<1> QED
  BY <1>1, <1>2, ClientCases, CommandLists

\* The gateway hands the path of a creator to the query by creator.
LEMMA CreatorPathAnswers ==
  ASSUME NEW str
  PROVE  RestAnswer(CreatorPath(str)) = DenomsFromCreator(str)
<1>1. /\ Len(CreatorPath(str)) = 2
      /\ CreatorPath(str)[1] = "denoms_from_creator"
      /\ CreatorPath(str)[2] = str
      /\ CreatorPath(str) # <<"params">>
  BY DEF CreatorPath
<1> QED
  BY <1>1 DEF RestAnswer

-----------------------------------------------------------------------------
(* The theorems.                                                            *)

\* Whatever commands and queries are run, the chain behaves as TokenFactory
\* says (client/cli/tx.go only sends messages): so its theorems hold beside them.
THEOREM CommandsAreTransactions == ClientSpec => Spec
<1>1. ClientInit => Init
  BY DEF ClientInit
<1>2. [ClientNext]_clientVars => [Next]_vars
  BY ClientSteps
<1> QED
  BY <1>1, <1>2, PTL DEF ClientSpec, Spec

\* The invariant of TokenFactory with Commanded is inductive.
THEOREM ClientInductive == ClientSpec => []CInv
<1>1. ClientInit => CInv
  BY InitType, InitRegistry DEF ClientInit, CInv, IInv, Commanded
<1>2. CInv /\ [ClientNext]_clientVars => CInv'
  BY ClientSteps, CommandedStays, NextType, NextRegistry DEF CInv, IInv
<1> QED
  BY <1>1, <1>2, PTL DEF ClientSpec

\* Who creates a denom by command finds it by asking for its own address, by
\* command and over REST, after any restarts and under any spelling typed.
THEOREM CreatorsFindTheirDenoms == ClientSpec => []ListedToCreator
<1>1. CInv => ListedToCreator
  <2> SUFFICES ASSUME CInv, NEW d \in commanded
               PROVE  /\ d \in DenomsFromCreator(Canonical(d[1]))
                      /\ d \in RestAnswer(CreatorPath(Canonical(d[1])))
    BY DEF ListedToCreator
  <2>1. Canonical(d[1]) = d[1] /\ <<d[1], d>> \in creators
    BY DEF CInv, Commanded
  <2>2. d \in DenomsFromCreator(d[1])
    <3>1. <<d[1], d>>[1] = d[1] /\ <<d[1], d>>[2] = d
      OBVIOUS
    <3> QED
      BY <2>1, <3>1 DEF DenomsFromCreator
  <2> QED
    BY <2>1, <2>2, CreatorPathAnswers
<1> QED
  BY <1>1, ClientInductive, PTL

=============================================================================
