\* The ledger: amounts up to 2, one factory denom, two spellings of one address.
SPECIFICATION ClientSpec
VIEW View
CONSTANTS
  u1 = u1
  u2 = u2
  tfModule = tfModule
  distrModule = distrModule
  lower1 = lower1
  upper1 = upper1
  lower2 = lower2
  lowerTf = lowerTf
  lowerDistr = lowerDistr
  ufoo = ufoo
  stake = stake
  TooLong = TooLong
  Accounts <- MCAccounts
  AddrStrings <- TwoSpellings
  AccOf <- MCAccOf
  StringOf <- MCStringOf
  Empty = Empty
  Garbage = Garbage
  MaxInt = 2
  Users <- MCUsers
  TokenFactoryModule = tfModule
  DistributionModule = distrModule
  NativeDenoms <- MCNative
  Senders <- EverySpelling
  Creators <- JustU1
  Subdenoms <- Asked
  ValidSubdenoms <- FooOrStake
  Amounts = {0, 1, 2}
  Fees <- FreeOrOne
  CustomMetadata = {custom}
  MinimalMetadata = minimal
  NoMetadata = NoMetadata
  NoRecord = NoRecord
  GenesisDenoms <- OfU1
  GenesisBalances <- CoinsAtGenesis
  GenesisMetadata <- NoMetadataAtGenesis
  Accs <- MCUsers
  LongestSubdenoms <- FooOrStake
  MintLimit = 2
  TypedHalves = {0, 1, 2, 4}
INVARIANTS
  TypeOK
  SupplyBacked
  FeePoolBacked
  SignedMessagesPass
PROPERTIES
  NobodyElseTakes
  AdminIsServed
  OnlyAdminActs
  ImplementsLedger
