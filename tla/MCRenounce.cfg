\* Violated: AdminCanRenounce.
SPECIFICATION ClientSpec
VIEW View
CONSTANTS
  u1 = u1
  u2 = u2
  tfModule = tfModule
  distrModule = distrModule
  lower1 = lower1
  upper1 = upper1
  lower2 = lower2
  lowerTf = lowerTf
  lowerDistr = lowerDistr
  ufoo = ufoo
  stake = stake
  TooLong = TooLong
  Accounts <- MCAccounts
  AddrStrings <- OneSpelling
  AccOf <- MCAccOf
  StringOf <- MCStringOf
  Empty = Empty
  Garbage = Garbage
  MaxInt = 3
  Users <- MCUsers
  TokenFactoryModule = tfModule
  DistributionModule = distrModule
  NativeDenoms <- MCNative
  Senders <- BothUsers
  Creators <- JustU1
  Subdenoms <- Asked
  ValidSubdenoms <- FooOrStake
  Amounts = {0, 1, 2, 3}
  Fees <- FreeOrOne
  CustomMetadata = {custom}
  MinimalMetadata = minimal
  NoMetadata = NoMetadata
  NoRecord = NoRecord
  GenesisDenoms <- OfU1
  GenesisBalances <- NativeOfU1
  GenesisMetadata <- NoMetadataAtGenesis
  Accs <- MCUsers
  LongestSubdenoms <- FooOrStake
  MintLimit = 3
  TypedHalves = {0, 2, 4, 6}
PROPERTIES
  AdminCanRenounce
