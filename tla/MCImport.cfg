\* The import, denom by denom: two spellings, one message in a transaction.
SPECIFICATION FairSpec
CONSTANTS
  u1 = u1
  u2 = u2
  tfModule = tfModule
  distrModule = distrModule
  lower1 = lower1
  upper1 = upper1
  lower2 = lower2
  lowerTf = lowerTf
  lowerDistr = lowerDistr
  ufoo = ufoo
  stake = stake
  TooLong = TooLong
  Accounts <- MCAccounts
  AddrStrings <- TwoSpellings
  AccOf <- MCAccOf
  StringOf <- MCStringOf
  Empty = Empty
  Garbage = Garbage
  MaxInt = 1
  MaxMsgs = 1
  Users <- MCUsers
  TokenFactoryModule = tfModule
  DistributionModule = distrModule
  NativeDenoms <- MCNative
  Senders <- EverySpelling
  Creators <- EitherSpelling
  Subdenoms <- FooOnly
  ValidSubdenoms <- FooOnly
  Amounts = {}
  Fees <- Free
  CustomMetadata = {custom}
  MinimalMetadata = minimal
  NoMetadata = NoMetadata
  NoRecord = NoRecord
  GenesisDenoms <- OfU1
  GenesisBalances <- NativeOfU1
  GenesisMetadata <- MetadataAtGenesis
INVARIANTS
  ExportValidates
PROPERTIES
  ImplementsTokenFactory
  ComesBack
