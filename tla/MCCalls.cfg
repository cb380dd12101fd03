\* Handlers and import call by call: two messages in a transaction.
SPECIFICATION Spec
VIEW View
CONSTANTS
  u1 = u1
  u2 = u2
  tfModule = tfModule
  distrModule = distrModule
  lower1 = lower1
  upper1 = upper1
  lower2 = lower2
  lowerTf = lowerTf
  lowerDistr = lowerDistr
  ufoo = ufoo
  stake = stake
  TooLong = TooLong
  Accounts <- MCAccounts
  AddrStrings <- OneSpelling
  AccOf <- MCAccOf
  StringOf <- MCStringOf
  Empty = Empty
  Garbage = Garbage
  MaxInt = 2
  MaxMsgs = 2
  Users <- MCUsers
  TokenFactoryModule = tfModule
  DistributionModule = distrModule
  NativeDenoms <- MCNative
  Senders <- BothUsers
  Creators <- JustU1
  Subdenoms <- FooOnly
  ValidSubdenoms <- FooOnly
  Amounts = {1}
  Fees <- FreeOrOne
  CustomMetadata = {custom}
  MinimalMetadata = minimal
  NoMetadata = NoMetadata
  NoRecord = NoRecord
  GenesisDenoms <- OfU1
  GenesisBalances <- NativeOfU1
  GenesisMetadata <- NoMetadataAtGenesis
PROPERTIES
  ImplementsTokenFactory
