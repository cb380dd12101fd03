\* The registry: two spellings of one user's address, three subdenoms, no amounts.
SPECIFICATION ClientSpec
VIEW View
CONSTANTS
  u1 = u1
  u2 = u2
  tfModule = tfModule
  distrModule = distrModule
  lower1 = lower1
  upper1 = upper1
  lower2 = lower2
  lowerTf = lowerTf
  lowerDistr = lowerDistr
  ufoo = ufoo
  stake = stake
  TooLong = TooLong
  Accounts <- MCAccounts
  AddrStrings <- TwoSpellings
  AccOf <- MCAccOf
  StringOf <- MCStringOf
  Empty = Empty
  Garbage = Garbage
  MaxInt = 1
  Users <- MCUsers
  TokenFactoryModule = tfModule
  DistributionModule = distrModule
  NativeDenoms <- MCNative
  Senders <- WithGarbage
  Creators <- EverySpelling
  Subdenoms <- FooOrTooLong
  ValidSubdenoms <- FooOnly
  Amounts = {}
  Fees <- FreeOrOne
  CustomMetadata = {custom}
  MinimalMetadata = minimal
  NoMetadata = NoMetadata
  NoRecord = NoRecord
  GenesisDenoms <- OfU1
  GenesisBalances <- NativeAtGenesis
  GenesisMetadata <- MetadataAtGenesis
  Accs <- MCUsers
  LongestSubdenoms <- FooOnly
  MintLimit = 0
  TypedHalves = {}
INVARIANTS
  RegistryConsistent
  ListedToCreator
PROPERTIES
  CreatedOnce
  FeeExactlyOnCreate
  RestartPreserves
