\* Genesis files: two runs of up to three nodes, any step failing, one account added.
SPECIFICATION Spec
CONSTANTS
  MaxNodes = 3
  MaxRuns = 2
  Octets = 3
  StartingIPs = {1}
  ExternalIP = 3
  CoinDenoms = {"testtoken", "stake"}
  Stake = "stake"
  NodeCoins <- MCNodeCoins
  Delegation = 1
  Newcomers <- MCNewcomers
  MaxAdded = 2
  Purses <- MCPurses
  StartTimes = {0, 1, 2}
  EndTimes = {0, 2}
  None = None
INVARIANTS
  GenesisSound
  OneGenesis
  PeersComplete
PROPERTIES
  RefusesOnlyLeftovers
CHECK_DEADLOCK FALSE
