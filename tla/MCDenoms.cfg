\* Denom names: two requests, lengths around the limits.
SPECIFICATION Spec
CONSTANTS
  Parts <- MCParts
  PartLen <- MCPartLen
  Factory = "factory"
  Bech32Parts <- MCBech32
  CanonicalOf <- MCCanonicalOf
  BadParts = {"b?d"}
  Creators <- MCCreators
  Subdenoms <- MCSubdenoms
INVARIANTS
  NamesDoNotCollide
  DeconstructInverts
  LimitsFit
CHECK_DEADLOCK FALSE
