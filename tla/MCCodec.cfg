\* The wire format: every type, one change of the bytes.
SPECIFICATION Spec
CONSTANTS
  WordBits = 15
  FieldBits = 8
  Strings <- MCStrings
  Coins <- MCCoins
  Metadatas <- MCMetadatas
  Lists = {0, 2}
  Gas = {0, 300}
  ListedDenoms <- MCListed
  UnknownFields <- MCUnknown
  Damages <- MCDamages
  MaxChanged = 16
INVARIANTS
  RoundTrip
  UnknownIgnored
  Merges
  CutIsNoticed
  InBounds
PROPERTIES
  Returns
CHECK_DEADLOCK FALSE
