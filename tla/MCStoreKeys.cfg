\* Store keys: two creators, two denoms, two admins, any query of three symbols.
SPECIFICATION Spec
CONSTANTS
  Separator = "|"
  Creator = "creator"
  Denom = "denoms"
  Authority = "authoritymetadata"
  Symbols <- MCSymbols
  Creators <- MCCreators
  DenomNames <- MCDenoms
  Admins = {"admin1", "admin2"}
  Queries <- MCQueries
  Absent = "nil"
INVARIANTS
  CreatorQueriesExact
  RecordQueriesExact
  ExportSeesAllDenoms
