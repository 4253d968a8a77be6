SPECIFICATION Spec
CONSTANTS
  NULL = NULL
  Contents <- MCContents
  Vaults <- MCVaults
  Losable = {"accounts", "streams"}
  DefaultExpenses = 1
  TaxTarget = 2
  MaxEdits = 2
INVARIANTS
  TypeOK
PROPERTIES
  QuietReadIsExact
  BetweenIfImproving
CHECK_DEADLOCK FALSE
