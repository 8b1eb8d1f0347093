SPECIFICATION StoreSpec
CONSTANTS
  Keys <- TwoKeys
  TenantOf <- OneTenant
  Requests <- TwoSettlements
  Updates <- LookedAt
INVARIANTS
  StoreSafety
PROPERTIES
  TerminalIsFinal
CHECK_DEADLOCK FALSE
