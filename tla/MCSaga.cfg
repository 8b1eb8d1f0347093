SPECIFICATION FairSpec
CONSTANTS
  Keys <- OneKey
  TenantOf <- OneTenant
  Updates <- AnyUpdate
  Requests <- BothDirections
  Calls = {c1, c2}
  MaxFaults = 2
  ReserveScanFits = TRUE
INVARIANTS
  IInv OfframpFiatAfterFinality
PROPERTIES
  StoreSpec 
CHECK_DEADLOCK FALSE
