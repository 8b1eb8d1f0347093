SPECIFICATION Spec
CONSTANTS
  Keys <- OneKey
  TenantOf <- OneTenant
  Updates <- AnyUpdate
  Requests <- BothDirections
  Calls = {c1}
  MaxFaults = 1
  ReserveScanFits = TRUE
INVARIANTS UnknownIsReconcilable
CHECK_DEADLOCK FALSE
