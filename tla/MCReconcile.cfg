SPECIFICATION RSpec
CONSTANTS
  Keys <- OneKey
  TenantOf <- OneTenant
  Updates <- AnyUpdate
  Requests <- BothDirections
  Calls = {c1}
  MaxFaults = 1
  ReserveScanFits = TRUE
  Workers <- TwoWorkers
  BatchSize = 1
  Lease = 2
  AuthLife = 3
  MaxTime = 5
  CorridorOf <- NoCorridor
INVARIANTS
  SettlementSafety
PROPERTIES
  ResolutionSafety
CHECK_DEADLOCK FALSE
