CONSTANTS
  i1 = i1
  i2 = i2
  w1 = w1
  w2 = w2
  p1 = p1
  Items <- OneItem
  Workers <- OneWorker
  Processes <- OneProcess
  ProcessOf <- AloneInProcess
  AdmissionLimit = 1
  LeaseDuration = 1
  RetryDelay = 1
  MaxTime = 3
  GatewayDecodes = TRUE
SPECIFICATION FabricSpec
INVARIANTS NoBlindResubmission
CHECK_DEADLOCK FALSE
