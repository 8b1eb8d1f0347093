CONSTANTS
  i1 = i1
  i2 = i2
  w1 = w1
  w2 = w2
  p1 = p1
  Items <- TwoItems
  Workers <- TwoWorkers
  Processes <- OneProcess
  ProcessOf <- SameProcess
  AdmissionLimit = 1
  LeaseDuration = 1
  RetryDelay = 1
  MaxTime = 3
  GatewayDecodes = TRUE
SPECIFICATION FabricSpec
INVARIANTS
  QueueSafety
PROPERTIES
  OnlyLeaseholderWrites
CHECK_DEADLOCK FALSE
