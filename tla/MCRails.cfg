SPECIFICATION FairSpec
CONSTANTS
  Keys <- OneKey
  Digests <- TwoDigests
  Processes <- OneProcess
  Deliveries <- EitherPayload
  Calls <- TwoCalls
  Workers <- OneWorker
  Batches <- OneBatch
  MaxRestarts = 1
  MaxAttempts = 2
  MaxFaults = 1
  c1 = c1
  c2 = c2
  w1 = w1
  b1 = b1
INVARIANTS
  RailSafety

  
CHECK_DEADLOCK FALSE
