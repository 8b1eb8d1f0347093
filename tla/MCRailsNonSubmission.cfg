SPECIFICATION Spec
CONSTANTS
  Keys <- OneKey
  Digests <- TwoDigests
  Processes <- OneProcess
  Deliveries <- OnePayload
  Calls <- OneCall
  Workers <- OneWorker
  Batches <- NoBatch
  MaxRestarts = 0
  MaxAttempts = 2
  MaxFaults = 0
  c1 = c1
  c2 = c2
  w1 = w1
  b1 = b1
INVARIANT NonSubmissionMeansNoPayment
CHECK_DEADLOCK FALSE
