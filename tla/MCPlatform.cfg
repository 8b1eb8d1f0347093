SPECIFICATION PlatformSpec
CONSTANTS
  Locks = {"l1", "l2"}
  OrderKeys = {"k1", "k2"}
  Customers = {"c1", "c2"}
  Owner = "c1"
  Amounts = {0, 1, 2}
  LockedRate <- Rates
  Scale = 10
  Results <- Answers
  NoOrder = NoOrder
  Orders = {"o1"}
  Seqs = {1, 2}
  Counterparties = {"p1"}
  NoTxn = NoTxn
  Dealers = {"ada", "ben"}
  Target = 4
  Cap = 2
  Balances = {0, 1, 3, 5}
  NoDealer = NoDealer
  Connections = {"i1"}
  Tabs = {"t1", "t2"}
  References = {"FX_A", "FX_B", "sk_live"}
  Endpoints = {"https_a", "http_a"}
  SecretNames = {"FX_A", "FX_B"}
  PresentSecrets = {"FX_A"}
  ApprovedEndpoints = {"https_a"}
  NoValue = NoValue
  MaxTrail = 6
  Posters = {"w1", "w2"}
  PostAmounts = {1, 2}
  MaxTime = 1
  TransferIds = {1, 2}
  MaxBigint = 1
  MaxAge = 0
  TrailOrders = {"o1", "o2"}
  MaxEvents = 3
  MaxPostings = 2
  MaxMinor = 1
  SafeMax = 2
  MaxSet = 2
  MaxExtra = 1
  HealthReplicas = {"r1", "r2"}
  Unlocked = {"cron"}
  NoLeader = NoLeader
  MinimumSamples = 2
  TargetNum = 1
  TargetDen = 2
  MaxWork = 2
  MaxSamples = 3
  Failures = {"other_language"}
  Evaluators = {"e1", "e2"}
  RedFloor = 1
  AmberFloor = 2
  MaxAmount = 2
  MaxNotices = 3
  MaxRollbacks = 1
  NotRunning = NotRunning
  Evidence = {1, 2}
  Poison = {1}
  Drains = {"d1", "d2"}
  Batch = 2
  MaxDeaths = 1
  FormPayloads = {"a", "b", "bad"}
  Refused = {"bad"}
  Keyed = {TRUE, FALSE}
  MaxRequests = 3
INVARIANTS
  DraftingSafety     
  OutboxSafety ConsoleMatchesServer
PROPERTIES
  ImplementsQuotes  JudgedIndependently ProjectionSafety
   
CHECK_DEADLOCK FALSE
