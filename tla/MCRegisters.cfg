SPECIFICATION RegistersSpec
CONSTANTS
  Operators = {"ada", "ben"}
  MaxCycle = 2
  PackTypes = {"licence"}
  Archetypes = {"bank"}
  NotSet = NotSet
  MaxCopies = 1
  MaxDecisions = 2
  MaxPartnerCycle = 2
  Editors = {"e1", "e2"}
  Narratives = {"n1"}
  NoNarrative = NoNarrative
  PackDocuments = {"doc"}
  MaxDestinations = 1
  Raisers = {"r1", "r2"}
  Sources = {"s1", "s2"}
  Cases = {"c1"}
  Filings = {"f1"}
  Subjects = {"u1"}
  NoSubject = NoSubject
  NoCase = NoCase
  MaxAlerts = 2
  Officers = {"ada", "ben"}
  NoOfficer = NoOfficer
  Contents = {"x", "y"}
  Nothing = Nothing
  MaxIntents = 1
  SharedCategories = {"governance"}
  VaspCategories = {"reserve"}
  NoReading = NoReading
  Areas = {"a1"}
  Submitters = {"ada", "ben"}
  Replicas = {"r1", "r2"}
  NobodyYet = NobodyYet
  MaxFaults = 2
  AdminCalls = {"g1", "g2"}
  GrantedRoles = {"admin", "treasury_operator"}
  MaxGrants = 2
  Staff = {"ann", "bob"}
  StaffRole <- EveryoneAdmin
  NotRecorded = NotRecorded
  MaxRecords = 2
INVARIANTS
  CustomerSafety AssessmentSafety MonitorSafety  ConsoleMatchesServer
PROPERTIES
  OnboardingSafety RegisterSafety CaseSafety  LifecycleSafety
  NothingStranded
CHECK_DEADLOCK FALSE
