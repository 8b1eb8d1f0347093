-------------------------- MODULE ReadinessRegisters --------------------------
\* The regulatory evidence registers of a dossier: the CBN sandbox dossier, its VASP
\* supervisory profile, its Travel Rule routes, offshore exposure and the IMTO
\* profile.  Evidence only accumulates; an assessment reads the recorded categories
\* and then the test plan, in separate statements, while others record.
\* Below them the readiness-assurance register of a dossier and the monitor that
\* re-derives segregation-of-duties exceptions from its rows.
EXTENDS Naturals, FiniteSets, ConsoleRoles

CONSTANTS SharedCategories,   \* required of every dossier
          VaspCategories,     \* required of a VASP dossier besides
          NoReading

VARIABLES book,        \* the register at work
          dossier,     \* the track, or "none"
          planned,     \* the dossier has a documented test plan
          profiles,    \* registers whose profile row exists
          recorded,    \* categories the register has evidence for
          reading,     \* NoReading or <<the categories an assessment has read>>
          assessed     \* the assessments recorded: [missing, outcome]

readinessVars == <<book, dossier, planned, profiles, recorded, reading, assessed>>

Tracks == {"vasp", "data_enabled_non_vasp"}
Books == {"cbn", "supervisory", "travel_rule", "offshore", "imto"}

\* The categories a register requires.
RequiredCategories == SharedCategories \cup
                      (IF book = "cbn" /\ dossier # "vasp" THEN {} ELSE VaspCategories)
Missing(seen) == RequiredCategories \ seen

\* The plan is not looked at.
OutcomeUnplanned(seen, plan) == IF Missing(seen) = {} THEN "complete" ELSE "incomplete"

\* The CBN outcome needs the plan besides the categories; the other registers have none.
Outcome(seen, plan) == IF Missing(seen) = {} /\ (book = "cbn" => plan) THEN "complete" ELSE "incomplete"

ReadinessInit == /\ book \in Books /\ dossier = "none" /\ planned = FALSE /\ profiles = {}
                 /\ recorded = {} /\ reading = NoReading /\ assessed = {}

CreateCbnSandboxDossier(track) ==
  /\ dossier = "none" /\ dossier' = track
  /\ UNCHANGED <<planned, profiles, recorded, reading, assessed>>

CreateCbnSandboxTestPlan ==
  /\ dossier # "none" /\ planned' = TRUE
  /\ UNCHANGED <<dossier, profiles, recorded, reading, assessed>>

RequireVaspDossier == dossier = "vasp"

\* Every profile is an upsert, so recording it again changes no evidence.
RecordProfile(b) == /\ profiles' = profiles \cup {b}
                    /\ UNCHANGED <<dossier, planned, recorded, reading, assessed>>
CreateVaspRegulatoryProfile == RequireVaspDossier /\ RecordProfile("supervisory")
CreateVaspOffshoreCounterpartyProfile == RequireVaspDossier /\ RecordProfile("offshore")
CreateImtoReadinessProfile == RecordProfile("imto")

\* Evidence with the same digest is a duplicate and changes nothing.
RecordInBook(b, c) == /\ book = b /\ recorded' = recorded \cup {c}
                      /\ UNCHANGED <<dossier, planned, profiles, reading, assessed>>
RecordCbnSandboxEvidence(c) == dossier # "none" /\ RecordInBook("cbn", c)
RecordVaspSupervisoryEvidence(c) == "supervisory" \in profiles /\ RecordInBook("supervisory", c)
RecordVaspTravelRuleEvidence(c) == RequireVaspDossier /\ RecordInBook("travel_rule", c)
RecordVaspOffshoreCounterpartyEvidence(c) == "offshore" \in profiles /\ RecordInBook("offshore", c)
RecordImtoReadinessEvidence(c) == "imto" \in profiles /\ RecordInBook("imto", c)

\* An assessment's transaction reads the categories, then the plan, and inserts.
Assess(b) ==
  /\ book = b
  /\ \/ /\ reading = NoReading /\ reading' = <<recorded>> /\ UNCHANGED assessed
     \/ /\ reading # NoReading /\ reading' = NoReading
        /\ assessed' = assessed \cup {[missing |-> Missing(reading[1]), outcome |-> Outcome(reading[1], planned)]}
  /\ UNCHANGED <<dossier, planned, profiles, recorded>>
AssessCbnSandboxEvidenceCompleteness == dossier # "none" /\ Assess("cbn")
AssessVaspTravelRuleRoute == RequireVaspDossier /\ Assess("travel_rule")
AssessVaspOffshoreCounterpartyProfile == "offshore" \in profiles /\ Assess("offshore")
AssessImtoReadiness == "imto" \in profiles /\ Assess("imto")

\* What the readiness query answers now.
GetCbnSandboxReadiness == Outcome(recorded, planned)

ReadinessStep ==
  \/ \E t \in Tracks : CreateCbnSandboxDossier(t)
  \/ CreateCbnSandboxTestPlan
  \/ CreateVaspRegulatoryProfile \/ CreateVaspOffshoreCounterpartyProfile \/ CreateImtoReadinessProfile
  \/ \E c \in SharedCategories \cup VaspCategories :
       \/ RecordCbnSandboxEvidence(c) \/ RecordVaspSupervisoryEvidence(c) \/ RecordVaspTravelRuleEvidence(c)
       \/ RecordVaspOffshoreCounterpartyEvidence(c) \/ RecordImtoReadinessEvidence(c)
  \/ AssessCbnSandboxEvidenceCompleteness \/ AssessVaspTravelRuleRoute
  \/ AssessVaspOffshoreCounterpartyProfile \/ AssessImtoReadiness

ReadinessNext == ReadinessStep /\ UNCHANGED book

ReadinessSpec == ReadinessInit /\ [][ReadinessNext]_readinessVars

---------------------------------------------------------------------------
\* The console: the forms the workspace opens, the dossier tab and the VASP tab.

CbnSandboxWorkspace(role) ==
  (IF role = "admin" THEN {"dossier"} \cup (IF dossier # "none" THEN {"plan"} ELSE {}) ELSE {})
    \cup (IF role \in {"admin", "compliance_officer"} /\ dossier # "none"
          THEN {"evidence", "incident", "assessment", "consumer", "pack"} ELSE {})
VaspReadinessPanel(role) ==
  (IF role = "admin" /\ dossier = "vasp" THEN {"profile"} ELSE {})
    \cup (IF role \in {"admin", "compliance_officer"} /\ "supervisory" \in profiles THEN {"supervisory"} ELSE {})
    \cup (IF role \in {"admin", "compliance_officer"} /\ dossier = "vasp" THEN {"travel", "route"} ELSE {})

\* The roles the procedure behind a form admits, and the rows its handler needs.
FormProcedure(f) == IF f \in {"dossier", "plan", "profile"} THEN AdminProcedure ELSE ComplianceProcedure
FormAccepted(f) == CASE f = "dossier" -> TRUE
                     [] f \in {"plan", "evidence", "incident", "assessment", "consumer", "pack"} -> dossier # "none"
                     [] f = "supervisory" -> "supervisory" \in profiles
                     [] OTHER -> RequireVaspDossier

---------------------------------------------------------------------------
\* The dossier, its evidence and its profiles have their types.
ReadinessTypeOK == /\ dossier \in Tracks \cup {"none"} /\ planned \in BOOLEAN /\ profiles \subseteq Books
                   /\ recorded \subseteq SharedCategories \cup VaspCategories /\ book \in Books

\* An assessment never overstates: one recorded complete read the categories and the
\* plan in two statements, and the register is still complete by both; one that is
\* missing nothing is complete exactly when the plan is there or none is required
\* (cbnSandbox.ts:63-104, vaspReadiness.ts:107-140).
AssessmentNeverOverstates ==
  \A x \in assessed :
    /\ x.outcome = "complete" => /\ Missing(recorded) = {} /\ (book = "cbn" => planned)
                                /\ GetCbnSandboxReadiness = "complete"
    /\ (x.missing = {} /\ x.outcome = "incomplete") => book = "cbn"

\* Every form a role can open leads to a request the server accepts of that role in
\* this state (CbnSandboxWorkspace.tsx:21-101, routers.ts:84-110).
FormsAccepted ==
  \A role \in OperatorRole : \A f \in CbnSandboxWorkspace(role) \cup VaspReadinessPanel(role) :
    role \in FormProcedure(f) /\ FormAccepted(f)

\* An assessment stays covered by the register (cbnSandbox.ts, vaspReadiness.ts).
AssessmentSafety ==
  /\ ReadinessTypeOK
  /\ AssessmentNeverOverstates

-----------------------------------------------------------------------------
\* The readiness-assurance register (evidence recorded by one operator, verified
\* by another) and the segregation-of-duties monitor.  Replicas elect a leader per
\* round with a session advisory lock whose session may be lost while the round goes
\* on; any step may fail.

CONSTANTS Areas, Submitters, Replicas, NobodyYet, MaxFaults

ASSUME MonitorAssumption == MaxFaults \in Nat /\ NobodyYet \notin Submitters \cup Replicas

VARIABLES item,      \* area |-> [status, by, verifier, rejected]; "absent" before the register is initialised
          edited,    \* a row was changed other than by the handlers
          policyOn,  \* an enabled segregation_of_duties policy exists
          leader,    \* the replica whose session holds the advisory lock, or NobodyYet
          round,     \* replica |-> [pc, found]
          runs,      \* evaluation states recorded
          raised,    \* exception digests with an alert row
          notices,   \* digest |-> notifications handed to the owner (at most 2 are counted)
          faults

monitorVars == <<item, edited, policyOn, leader, round, runs, raised, notices, faults>>

AssuranceStatus == {"absent", "open", "evidence_recorded", "externally_verified", "rejected"}
AssuranceRow == [status : AssuranceStatus, by : Submitters \cup {NobodyYet},
                 verifier : Submitters \cup {NobodyYet}, rejected : BOOLEAN]
Idle == [pc |-> "idle", found |-> {}]
registerOnly == <<policyOn, leader, round, runs, raised, notices, faults>>

---------------------------------------------------------------------------
\* The register.

InitialiseReadinessAssurance ==
  /\ \E a \in Areas : item[a].status = "absent"
  /\ item' = [a \in Areas |-> IF item[a].status = "absent" THEN [item[a] EXCEPT !.status = "open"] ELSE item[a]]
  /\ UNCHANGED <<edited, registerOnly>>

AwaitsEvidence(r) == r.status \in {"open", "rejected"}
VerifiableBy(r, who) == r.status = "evidence_recorded" /\ r.by # who

RecordReadinessAssuranceEvidence(a, who) ==
  /\ AwaitsEvidence(item[a])
  /\ item' = [item EXCEPT ![a] = [status |-> "evidence_recorded", by |-> who,
                                  verifier |-> NobodyYet, rejected |-> FALSE]]
  /\ UNCHANGED <<edited, registerOnly>>

VerifyReadinessAssuranceEvidence(a, who) ==
  /\ VerifiableBy(item[a], who)
  /\ item' = [item EXCEPT ![a].status = "externally_verified", ![a].verifier = who, ![a].rejected = FALSE]
  /\ UNCHANGED <<edited, registerOnly>>

RejectReadinessAssuranceEvidence(a) ==
  /\ item[a].status = "evidence_recorded"
  /\ item' = [item EXCEPT ![a].status = "rejected", ![a].rejected = TRUE]
  /\ UNCHANGED <<edited, registerOnly>>

\* A row changed in the database by other means, the event the monitor is for.
RowEditedElsewhere(a) ==
  /\ ~edited /\ item[a].by # NobodyYet
  /\ edited' = TRUE
  /\ item' = [item EXCEPT ![a].status = "externally_verified", ![a].verifier = item[a].by, ![a].rejected = FALSE]
  /\ UNCHANGED registerOnly

---------------------------------------------------------------------------
\* The monitor.

SelfVerified(r) == r.status = "externally_verified" /\ r.verifier = r.by
InvalidState(r) ==
  \/ r.status = "open" /\ (r.by # NobodyYet \/ r.verifier # NobodyYet \/ r.rejected)
  \/ r.status = "evidence_recorded" /\ (r.by = NobodyYet \/ r.verifier # NobodyYet \/ r.rejected)
  \/ r.status = "externally_verified" /\ (r.by = NobodyYet \/ r.verifier = NobodyYet \/ r.rejected \/ r.verifier = r.by)
  \/ r.status = "rejected" /\ (r.by = NobodyYet \/ ~r.rejected)
InvalidTotal == {a \in Areas : item[a].status # "absent"} \notin {{}, Areas}

\* The exceptions found; the set stands for its canonical digest.
QueryViolations ==
  {<<a, "self_verification">> : a \in {x \in Areas : SelfVerified(item[x])}}
    \cup {<<a, "invalid_state">> : a \in {x \in Areas : InvalidState(item[x])}}
    \cup (IF InvalidTotal THEN {<<"dossier", "invalid_dossier_total">>} ELSE {})

MonitorInit ==
  /\ item = [a \in Areas |-> [status |-> "absent", by |-> NobodyYet, verifier |-> NobodyYet, rejected |-> FALSE]]
  /\ edited = FALSE /\ policyOn = FALSE
  /\ leader = NobodyYet /\ round = [r \in Replicas |-> Idle]
  /\ runs = {} /\ raised = {} /\ notices = [d \in {} |-> 0] /\ faults = 0

\* A replica whose lock attempt is not granted does nothing in this round.
AcquireLeader(r) ==
  /\ round[r].pc = "idle" /\ leader = NobodyYet
  /\ leader' = r /\ round' = [round EXCEPT ![r].pc = "query"]
  /\ UNCHANGED <<item, edited, policyOn, runs, raised, notices, faults>>

RunQuery(r) ==
  /\ round[r].pc = "query"
  /\ round' = [round EXCEPT ![r].pc = "record", ![r].found = QueryViolations]
  /\ UNCHANGED <<item, edited, policyOn, leader, runs, raised, notices, faults>>

Released(r) == IF leader = r THEN NobodyYet ELSE leader

RecordEvaluation(r) ==
  /\ round[r].pc = "record"
  /\ runs' = runs \cup {IF round[r].found = {} THEN "clean" ELSE "exceptions_detected"}
  /\ IF round[r].found = {} THEN leader' = Released(r) /\ round' = [round EXCEPT ![r] = Idle]
     ELSE leader' = leader /\ round' = [round EXCEPT ![r].pc = "raise"]
  /\ UNCHANGED <<item, edited, policyOn, raised, notices, faults>>

\* The alert counts as created whether or not the insert met an existing row.
RaiseAlways(r) ==
  /\ round[r].pc = "raise"
  /\ IF policyOn
     THEN /\ raised' = raised \cup {round[r].found}
          /\ leader' = leader /\ round' = [round EXCEPT ![r].pc = "notify"]
     ELSE raised' = raised /\ leader' = Released(r) /\ round' = [round EXCEPT ![r] = Idle]
  /\ UNCHANGED <<item, edited, policyOn, runs, notices, faults>>

\* Insert the alert row; only the insert that created it goes on to notify.
RaiseExceptionAlert(r) ==
  /\ round[r].pc = "raise"
  /\ IF policyOn /\ round[r].found \notin raised
     THEN /\ raised' = raised \cup {round[r].found}
          /\ leader' = leader /\ round' = [round EXCEPT ![r].pc = "notify"]
     ELSE raised' = raised /\ leader' = Released(r) /\ round' = [round EXCEPT ![r] = Idle]
  /\ UNCHANGED <<item, edited, policyOn, runs, notices, faults>>

\* Hand the notification over and record the delivery.
DeliverExceptionAlert(r) ==
  LET d == round[r].found
      old == IF d \in DOMAIN notices THEN notices[d] ELSE 0
  IN  /\ round[r].pc = "notify"
      /\ notices' = [x \in DOMAIN notices \cup {d} |->
                       IF x # d THEN notices[x] ELSE IF old = 2 THEN 2 ELSE old + 1]
      /\ leader' = Released(r) /\ round' = [round EXCEPT ![r] = Idle]
      /\ UNCHANGED <<item, edited, policyOn, runs, raised, faults>>

\* Any step throws: the round is recorded as indeterminate and the lock released.
FailRound(r) ==
  /\ faults < MaxFaults /\ round[r].pc # "idle"
  /\ runs' = runs \cup {"indeterminate"}
  /\ leader' = Released(r) /\ round' = [round EXCEPT ![r] = Idle] /\ faults' = faults + 1
  /\ UNCHANGED <<item, edited, policyOn, raised, notices>>

\* The replica dies, or only the session that holds the lock does.
ReplicaStops(r) ==
  /\ faults < MaxFaults /\ round[r].pc # "idle"
  /\ leader' = Released(r) /\ faults' = faults + 1
  /\ round' \in {round, [round EXCEPT ![r] = Idle]}
  /\ UNCHANGED <<item, edited, policyOn, runs, raised, notices>>

PolicyEnabled == /\ ~policyOn /\ policyOn' = TRUE
                 /\ UNCHANGED <<item, edited, leader, round, runs, raised, notices, faults>>

RunSegregationOfDutiesMonitorRound(r) ==
  AcquireLeader(r) \/ RunQuery(r) \/ RecordEvaluation(r) \/ RaiseExceptionAlert(r) \/ DeliverExceptionAlert(r)

MonitorNext ==
  \/ InitialiseReadinessAssurance \/ PolicyEnabled
  \/ \E a \in Areas : \/ \E who \in Submitters : \/ RecordReadinessAssuranceEvidence(a, who)
                                                 \/ VerifyReadinessAssuranceEvidence(a, who)
                      \/ RejectReadinessAssuranceEvidence(a) \/ RowEditedElsewhere(a)
  \/ \E r \in Replicas : RunSegregationOfDutiesMonitorRound(r) \/ FailRound(r) \/ ReplicaStops(r)

\* The timer of every replica starts a round again after the last one ended.
MonitorRounds == \E r \in Replicas : RunSegregationOfDutiesMonitorRound(r)
MonitorSpec == MonitorInit /\ [][MonitorNext]_monitorVars /\ WF_monitorVars(MonitorRounds)

---------------------------------------------------------------------------
\* The console panel: what it offers for the rows it shows.

ReadinessAssurancePanel(role, rows) ==
  (IF role = "admin" /\ \A a \in Areas : rows[a].status = "absent" THEN {<<"initialise", "all">>} ELSE {})
    \cup {<<"record", a>> : a \in {x \in Areas : /\ role \in {"admin", "compliance_officer"}
                                                 /\ rows[x].status \in {"open", "rejected"}}}
    \cup {<<"verify", a>> : a \in {x \in Areas : /\ role \in {"admin", "auditor"}
                                                 /\ rows[x].status = "evidence_recorded"}}

---------------------------------------------------------------------------
\* The readiness item, the monitor rounds and the notices have their types.
MonitorTypeOK ==
  /\ \A a \in Areas : item[a] \in AssuranceRow
  /\ leader \in Replicas \cup {NobodyYet}
  /\ runs \subseteq {"clean", "exceptions_detected", "indeterminate"}

\* The handlers and the monitor agree: rows only the handlers wrote never count as
\* an exception, however evidence is recorded, rejected, replaced and verified
\* (vaspReadinessAssurance.ts:75-120, segregationOfDutiesMonitor.ts:142-198).
HandlersLeaveNoException == ~edited => QueryViolations = {}

\* A set of exceptions is notified at most once, though a lost lock session lets
\* two replicas evaluate at the same time (segregationOfDutiesMonitor.ts:104-140, 255-276).
NotifiedOnce == \A d \in DOMAIN notices : notices[d] <= 1 /\ d \in raised

\* With a policy enabled, a standing exception gets its alert row: no failure of an
\* earlier round leaves the advisory lock behind (segregationOfDutiesMonitor.ts:309-347).
ExceptionIsRaised == (edited /\ policyOn) ~> (raised # {} \/ QueryViolations = {})

\* Everything the panel offers a role is a request its procedure admits and, from an
\* operator other than the submitter, accepts (CbnSandboxWorkspace.tsx:103-120,
\* routers.ts:90-95).
PanelOffersAccepted ==
  \A role \in OperatorRole : \A offer \in ReadinessAssurancePanel(role, item) :
    CASE offer[1] = "initialise" -> role \in AdminProcedure
      [] offer[1] = "record"     -> role \in ComplianceProcedure /\ AwaitsEvidence(item[offer[2]])
      [] offer[1] = "verify"     -> /\ role \in AssuranceVerifierProcedure
                                    /\ \E who \in Submitters : VerifiableBy(item[offer[2]], who)

\* Handlers and monitor agree on what an exception is, and an exception is notified
\* once (vaspReadinessAssurance.ts, segregationOfDutiesMonitor.ts).
MonitorSafety ==
  /\ MonitorTypeOK
  /\ HandlersLeaveNoException
  /\ NotifiedOnce
=============================================================================
