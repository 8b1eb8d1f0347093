-------------------------- MODULE AccessLifecycles --------------------------
(***************************************************************************)
(* Two lifecycles kept beside role grants: an operator's onboarding        *)
(* (operatorOnboardingLifecycle.ts) and an external auditor's engagement   *)
(* (auditorEngagementLifecycle.ts).  Each handler locks its record, checks *)
(* the phase it applies to, stores its evidence and moves to the next      *)
(* phase.  Operators act from consoles whose lists may be stale: a         *)
(* console submits the form of the phase it last displayed.                *)
(***************************************************************************)
EXTENDS ConsoleRoles, Naturals

CONSTANTS
  Staff,         \* people with a console open
  StaffRole,     \* the operating role each of them holds
  NotRecorded,   \* no evidence stored for a phase yet
  MaxRecords     \* bound: onboarding records ever started

ASSUME LifecycleAssumption ==
  /\ StaffRole \in [Staff -> OperatorRole]
  /\ NotRecorded \notin Staff
  /\ MaxRecords \in Nat

VARIABLES
  records,     \* onboarding records started for the subject
  journey,     \* "operator" or "auditor": the lifecycle of this instance
  phase,       \* the record's phase, "absent" before it is started
  evidence,    \* phase -> who recorded its evidence
  lapsed,      \* the recertification or the annual review is due
  shown        \* what each person's console displays: a phase or "absent"

lifecycleVars == <<records, journey, phase, evidence, lapsed, shown>>

OperatorPhases == <<"role_access_request", "lms_enrolment", "shadow_period", "steady_state">>

EngagementPhases == <<"engagement_letter", "access_provisioning", "audit_fieldwork", "annual_review">>

Phases == IF journey = "operator" THEN OperatorPhases ELSE EngagementPhases

PhaseSet == {Phases[n] : n \in 1..4}

LifecycleInit ==
  /\ records = 0
  /\ journey \in {"operator", "auditor"}
  /\ phase = "absent"
  /\ evidence = [n \in 1..3 |-> NotRecorded]
  /\ lapsed = TRUE
  /\ shown = [p \in Staff |-> "absent"]

(* The procedure behind each form, by phase number (0 starts the record).  *)
OperatorProcedure ==
  [n \in 0..4 |-> IF n \in {2, 4} THEN ComplianceProcedure ELSE AdminProcedure]

EngagementProcedure == [n \in 0..4 |-> AdminProcedure]

Procedure(n) == IF journey = "operator" THEN OperatorProcedure[n] ELSE EngagementProcedure[n]

(* Plausible bug: the handler trusts the form and skips the phase check.   *)
AdvanceUnchecked(p, n) ==
  /\ phase # "absent"
  /\ phase' = Phases[n + 1]
  /\ evidence' = [evidence EXCEPT ![n] = p]

(* The common body: SELECT ... FOR UPDATE, the phase check, the UPDATE.    *)
Advance(p, n) ==
  /\ phase = Phases[n]
  /\ phase' = Phases[n + 1]
  /\ evidence' = [evidence EXCEPT ![n] = p]

(* The form a console displays for what it last read; both workspaces are  *)
(* rendered for administrators only.                                       *)
OnboardingLifecyclePanel(role, view) ==
  IF role # "admin" THEN {}
  ELSE IF view = "absent" THEN {0}
  ELSE {n \in 1..4 : OperatorPhases[n] = view}

EngagementPanel(role, view) ==
  IF role # "admin" THEN {}
  ELSE {n \in 1..4 : EngagementPhases[n] = view}

AuditorEngagementWorkspace(role, view) ==
  EngagementPanel(role, view) \cup (IF role = "admin" /\ view = "absent" THEN {0} ELSE {})

Offered(role, view) ==
  IF journey = "operator" THEN OnboardingLifecyclePanel(role, view)
  ELSE AuditorEngagementWorkspace(role, view)

Submits(p, n) == n \in Offered(StaffRole[p], shown[p]) /\ StaffRole[p] \in Procedure(n)

(* startOperatorOnboarding: nothing refuses a second record; the newest is *)
(* the one consoles display (latestOnboardingBySubject).                   *)
StartOperatorOnboarding(p) ==
  /\ journey = "operator" /\ Submits(p, 0) /\ records < MaxRecords
  /\ records' = records + 1
  /\ phase' = OperatorPhases[1]
  /\ evidence' = [n \in 1..3 |-> NotRecorded]
  /\ UNCHANGED <<journey, lapsed, shown>>

RecordSodMatrixReview(p) ==
  /\ journey = "operator" /\ Submits(p, 1) /\ Advance(p, 1)
  /\ UNCHANGED <<records, journey, lapsed, shown>>

RecordLmsEnrolment(p) ==
  /\ journey = "operator" /\ Submits(p, 2) /\ Advance(p, 2)
  /\ UNCHANGED <<records, journey, lapsed, shown>>

RecordShadowPeriodSupervision(p) ==
  /\ journey = "operator" /\ Submits(p, 3) /\ Advance(p, 3)
  /\ UNCHANGED <<records, journey, lapsed, shown>>

RecordOperatorRecertification(p) ==
  /\ journey = "operator" /\ Submits(p, 4) /\ phase = "steady_state"
  /\ lapsed' = FALSE
  /\ UNCHANGED <<records, journey, phase, evidence, shown>>

(* startAuditorEngagement: every engagement is a row of its own.           *)
StartAuditorEngagement(p) ==
  /\ journey = "auditor" /\ Submits(p, 0) /\ phase = "absent"
  /\ phase' = EngagementPhases[1]
  /\ UNCHANGED <<records, journey, evidence, lapsed, shown>>

RecordEngagementLetter(p) ==
  /\ journey = "auditor" /\ Submits(p, 1) /\ Advance(p, 1)
  /\ UNCHANGED <<records, journey, lapsed, shown>>

RecordAccessProvisioning(p) ==
  /\ journey = "auditor" /\ Submits(p, 2) /\ Advance(p, 2)
  /\ UNCHANGED <<records, journey, lapsed, shown>>

RecordAuditFieldwork(p) ==
  /\ journey = "auditor" /\ Submits(p, 3) /\ Advance(p, 3)
  /\ UNCHANGED <<records, journey, lapsed, shown>>

RecordAnnualReview(p) ==
  /\ journey = "auditor" /\ Submits(p, 4) /\ phase = "annual_review"
  /\ lapsed' = FALSE
  /\ UNCHANGED <<records, journey, phase, evidence, shown>>

(* Time: the date that the last review set passes.                         *)
ReviewFallsDue ==
  /\ phase = Phases[4]
  /\ ~lapsed
  /\ lapsed' = TRUE
  /\ UNCHANGED <<records, journey, phase, evidence, shown>>

(* A console refetches its list.                                           *)
Refetch(p) ==
  /\ shown[p] # phase
  /\ shown' = [shown EXCEPT ![p] = phase]
  /\ UNCHANGED <<records, journey, phase, evidence, lapsed>>

LifecycleSubmission(p) ==
  \/ StartOperatorOnboarding(p) \/ RecordSodMatrixReview(p) \/ RecordLmsEnrolment(p)
  \/ RecordShadowPeriodSupervision(p) \/ RecordOperatorRecertification(p)
  \/ StartAuditorEngagement(p) \/ RecordEngagementLetter(p) \/ RecordAccessProvisioning(p)
  \/ RecordAuditFieldwork(p) \/ RecordAnnualReview(p)

LifecycleNext ==
  \/ \E p \in Staff : LifecycleSubmission(p) \/ Refetch(p)
  \/ ReviewFallsDue

LifecycleSpec == LifecycleInit /\ [][LifecycleNext]_lifecycleVars

-----------------------------------------------------------------------------
(* Types of a lifecycle record and of the consoles' views.                 *)
LifecycleTypeOK ==
  /\ records \in 0..MaxRecords
  /\ journey \in {"operator", "auditor"}
  /\ phase \in PhaseSet \cup {"absent"}
  /\ evidence \in [1..3 -> Staff \cup {NotRecorded}]
  /\ lapsed \in BOOLEAN
  /\ shown \in [Staff -> PhaseSet \cup {"absent"}]

(* Evidence stored for a phase is never replaced, and a phase is left only *)
(* with its own evidence stored, however stale the submitting console is:  *)
(* the handlers' FOR UPDATE phase checks, per record.                      *)
PhaseEvidenceOnce ==
  records' = records => \A n \in 1..3 :
    /\ evidence[n] # NotRecorded => evidence'[n] = evidence[n]
    /\ phase = Phases[n] /\ phase' # phase =>
         /\ phase' = Phases[n + 1]
         /\ evidence'[n] # NotRecorded

(* Every form the consoles offer is one the procedure behind it accepts    *)
(* from that role, and every phase offers its form to some role: no record *)
(* waits on a form nobody can open.                                        *)
LifecycleFormsAccepted ==
  \A view \in PhaseSet \cup {"absent"} :
    /\ \A role \in OperatorRole : \A n \in Offered(role, view) : role \in Procedure(n)
    /\ \E role \in OperatorRole : Offered(role, view) # {}

\* Every step of a journey leaves its phase once, with the evidence of that phase
\* (operatorOnboardingLifecycle.ts, auditorEngagementLifecycle.ts).
LifecycleSafety ==
  [][/\ LifecycleTypeOK'
     /\ PhaseEvidenceOnce]_lifecycleVars
=============================================================================
