--------------------------- MODULE ComplianceCases ---------------------------
\* Compliance alerts, the cases they are escalated into and the SAR/STR filings
\* made from a case.  Two evaluations may raise the same condition at once; the
\* handler locks the policy row, looks for the condition and inserts.  Operators
\* acknowledge, escalate and dismiss alerts and dispose of cases in any order.
EXTENDS Naturals, FiniteSets, ConsoleRoles

CONSTANTS Raisers,      \* evaluations that raise alerts
          Sources,      \* conditions an alert may be raised for
          Cases, Filings, Subjects, NoSubject, NoCase,
          MaxAlerts

ASSUME CasesAssumption == MaxAlerts \in Nat \ {0}

VARIABLES raise,     \* raiser |-> NoCase, or the open transaction: [source, subject, seen]
          alertRow,  \* alert id |-> NoCase, or [source, subject, state, case]
          caseRow,   \* case |-> [status, subject, reviewed]
          filing     \* filing |-> [status, case, reference]

caseVars == <<raise, alertRow, caseRow, filing>>

AlertState == {"open", "acknowledged", "escalated", "dismissed"}
CaseStatus == {"open", "under_review", "cleared", "escalated", "reported", "closed"}

AllowedTransitions(s) == CASE s = "open"         -> {"acknowledged", "escalated", "dismissed"}
                           [] s = "acknowledged" -> {"escalated", "dismissed"}
                           [] OTHER              -> {}

AllowedCaseTransitions(s) == CASE s = "open"         -> {"under_review", "closed"}
                               [] s = "under_review" -> {"cleared", "escalated", "reported", "closed"}
                               [] s = "escalated"    -> {"reported", "cleared", "closed"}
                               [] s \in {"cleared", "reported"} -> {"closed"}
                               [] OTHER              -> {}

AllowedFilingTransitions(s) == CASE s = "draft"                   -> {"under_review"}
                                 [] s = "under_review"            -> {"approved_for_submission", "rejected"}
                                 [] s = "approved_for_submission" -> {"pending_submission"}
                                 [] s = "pending_submission"      -> {"submitted", "submission_unavailable"}
                                 [] s = "submission_unavailable"  -> {"pending_submission"}
                                 [] OTHER                         -> {}

AlertIds == 1..MaxAlerts
Raised == {a \in AlertIds : alertRow[a] # NoCase}
NextId == Cardinality(Raised) + 1

CasesInit ==
  /\ raise = [r \in Raisers |-> NoCase]
  /\ alertRow = [a \in AlertIds |-> NoCase]
  /\ caseRow = [c \in Cases |-> [status |-> "none", subject |-> NoSubject, reviewed |-> FALSE]]
  /\ filing = [f \in Filings |-> [status |-> "none", case |-> NoCase, reference |-> FALSE]]

---------------------------------------------------------------------------
\* Raising an alert: lock the policy and look for the condition, then insert.

RaiseLock(r, s, who) ==
  /\ \A q \in Raisers : raise[q] = NoCase
  /\ raise' = [raise EXCEPT ![r] = [source |-> s, subject |-> who,
                                    seen |-> \E a \in Raised : alertRow[a].source = s]]
  /\ UNCHANGED <<alertRow, caseRow, filing>>

RaisePostgresComplianceAlert(r) ==
  /\ raise[r] # NoCase /\ (~raise[r].seen => NextId <= MaxAlerts)
  /\ raise' = [raise EXCEPT ![r] = NoCase]
  /\ alertRow' = IF raise[r].seen THEN alertRow
                 ELSE [alertRow EXCEPT ![NextId] = [source |-> raise[r].source, subject |-> raise[r].subject,
                                                    state |-> "open", case |-> NoCase]]
  /\ UNCHANGED <<caseRow, filing>>

TransitionAlert(a, target) == /\ a \in Raised
                              /\ target \in AllowedTransitions(alertRow[a].state)
                              /\ UNCHANGED <<raise, caseRow, filing>>

AcknowledgePostgresComplianceAlert(a) ==
  /\ TransitionAlert(a, "acknowledged")
  /\ alertRow' = [alertRow EXCEPT ![a].state = "acknowledged"]

DismissPostgresComplianceAlert(a) ==
  /\ TransitionAlert(a, "dismissed")
  /\ alertRow' = [alertRow EXCEPT ![a].state = "dismissed"]

\* The subjects are compared only where both the alert and the case name one.
SameSubject(x, y) == x = NoSubject \/ y = NoSubject \/ x = y

\* The case may be a closed one.
EscalateIntoAny(a, c) ==
  /\ TransitionAlert(a, "escalated")
  /\ caseRow[c].status # "none" /\ SameSubject(alertRow[a].subject, caseRow[c].subject)
  /\ alertRow' = [alertRow EXCEPT ![a].state = "escalated", ![a].case = c]

EscalatePostgresComplianceAlert(a, c) ==
  /\ TransitionAlert(a, "escalated")
  /\ caseRow[c].status \notin {"none", "closed"}
  /\ SameSubject(alertRow[a].subject, caseRow[c].subject)
  /\ alertRow' = [alertRow EXCEPT ![a].state = "escalated", ![a].case = c]

\* The insert names the type, the severity and a source, and no subject.
CreatePostgresComplianceCase(c) ==
  /\ caseRow[c].status = "none"
  /\ caseRow' = [caseRow EXCEPT ![c].status = "open"]
  /\ UNCHANGED <<raise, alertRow, filing>>

DisposeComplianceCase(c, status) ==
  /\ status \in AllowedCaseTransitions(caseRow[c].status)
  /\ caseRow' = [caseRow EXCEPT ![c].status = status, ![c].reviewed = @ \/ status = "under_review"]
  /\ UNCHANGED <<raise, alertRow, filing>>

CreatePostgresSarStrFiling(f, c) ==
  /\ filing[f].status = "none" /\ caseRow[c].status # "none"
  /\ filing' = [filing EXCEPT ![f] = [status |-> "draft", case |-> c, reference |-> FALSE]]
  /\ UNCHANGED <<raise, alertRow, caseRow>>

\* A reference, once given, is kept by later transitions.
TransitionPostgresSarStrFiling(f, status, given) ==
  /\ status \in AllowedFilingTransitions(filing[f].status)
  /\ status = "submitted" => (given \/ filing[f].reference)
  /\ filing' = [filing EXCEPT ![f].status = status, ![f].reference = @ \/ given]
  /\ UNCHANGED <<raise, alertRow, caseRow>>

CasesNext ==
  \/ \E r \in Raisers : \/ \E s \in Sources, who \in Subjects \cup {NoSubject} : RaiseLock(r, s, who)
                        \/ RaisePostgresComplianceAlert(r)
  \/ \E a \in AlertIds : \/ AcknowledgePostgresComplianceAlert(a)
                         \/ DismissPostgresComplianceAlert(a)
                         \/ \E c \in Cases : EscalatePostgresComplianceAlert(a, c)
  \/ \E c \in Cases : \/ CreatePostgresComplianceCase(c)
                      \/ \E status \in CaseStatus : DisposeComplianceCase(c, status)
  \/ \E f \in Filings : \/ \E c \in Cases : CreatePostgresSarStrFiling(f, c)
                        \/ \E status \in {"under_review", "approved_for_submission", "pending_submission",
                                          "submitted", "submission_unavailable", "rejected"}, given \in BOOLEAN :
                             TransitionPostgresSarStrFiling(f, status, given)

CasesSpec == CasesInit /\ [][CasesNext]_caseVars

---------------------------------------------------------------------------
\* The console: the dispositions offered for a row, and to whom.

CaseTransitions(status) == CASE status = "open"         -> {"under_review", "closed"}
                             [] status = "under_review" -> {"cleared", "escalated", "reported", "closed"}
                             [] status = "escalated"    -> {"reported", "cleared", "closed"}
                             [] status \in {"cleared", "reported"} -> {"closed"}
                             [] OTHER                   -> {}
DispositionTargets(status) == CaseTransitions(status) \ {"open"}
ComplianceCaseDispositionControls(status, canDispose) == IF canDispose THEN DispositionTargets(status) ELSE {}

---------------------------------------------------------------------------
\* The alert, case and filing rows and the raisers' calls have their types.
CasesTypeOK ==
  /\ \A a \in Raised : alertRow[a].state \in AlertState /\ alertRow[a].case \in Cases \cup {NoCase}
  /\ \A c \in Cases : caseRow[c].status \in CaseStatus \cup {"none"}

\* Evaluations that raise the same condition at once leave one alert for it
\* (complianceAlerts.ts:114-119, 144-180).
OneAlertPerCondition ==
  \A a, b \in Raised : alertRow[a].source = alertRow[b].source => a = b

\* "a case must be reviewed before it can be cleared, escalated, or reported":
\* through every path of dispositions (complianceCaseWorkflow.ts:24-41, 51-115).
JudgedAfterReview ==
  \A c \in Cases : caseRow[c].status \in {"cleared", "escalated", "reported"} => caseRow[c].reviewed

\* An escalation is never a dead end: at the moment an alert is escalated its
\* case can still be disposed of, and the console offers exactly the dispositions
\* the server accepts for the case (complianceAlerts.ts:262-315,
\* ComplianceCaseWorkflowControls.tsx:26-56, 116-171).
EscalationsReachLiveCase ==
  \A a \in AlertIds :
    (alertRow'[a] # alertRow[a] /\ alertRow'[a] # NoCase /\ alertRow'[a].state = "escalated")
      => LET s == caseRow[alertRow'[a].case].status
         IN  /\ AllowedCaseTransitions(s) # {}
             /\ ComplianceCaseDispositionControls(s, TRUE) = AllowedCaseTransitions(s)

\* A filing that was submitted carries a submission reference, through every
\* retry after an unavailable submission (postgres.ts:527-543).
SubmittedHasReference ==
  \A f \in Filings : filing[f].status = "submitted" => filing[f].reference

\* Every step keeps one alert per condition, cases judged after review, submitted
\* filings referenced, and escalates only into a live case (complianceAlerts.ts,
\* complianceCaseWorkflow.ts).
CaseSafety ==
  [][/\ CasesTypeOK' /\ OneAlertPerCondition'
     /\ JudgedAfterReview' /\ SubmittedHasReference'
     /\ EscalationsReachLiveCase]_caseVars
=============================================================================
