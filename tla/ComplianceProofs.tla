-------------------------- MODULE ComplianceProofs --------------------------
\* Proofs about compliance cases and the documents uploaded as their evidence.  Each
\* section has the inductive invariant of one component, the steps that keep it, and the
\* theorem; the components share no state.
EXTENDS ComplianceCases, DocumentEvidence, TLAPS

\* Compliance alerts, cases and filings.

\* The rows of the three tables and an evaluation's open transaction.
AlertRows == [source : Sources, subject : Subjects \cup {NoSubject}, state : AlertState, case : Cases \cup {NoCase}]
CaseRows == [status : CaseStatus \cup {"none"}, subject : {NoSubject}, reviewed : BOOLEAN]
FilingStatus == {"none", "draft", "under_review", "approved_for_submission", "pending_submission", "submitted",
                 "submission_unavailable", "rejected"}
FilingRows == [status : FilingStatus, case : Cases \cup {NoCase}, reference : BOOLEAN]
Evaluations == [source : Sources, subject : Subjects \cup {NoSubject}, seen : BOOLEAN]

CaseTables ==
  /\ raise \in [Raisers -> Evaluations \cup {NoCase}] /\ alertRow \in [AlertIds -> AlertRows \cup {NoCase}]
  /\ caseRow \in [Cases -> CaseRows] /\ filing \in [Filings -> FilingRows]

\* The inductive invariant: one evaluation at a time holds the policy's lock, and what it
\* did not see there is still not there; a case under review was reviewed.
CasesInv ==
  /\ CaseTables
  /\ OneAlertPerCondition /\ SubmittedHasReference
  /\ \A q, r \in Raisers : raise[q] # NoCase /\ raise[r] # NoCase => q = r
  /\ \A r \in Raisers : raise[r] # NoCase /\ ~raise[r].seen =>
       \A a \in Raised : alertRow[a].source # raise[r].source
  /\ \A c \in Cases : caseRow[c].status \in {"under_review", "cleared", "escalated", "reported"} => caseRow[c].reviewed

\* A case in a state that can still be disposed of has dispositions, and the console
\* offers exactly those.
LEMMA LiveCase ==
  ASSUME NEW s \in CaseStatus \ {"closed"}
  PROVE  AllowedCaseTransitions(s) # {} /\ ComplianceCaseDispositionControls(s, TRUE) = AllowedCaseTransitions(s)
PROOF
<1>1. s \in {"open", "under_review", "cleared", "escalated", "reported"}
  BY Zenon DEF CaseStatus
<1>2. CASE s = "open"
  BY <1>2, Zenon DEF AllowedCaseTransitions, ComplianceCaseDispositionControls, DispositionTargets, CaseTransitions
<1>3. CASE s = "under_review"
  BY <1>3, Zenon DEF AllowedCaseTransitions, ComplianceCaseDispositionControls, DispositionTargets, CaseTransitions
<1>4. CASE s = "escalated"
  BY <1>4, Zenon DEF AllowedCaseTransitions, ComplianceCaseDispositionControls, DispositionTargets, CaseTransitions
<1>5. CASE s \in {"cleared", "reported"}
  BY <1>5, Zenon DEF AllowedCaseTransitions, ComplianceCaseDispositionControls, DispositionTargets, CaseTransitions
<1> QED BY <1>1, <1>2, <1>3, <1>4, <1>5, Zenon

\* What the table of dispositions rules out.
LEMMA DispositionTable ==
  ASSUME NEW s, NEW t \in AllowedCaseTransitions(s)
  PROVE  /\ t \in CaseStatus
         /\ t \in {"cleared", "escalated", "reported"} => s \in {"under_review", "escalated"}
BY Zenon DEF AllowedCaseTransitions, CaseStatus

\* One alert's row is written: its condition is no other row's, nor the one an evaluation
\* is about to insert, and an escalated row names a live case.
WritesAlert(id, row) ==
  /\ row \in AlertRows /\ alertRow' = [alertRow EXCEPT ![id] = row] /\ UNCHANGED <<caseRow, filing>>
  /\ row.state # "escalated" \/ caseRow[row.case].status \in CaseStatus \ {"closed"}
  /\ \A a \in Raised : alertRow[a].source = row.source => a = id
  /\ raise' \in [Raisers -> Evaluations \cup {NoCase}]
  /\ \A r \in Raisers : raise'[r] \in {raise[r], NoCase}
  /\ \A r \in Raisers : raise'[r] # NoCase /\ ~raise'[r].seen => raise'[r].source # row.source

LEMMA AlertWritten ==
  ASSUME CasesInv, NEW id, NEW row, WritesAlert(id, row)
  PROVE  CasesInv' /\ EscalationsReachLiveCase
PROOF
<1> USE DEF WritesAlert
<1>1. CaseTables /\ alertRow \in [AlertIds -> AlertRows \cup {NoCase}]
  BY Zenon DEF CasesInv, CaseTables
<1>2. /\ alertRow' \in [AlertIds -> AlertRows \cup {NoCase}]
      /\ \A a \in AlertIds : alertRow'[a] = IF a = id THEN row ELSE alertRow[a]
  BY <1>1, Zenon
<1>3. CaseTables'
  BY <1>1, <1>2, Zenon DEF CaseTables
<1>4. Raised' \subseteq Raised \cup {id} /\ Raised' \subseteq AlertIds /\ Raised \subseteq AlertIds
  BY <1>2, Zenon DEF Raised
<1>5. OneAlertPerCondition'
  <2> SUFFICES ASSUME NEW a \in Raised', NEW b \in Raised', alertRow'[a].source = alertRow'[b].source, a # b
               PROVE  FALSE
    BY Zenon DEF OneAlertPerCondition
  <2>1. CASE a # id /\ b # id
    BY <1>2, <1>4, <2>1, Zenon DEF CasesInv, OneAlertPerCondition
  <2>2. CASE a = id
    BY <1>2, <1>4, <2>2, Zenon
  <2>3. CASE b = id
    BY <1>2, <1>4, <2>3, Zenon
  <2> QED BY <2>1, <2>2, <2>3, Zenon
<1>6. ASSUME NEW r \in Raisers, raise'[r] # NoCase, ~raise'[r].seen, NEW a \in Raised'
      PROVE  alertRow'[a].source # raise'[r].source
  <2>1. CASE a = id
    BY <1>2, <1>4, <1>6, <2>1, Zenon
  <2>2. CASE a # id
    <3>1. raise'[r] = raise[r] /\ a \in Raised /\ alertRow'[a] = alertRow[a]
      BY <1>2, <1>4, <1>6, <2>2, Zenon
    <3> QED BY <1>6, <3>1, Zenon DEF CasesInv
  <2> QED BY <2>1, <2>2, Zenon
<1>7. \A q, r \in Raisers : raise'[q] # NoCase /\ raise'[r] # NoCase => q = r
  BY Zenon DEF CasesInv
<1>8. EscalationsReachLiveCase
  <2> SUFFICES ASSUME NEW a \in AlertIds, alertRow'[a] # alertRow[a], alertRow'[a].state = "escalated"
               PROVE  LET s == caseRow[alertRow'[a].case].status
                      IN  /\ AllowedCaseTransitions(s) # {}
                          /\ ComplianceCaseDispositionControls(s, TRUE) = AllowedCaseTransitions(s)
    BY Zenon DEF EscalationsReachLiveCase
  <2>1. alertRow'[a] = row
    BY <1>2, Zenon
  <2> QED BY <2>1, LiveCase, Zenon
<1>9. SubmittedHasReference'
  BY Zenon DEF CasesInv, SubmittedHasReference
<1> QED BY <1>3, <1>5, <1>6, <1>7, <1>8, <1>9, Zenon DEF CasesInv

\* Steps that leave the alerts and the evaluations alone.
LEMMA CaseFrame ==
  ASSUME CasesInv, UNCHANGED <<raise, alertRow>>, caseRow' \in [Cases -> CaseRows], filing' \in [Filings -> FilingRows],
         SubmittedHasReference',
         \A c \in Cases : caseRow'[c].status \in {"under_review", "cleared", "escalated", "reported"} => caseRow'[c].reviewed
  PROVE  CasesInv' /\ EscalationsReachLiveCase
PROOF
<1>1. Raised' = Raised /\ CaseTables'
  BY Zenon DEF Raised, CasesInv, CaseTables
<1>2. OneAlertPerCondition'
  BY <1>1, Zenon DEF CasesInv, OneAlertPerCondition
<1> QED BY <1>1, <1>2, Zenon DEF CasesInv, EscalationsReachLiveCase

\* An operator moves an alert.
LEMMA AlertMoves ==
  ASSUME CasesInv, NEW a \in Raised, NEW s \in AlertState, NEW k \in Cases \cup {NoCase},
         alertRow' = [alertRow EXCEPT ![a] = [alertRow[a] EXCEPT !.state = s, !.case = k]],
         s # "escalated" \/ caseRow[k].status \in CaseStatus \ {"closed"},
         UNCHANGED <<raise, caseRow, filing>>
  PROVE  CasesInv' /\ EscalationsReachLiveCase
PROOF
<1> DEFINE row == [alertRow[a] EXCEPT !.state = s, !.case = k]
<1>1. alertRow[a] \in AlertRows /\ a \in AlertIds /\ raise \in [Raisers -> Evaluations \cup {NoCase}]
  BY Zenon DEF CasesInv, CaseTables, Raised
<1>2. row \in AlertRows
  BY <1>1, Zenon DEF AlertRows
<1>3. row.state = s /\ row.case = k /\ row.source = alertRow[a].source
  BY <1>1, Zenon DEF AlertRows
<1>4. \A b \in Raised : alertRow[b].source = row.source => b = a
  BY <1>3, Zenon DEF CasesInv, OneAlertPerCondition
<1>5. \A r \in Raisers : raise'[r] # NoCase /\ ~raise'[r].seen => raise'[r].source # row.source
  BY <1>3, Zenon DEF CasesInv
<1>6. alertRow' = [alertRow EXCEPT ![a] = row]
  OBVIOUS
<1> HIDE DEF row
<1>7. row.state # "escalated" \/ caseRow[row.case].status \in CaseStatus \ {"closed"}
  BY <1>3, Zenon
<1>8. raise' \in [Raisers -> Evaluations \cup {NoCase}] /\ \A r \in Raisers : raise'[r] \in {raise[r], NoCase}
  BY <1>1, Zenon
<1>9. WritesAlert(a, row)
  BY <1>2, <1>4, <1>5, <1>6, <1>7, <1>8, Zenon DEF WritesAlert
<1> QED BY <1>9, AlertWritten, Zenon

\* An evaluation locks the policy row and looks for the condition.
LEMMA LookKeepsInv ==
  ASSUME CasesInv, NEW r \in Raisers, NEW s \in Sources, NEW who \in Subjects \cup {NoSubject}, RaiseLock(r, s, who)
  PROVE  CasesInv' /\ EscalationsReachLiveCase
PROOF
<1> DEFINE found == \E a \in Raised : alertRow[a].source = s
           tx == [source |-> s, subject |-> who, seen |-> found]
<1>1. raise' = [raise EXCEPT ![r] = tx] /\ (\A q \in Raisers : raise[q] = NoCase) /\ UNCHANGED <<alertRow, caseRow, filing>>
  BY Zenon DEF RaiseLock
<1>2. tx \in Evaluations /\ tx.source = s /\ tx.seen = found
  <2>1. found \in BOOLEAN
    BY Zenon
  <2> HIDE DEF found
  <2> QED BY <2>1, Zenon DEF Evaluations
<1>3. found \/ \A a \in Raised : alertRow[a].source # s
  BY Zenon
<1> HIDE DEF found, tx
<1>4. raise' \in [Raisers -> Evaluations \cup {NoCase}] /\ \A q \in Raisers : raise'[q] = IF q = r THEN tx ELSE NoCase
  BY <1>1, <1>2, Zenon DEF CasesInv, CaseTables
<1>5. Raised' = Raised
  BY <1>1, Zenon DEF Raised
<1>6. CaseTables'
  BY <1>1, <1>4, Zenon DEF CasesInv, CaseTables
<1>7. ASSUME NEW q \in Raisers, raise'[q] # NoCase, ~raise'[q].seen, NEW a \in Raised'
      PROVE  alertRow'[a].source # raise'[q].source
  BY <1>1, <1>2, <1>3, <1>4, <1>5, <1>7, Zenon
<1>8. \A p, q \in Raisers : raise'[p] # NoCase /\ raise'[q] # NoCase => p = q
  BY <1>4, Zenon
<1>9. OneAlertPerCondition' /\ SubmittedHasReference'
  BY <1>1, <1>5, Zenon DEF CasesInv, OneAlertPerCondition, SubmittedHasReference
<1> QED BY <1>1, <1>6, <1>7, <1>8, <1>9, Zenon DEF CasesInv, EscalationsReachLiveCase

\* The evaluation inserts its alert, or finds it was there, and commits.
LEMMA InsertAlertKeepsInv ==
  ASSUME CasesInv, NEW r \in Raisers, RaisePostgresComplianceAlert(r)
  PROVE  CasesInv' /\ EscalationsReachLiveCase
PROOF
<1>1. /\ raise[r] # NoCase /\ raise' = [raise EXCEPT ![r] = NoCase] /\ UNCHANGED <<caseRow, filing>>
      /\ raise \in [Raisers -> Evaluations \cup {NoCase}] /\ raise[r] \in Evaluations
  BY Zenon DEF RaisePostgresComplianceAlert, CasesInv, CaseTables
<1>2. raise' \in [Raisers -> Evaluations \cup {NoCase}] /\ \A q \in Raisers : raise'[q] = IF q = r THEN NoCase ELSE raise[q]
  BY <1>1, Zenon
<1>3. \A q \in Raisers : raise'[q] = NoCase
  BY <1>1, <1>2, Zenon DEF CasesInv
<1>4. CASE raise[r].seen
  <2>1. alertRow' = alertRow
    BY <1>4, Zenon DEF RaisePostgresComplianceAlert
  <2>2. Raised' = Raised /\ CaseTables'
    BY <1>1, <1>2, <2>1, Zenon DEF Raised, CasesInv, CaseTables
  <2>3. OneAlertPerCondition' /\ SubmittedHasReference'
    BY <1>1, <2>1, <2>2, Zenon DEF CasesInv, OneAlertPerCondition, SubmittedHasReference
  <2> QED BY <1>1, <1>3, <2>1, <2>2, <2>3, Zenon DEF CasesInv, EscalationsReachLiveCase
<1>5. CASE ~raise[r].seen
  <2> DEFINE row == [source |-> raise[r].source, subject |-> raise[r].subject, state |-> "open", case |-> NoCase]
  <2>1. alertRow' = [alertRow EXCEPT ![NextId] = row]
    BY <1>5, Zenon DEF RaisePostgresComplianceAlert
  <2>2. row \in AlertRows /\ row.state = "open" /\ row.source = raise[r].source
    BY <1>1, Zenon DEF AlertRows, Evaluations, AlertState
  <2> HIDE DEF row
  <2>3. \A a \in Raised : alertRow[a].source # row.source
    BY <1>1, <1>5, <2>2, Zenon DEF CasesInv
  <2>4. row.state # "escalated"
    BY <2>2, Zenon
  <2>5. /\ \A q \in Raisers : raise'[q] \in {raise[q], NoCase}
        /\ \A q \in Raisers : raise'[q] # NoCase /\ ~raise'[q].seen => raise'[q].source # row.source
        /\ \A a \in Raised : alertRow[a].source = row.source => a = NextId
    BY <1>3, <2>3, Zenon
  <2>6. WritesAlert(NextId, row)
    BY <1>1, <1>2, <2>1, <2>2, <2>4, <2>5, Zenon DEF WritesAlert
  <2> QED BY <2>6, AlertWritten, Zenon
<1> QED BY <1>4, <1>5, Zenon

\* A case is opened or disposed of.
LEMMA CaseKeepsInv ==
  ASSUME CasesInv, NEW c \in Cases,
         CreatePostgresComplianceCase(c) \/ \E status \in CaseStatus : DisposeComplianceCase(c, status)
  PROVE  CasesInv' /\ EscalationsReachLiveCase
PROOF
<1>1. CaseTables /\ caseRow \in [Cases -> CaseRows] /\ caseRow[c] \in CaseRows /\ filing \in [Filings -> FilingRows]
  BY Zenon DEF CasesInv, CaseTables
<1>2. UNCHANGED <<raise, alertRow, filing>>
  BY Zenon DEF CreatePostgresComplianceCase, DisposeComplianceCase
<1>3. PICK row \in CaseRows : /\ caseRow' = [caseRow EXCEPT ![c] = row]
                              /\ row.status \in {"under_review", "cleared", "escalated", "reported"} => row.reviewed
  <2>1. CASE CreatePostgresComplianceCase(c)
    <3> DEFINE row == [caseRow[c] EXCEPT !.status = "open"]
    <3>1. caseRow' = [caseRow EXCEPT ![c] = row]
      BY <2>1, Zenon DEF CreatePostgresComplianceCase
    <3>2. row \in CaseRows /\ row.status = "open"
      BY <1>1, Zenon DEF CaseRows, CaseStatus
    <3> HIDE DEF row
    <3> QED BY <3>1, <3>2, Zenon
  <2>2. ASSUME NEW status \in CaseStatus, DisposeComplianceCase(c, status)
        PROVE  \E row \in CaseRows : /\ caseRow' = [caseRow EXCEPT ![c] = row]
                                     /\ row.status \in {"under_review", "cleared", "escalated", "reported"} => row.reviewed
    <3> DEFINE was == caseRow[c].reviewed \/ status = "under_review"
               row == [caseRow[c] EXCEPT !.status = status, !.reviewed = was]
    <3>1. caseRow' = [caseRow EXCEPT ![c] = row] /\ status \in AllowedCaseTransitions(caseRow[c].status)
      BY <2>2, Zenon DEF DisposeComplianceCase
    <3>2. status \in {"under_review", "cleared", "escalated", "reported"} => was
      BY <3>1, DispositionTable, Zenon DEF CasesInv
    <3>3. was \in BOOLEAN
      BY Zenon
    <3> HIDE DEF was
    <3>4. row \in CaseRows
      BY <1>1, <3>3, Zenon DEF CaseRows
    <3>5. row.status = status /\ row.reviewed = was
      BY <1>1, Zenon DEF CaseRows
    <3> HIDE DEF row
    <3> QED BY <3>1, <3>2, <3>4, <3>5, Zenon
  <2> QED BY <2>1, <2>2, Zenon
<1>4. caseRow' \in [Cases -> CaseRows] /\ \A d \in Cases : caseRow'[d] = IF d = c THEN row ELSE caseRow[d]
  BY <1>1, <1>3, Zenon
<1>5. SubmittedHasReference'
  BY <1>2, Zenon DEF CasesInv, SubmittedHasReference
<1>6. \A d \in Cases : caseRow'[d].status \in {"under_review", "cleared", "escalated", "reported"} => caseRow'[d].reviewed
  BY <1>3, <1>4, Zenon DEF CasesInv
<1> QED BY <1>1, <1>2, <1>4, <1>5, <1>6, CaseFrame, Zenon

\* A filing is drafted or moved.
LEMMA FilingKeepsInv ==
  ASSUME CasesInv, NEW f \in Filings,
         \/ \E c \in Cases : CreatePostgresSarStrFiling(f, c)
         \/ \E status \in {"under_review", "approved_for_submission", "pending_submission",
                           "submitted", "submission_unavailable", "rejected"}, given \in BOOLEAN :
              TransitionPostgresSarStrFiling(f, status, given)
  PROVE  CasesInv' /\ EscalationsReachLiveCase
PROOF
<1>1. filing \in [Filings -> FilingRows] /\ filing[f] \in FilingRows /\ caseRow \in [Cases -> CaseRows]
  BY Zenon DEF CasesInv, CaseTables
<1>2. UNCHANGED <<raise, alertRow, caseRow>>
  BY Zenon DEF CreatePostgresSarStrFiling, TransitionPostgresSarStrFiling
<1>3. PICK row \in FilingRows : filing' = [filing EXCEPT ![f] = row] /\ (row.status = "submitted" => row.reference)
  <2>1. ASSUME NEW c \in Cases, CreatePostgresSarStrFiling(f, c)
        PROVE  \E row \in FilingRows : filing' = [filing EXCEPT ![f] = row] /\ (row.status = "submitted" => row.reference)
    <3> DEFINE row == [status |-> "draft", case |-> c, reference |-> FALSE]
    <3>1. filing' = [filing EXCEPT ![f] = row]
      BY <2>1, Zenon DEF CreatePostgresSarStrFiling
    <3>2. row \in FilingRows /\ row.status = "draft"
      BY Zenon DEF FilingRows, FilingStatus
    <3> HIDE DEF row
    <3> QED BY <3>1, <3>2, Zenon
  <2>2. ASSUME NEW status \in {"under_review", "approved_for_submission", "pending_submission",
                               "submitted", "submission_unavailable", "rejected"}, NEW given \in BOOLEAN,
               TransitionPostgresSarStrFiling(f, status, given)
        PROVE  \E row \in FilingRows : filing' = [filing EXCEPT ![f] = row] /\ (row.status = "submitted" => row.reference)
    <3> DEFINE ref == filing[f].reference \/ given
               row == [filing[f] EXCEPT !.status = status, !.reference = ref]
    <3>1. filing' = [filing EXCEPT ![f] = row]
      BY <2>2, Zenon DEF TransitionPostgresSarStrFiling
    <3>2. status = "submitted" => ref
      BY <2>2, Zenon DEF TransitionPostgresSarStrFiling
    <3>3. ref \in BOOLEAN /\ status \in FilingStatus
      BY Zenon DEF FilingStatus
    <3> HIDE DEF ref
    <3>4. row \in FilingRows
      BY <1>1, <3>3, Zenon DEF FilingRows
    <3>5. row.status = status /\ row.reference = ref
      BY <1>1, Zenon DEF FilingRows
    <3> HIDE DEF row
    <3> QED BY <3>1, <3>2, <3>4, <3>5, Zenon
  <2> QED BY <2>1, <2>2, Zenon
<1>4. filing' \in [Filings -> FilingRows] /\ \A d \in Filings : filing'[d] = IF d = f THEN row ELSE filing[d]
  BY <1>1, <1>3, Zenon
<1>5. SubmittedHasReference'
  BY <1>3, <1>4, Zenon DEF CasesInv, SubmittedHasReference
<1>6. \A d \in Cases : caseRow'[d].status \in {"under_review", "cleared", "escalated", "reported"} => caseRow'[d].reviewed
  BY <1>2, Zenon DEF CasesInv
<1> QED BY <1>1, <1>2, <1>4, <1>5, <1>6, CaseFrame, Zenon

\* For any evaluations, conditions, cases and filings: one alert per condition, cases
\* judged after review, submitted filings referenced, escalations into live cases only.
THEOREM CasesSafe == CasesSpec => CaseSafety
PROOF
<1>1. CasesInit => CasesInv
  <2> SUFFICES ASSUME CasesInit PROVE CasesInv
    OBVIOUS
  <2>1. CaseTables
    BY Zenon DEF CasesInit, CaseTables, CaseRows, FilingRows, FilingStatus
  <2>2. Raised = {}
    BY Zenon DEF CasesInit, Raised
  <2>3. OneAlertPerCondition
    BY <2>2, Zenon DEF OneAlertPerCondition
  <2>4. SubmittedHasReference
    BY Zenon DEF CasesInit, SubmittedHasReference
  <2> QED BY <2>1, <2>2, <2>3, <2>4, Zenon DEF CasesInit, CasesInv
<1>2. ASSUME CasesInv, [CasesNext]_caseVars PROVE CasesInv' /\ EscalationsReachLiveCase
  <2> USE <1>2
  <2>1. ASSUME NEW a \in AlertIds, NEW s \in {"acknowledged", "dismissed"}, a \in Raised,
               alertRow' = [alertRow EXCEPT ![a].state = s], UNCHANGED <<raise, caseRow, filing>>
        PROVE  CasesInv' /\ EscalationsReachLiveCase
    <3>1. alertRow[a] \in AlertRows
      BY <2>1, Zenon DEF CasesInv, CaseTables, Raised
    <3>2. alertRow[a].case \in Cases \cup {NoCase} /\ [alertRow[a] EXCEPT !.state = s] = [alertRow[a] EXCEPT !.state = s, !.case = alertRow[a].case]
      BY <3>1, Zenon DEF AlertRows
    <3>3. alertRow' = [alertRow EXCEPT ![a] = [alertRow[a] EXCEPT !.state = s, !.case = alertRow[a].case]]
      BY <2>1, <3>2, Zenon
    <3>4. s \in AlertState /\ s # "escalated"
      BY Zenon DEF AlertState
    <3> QED BY <2>1, <3>2, <3>3, <3>4, AlertMoves, Zenon
  <2>2. ASSUME NEW a \in AlertIds, AcknowledgePostgresComplianceAlert(a) \/ DismissPostgresComplianceAlert(a)
        PROVE  CasesInv' /\ EscalationsReachLiveCase
    BY <2>1, <2>2, Zenon DEF AcknowledgePostgresComplianceAlert, DismissPostgresComplianceAlert, TransitionAlert
  <2>3. ASSUME NEW a \in AlertIds, NEW c \in Cases, EscalatePostgresComplianceAlert(a, c)
        PROVE  CasesInv' /\ EscalationsReachLiveCase
    <3>1. /\ a \in Raised /\ UNCHANGED <<raise, caseRow, filing>>
          /\ alertRow' = [alertRow EXCEPT ![a] = [alertRow[a] EXCEPT !.state = "escalated", !.case = c]]
          /\ caseRow[c].status \notin {"none", "closed"}
      BY <2>3, Zenon DEF EscalatePostgresComplianceAlert, TransitionAlert
    <3>2. caseRow[c].status \in CaseStatus \ {"closed"} /\ "escalated" \in AlertState
      BY <3>1, Zenon DEF CasesInv, CaseTables, CaseRows, AlertState
    <3> QED BY <3>1, <3>2, AlertMoves, Zenon
  <2>4. CASE UNCHANGED caseVars
    BY <2>4, CaseFrame, Zenon DEF caseVars, CasesInv, CaseTables, SubmittedHasReference
  <2> QED BY <2>2, <2>3, <2>4, LookKeepsInv, InsertAlertKeepsInv, CaseKeepsInv, FilingKeepsInv, Zenon DEF CasesNext
<1>3. CasesInv /\ [CasesNext]_caseVars => CasesInv'
  BY <1>2, Zenon
<1>4. CasesInv /\ CasesInv' /\ [CasesNext]_caseVars
        => [/\ CasesTypeOK' /\ OneAlertPerCondition' /\ JudgedAfterReview' /\ SubmittedHasReference'
            /\ EscalationsReachLiveCase]_caseVars
  <2> SUFFICES ASSUME CasesInv, CasesInv', [CasesNext]_caseVars
               PROVE  /\ CasesTypeOK' /\ OneAlertPerCondition' /\ JudgedAfterReview' /\ SubmittedHasReference'
                      /\ EscalationsReachLiveCase
    OBVIOUS
  <2>1. CasesTypeOK'
    BY Zenon DEF CasesInv, CaseTables, CasesTypeOK, Raised, AlertRows, CaseRows
  <2>2. JudgedAfterReview'
    BY Zenon DEF CasesInv, JudgedAfterReview
  <2> QED BY <1>2, <2>1, <2>2, Zenon DEF CasesInv
<1> QED BY <1>1, <1>3, <1>4, PTL DEF CasesSpec, CaseSafety

-----------------------------------------------------------------------------
\* Documents and their analysis.

UploadIntents == [status : {"none", "open", "finalized"}, by : Officers \cup {NoOfficer},
                  declared : Contents \cup {Nothing}, expired : BOOLEAN]
DocumentRows == [status : ReviewStatus \cup {"absent"}, verified : Contents \cup {Nothing}]
UploadForms == [step : {"idle", "intent", "stored"}, intent : 0..MaxIntents]

UploadTypes ==
  /\ intent \in [Intents -> UploadIntents]
  /\ stored \in [Intents -> Contents \cup {Nothing}]
  /\ document \in [Intents -> DocumentRows]
  /\ listed \in [Officers -> [Intents -> ReviewStatus \cup {"absent"}]]
  /\ upload \in [Officers -> UploadForms]

RowsFollowIntents == \A i \in Intents : document[i].status # "absent" <=> intent[i].status = "finalized"
RowsMatchStorage ==
  \A i \in Intents : document[i].status # "absent" => document[i].verified = stored[i] /\ stored[i] \in Contents
OpenIntentsDeclare == \A i \in Intents : intent[i].status = "open" => intent[i].declared \in Contents
FormsHoldIntents ==
  \A o \in Officers : upload[o].step # "idle" =>
    /\ upload[o].intent \in Intents
    /\ intent[upload[o].intent].by = o /\ intent[upload[o].intent].status = "open"

\* The invariant of the uploads: a form under way holds an open intent of its own
\* operator, so nobody writes to the object of a document that was recorded.
UploadInv == UploadTypes /\ RowsFollowIntents /\ RowsMatchStorage /\ OpenIntentsDeclare /\ FormsHoldIntents

\* The invariant of the analysis: an unavailable job left its evidence.
AnalysisInv ==
  /\ consent \in [status : {"absent", "active", "lapsed"}, scope : Scopes]
  /\ job \in [status : {"absent", "resolving", "queued", "review_required", "unavailable"}, kind : Scopes]
  /\ analysis \subseteq Dispositions
  /\ decision \in Decisions \cup {"none"}
  /\ job.status = "unavailable" => "unavailable" \in analysis

\* The part of JudgementsStand about documents.
ReviewsStand ==
  \A i \in Intents :
    /\ document[i].status \in {"rejected", "expired"} => document'[i].status = document[i].status
    /\ document[i].status = "approved" => document'[i].status \in {"approved", "expired"}

\* An operator opens an intent.
LEMMA IntentKeepsInv ==
  ASSUME UploadInv, NEW o \in Officers, NEW c \in Contents, CreatePostgresKycDocumentUploadIntent(o, c)
  PROVE  UploadInv' /\ ReviewsStand
PROOF
<1>1. PICK i \in Intents : /\ intent[i].status = "none" /\ UNCHANGED <<stored, document, listed>> /\ upload[o].step = "idle"
                           /\ intent' = [intent EXCEPT ![i] = [status |-> "open", by |-> o, declared |-> c, expired |-> FALSE]]
                           /\ upload' = [upload EXCEPT ![o] = [step |-> "intent", intent |-> i]]
  BY Zenon DEF CreatePostgresKycDocumentUploadIntent, StorageCreateUploadUrl
<1> DEFINE row == [status |-> "open", by |-> o, declared |-> c, expired |-> FALSE]
           form == [step |-> "intent", intent |-> i]
<1>2. row \in UploadIntents /\ row.status = "open" /\ row.by = o /\ row.declared = c
  BY Zenon DEF UploadIntents
<1>3. form \in UploadForms /\ form.step = "intent" /\ form.intent = i
  <2>1. i \in 0..MaxIntents
    BY SMTT(20) DEF Intents
  <2> QED BY <2>1, Zenon DEF UploadForms
<1>4. UploadTypes /\ intent' = [intent EXCEPT ![i] = row] /\ upload' = [upload EXCEPT ![o] = form]
  BY <1>1, Zenon DEF UploadInv
<1> HIDE DEF row, form
<1>5. /\ intent' \in [Intents -> UploadIntents] /\ upload' \in [Officers -> UploadForms]
      /\ \A j \in Intents : intent'[j] = IF j = i THEN row ELSE intent[j]
      /\ \A p \in Officers : upload'[p] = IF p = o THEN form ELSE upload[p]
  BY <1>2, <1>3, <1>4, Zenon DEF UploadTypes
<1>6. UploadTypes'
  BY <1>1, <1>4, <1>5, Zenon DEF UploadTypes
<1>7. document[i].status = "absent"
  BY <1>1, Zenon DEF UploadInv, RowsFollowIntents
<1>8. RowsFollowIntents'
  BY <1>1, <1>2, <1>5, <1>7, Zenon DEF UploadInv, RowsFollowIntents
<1>9. OpenIntentsDeclare'
  BY <1>2, <1>5, Zenon DEF UploadInv, OpenIntentsDeclare
<1>10. ASSUME NEW p \in Officers, upload'[p].step # "idle"
       PROVE  /\ upload'[p].intent \in Intents
              /\ intent'[upload'[p].intent].by = p /\ intent'[upload'[p].intent].status = "open"
  <2>1. CASE p = o
    BY <1>2, <1>3, <1>5, <2>1, Zenon
  <2>2. CASE p # o
    <3>1. /\ upload'[p] = upload[p] /\ upload[p].intent \in Intents
          /\ intent[upload[p].intent].by = p /\ intent[upload[p].intent].status = "open"
      BY <1>5, <1>10, <2>2, Zenon DEF UploadInv, FormsHoldIntents
    <3>2. upload[p].intent # i
      BY <1>1, <3>1, Zenon
    <3> QED BY <1>5, <3>1, <3>2, Zenon
  <2> QED BY <2>1, <2>2, Zenon
<1>11. FormsHoldIntents'
  BY <1>10, Zenon DEF FormsHoldIntents
<1>12. RowsMatchStorage' /\ ReviewsStand
  BY <1>1, Zenon DEF UploadInv, RowsMatchStorage, ReviewsStand
<1> QED BY <1>6, <1>8, <1>9, <1>11, <1>12, Zenon DEF UploadInv

\* The browser's PUT goes to an intent without a document.
LEMMA PutKeepsInv ==
  ASSUME UploadInv, NEW o \in Officers, NEW c \in Contents, PutObject(o, c)
  PROVE  UploadInv' /\ ReviewsStand
PROOF
<1> DEFINE i == upload[o].intent
           form == [upload[o] EXCEPT !.step = "stored"]
<1>1. /\ upload[o].step = "intent" /\ stored' = [stored EXCEPT ![i] = c] /\ UNCHANGED <<intent, document, listed>>
      /\ upload' = [upload EXCEPT ![o] = form] /\ UploadTypes /\ upload[o] \in UploadForms
  BY Zenon DEF PutObject, UploadInv, UploadTypes
<1>2. i \in Intents /\ intent[i].by = o /\ intent[i].status = "open"
  BY <1>1, Zenon DEF UploadInv, FormsHoldIntents
<1>3. form \in UploadForms
  BY <1>1, Zenon DEF UploadForms
<1>4. form.intent = i
  BY <1>1, Zenon DEF UploadForms
<1>5. document[i].status = "absent"
  BY <1>2, Zenon DEF UploadInv, RowsFollowIntents
<1> HIDE DEF i, form
<1>6. /\ stored' \in [Intents -> Contents \cup {Nothing}] /\ upload' \in [Officers -> UploadForms]
      /\ \A j \in Intents : stored'[j] = IF j = i THEN c ELSE stored[j]
      /\ \A p \in Officers : upload'[p] = IF p = o THEN form ELSE upload[p]
  BY <1>1, <1>2, <1>3, Zenon DEF UploadTypes
<1>7. UploadTypes'
  BY <1>1, <1>6, Zenon DEF UploadTypes
<1>8. RowsMatchStorage'
  <2>1. \A j \in Intents : document[j].status # "absent" => stored'[j] = stored[j]
    BY <1>5, <1>6, Zenon
  <2> QED BY <1>1, <2>1, Zenon DEF UploadInv, RowsMatchStorage
<1>9. FormsHoldIntents'
  <2>1. ASSUME NEW p \in Officers, upload'[p].step # "idle"
        PROVE  upload'[p].intent \in Intents /\ intent[upload'[p].intent].by = p /\ intent[upload'[p].intent].status = "open"
    <3>1. CASE p = o
      BY <1>2, <1>4, <1>6, <3>1, Zenon
    <3>2. CASE p # o
      BY <1>6, <2>1, <3>2, Zenon DEF UploadInv, FormsHoldIntents
    <3> QED BY <3>1, <3>2, Zenon
  <2> QED BY <1>1, <2>1, Zenon DEF FormsHoldIntents
<1>10. RowsFollowIntents' /\ OpenIntentsDeclare' /\ ReviewsStand
  BY <1>1, Zenon DEF UploadInv, RowsFollowIntents, OpenIntentsDeclare, ReviewsStand
<1> QED BY <1>7, <1>8, <1>9, <1>10, Zenon DEF UploadInv

\* The document is recorded with the bytes that are stored.
LEMMA FinalizeKeepsInv ==
  ASSUME UploadInv, NEW o \in Officers, FinalizePostgresKycDocumentUpload(o)
  PROVE  UploadInv' /\ ReviewsStand
PROOF
<1> DEFINE i == upload[o].intent
           row == [intent[i] EXCEPT !.status = "finalized"]
           doc == [status |-> "submitted", verified |-> intent[i].declared]
           form == [step |-> "idle", intent |-> 0]
<1>1. /\ upload[o].step = "stored" /\ stored[i] = intent[i].declared /\ UNCHANGED <<stored, listed>>
      /\ document' = [document EXCEPT ![i] = doc] /\ intent' = [intent EXCEPT ![i] = row]
      /\ upload' = [upload EXCEPT ![o] = form]
  BY Zenon DEF FinalizePostgresKycDocumentUpload
<1>2. /\ i \in Intents /\ intent[i].by = o /\ intent[i].status = "open" /\ intent[i].declared \in Contents
      /\ UploadTypes /\ intent[i] \in UploadIntents
  BY <1>1, Zenon DEF UploadInv, UploadTypes, FormsHoldIntents, OpenIntentsDeclare
<1>3. doc \in DocumentRows /\ doc.status = "submitted" /\ doc.verified = intent[i].declared
  BY <1>2, Zenon DEF DocumentRows, ReviewStatus
<1>4. form \in UploadForms /\ form.step = "idle"
  <2>1. 0 \in 0..MaxIntents
    BY EvidenceAssumption, SMTT(20)
  <2> QED BY <2>1, Zenon DEF UploadForms
<1>5. row \in UploadIntents
  BY <1>2, Zenon DEF UploadIntents
<1>6. row.status = "finalized"
  BY <1>2, Zenon DEF UploadIntents
<1>7. document[i].status = "absent"
  BY <1>2, Zenon DEF UploadInv, RowsFollowIntents
<1> HIDE DEF i, row, doc, form
<1>8. /\ document' \in [Intents -> DocumentRows] /\ intent' \in [Intents -> UploadIntents] /\ upload' \in [Officers -> UploadForms]
      /\ \A j \in Intents : document'[j] = IF j = i THEN doc ELSE document[j]
      /\ \A j \in Intents : intent'[j] = IF j = i THEN row ELSE intent[j]
      /\ \A p \in Officers : upload'[p] = IF p = o THEN form ELSE upload[p]
  BY <1>1, <1>2, <1>3, <1>4, <1>5, Zenon DEF UploadTypes
<1>9. UploadTypes'
  BY <1>1, <1>2, <1>8, Zenon DEF UploadTypes
<1>10. RowsFollowIntents'
  BY <1>3, <1>6, <1>8, Zenon DEF UploadInv, RowsFollowIntents
<1>11. RowsMatchStorage'
  <2>1. ASSUME NEW j \in Intents, document'[j].status # "absent"
        PROVE  document'[j].verified = stored[j] /\ stored[j] \in Contents
    <3>1. CASE j = i
      BY <1>1, <1>2, <1>3, <1>8, <3>1, Zenon
    <3>2. CASE j # i
      BY <1>8, <2>1, <3>2, Zenon DEF UploadInv, RowsMatchStorage
    <3> QED BY <3>1, <3>2, Zenon
  <2> QED BY <1>1, <2>1, Zenon DEF RowsMatchStorage
<1>12. OpenIntentsDeclare'
  BY <1>6, <1>8, Zenon DEF UploadInv, OpenIntentsDeclare
<1>13. ASSUME NEW p \in Officers, upload'[p].step # "idle"
       PROVE  /\ upload'[p].intent \in Intents
              /\ intent'[upload'[p].intent].by = p /\ intent'[upload'[p].intent].status = "open"
  <2>1. p # o /\ upload'[p] = upload[p]
    BY <1>4, <1>8, <1>13, Zenon
  <2>2. upload[p].intent \in Intents /\ intent[upload[p].intent].by = p /\ intent[upload[p].intent].status = "open"
    BY <1>13, <2>1, Zenon DEF UploadInv, FormsHoldIntents
  <2>3. upload[p].intent # i
    BY <1>2, <2>1, <2>2, Zenon
  <2> QED BY <1>8, <2>1, <2>2, <2>3, Zenon
<1>14. ReviewsStand
  BY <1>7, <1>8, Zenon DEF ReviewsStand
<1>15. FormsHoldIntents'
  BY <1>13, Zenon DEF FormsHoldIntents
<1> QED BY <1>9, <1>10, <1>11, <1>12, <1>14, <1>15, Zenon DEF UploadInv

\* An intent expires, or a form is abandoned.
LEMMA AbandonKeepsInv ==
  ASSUME UploadInv, (\E i \in Intents : IntentExpires(i)) \/ (\E o \in Officers : KycDocumentUploadForm(o))
  PROVE  UploadInv' /\ ReviewsStand
PROOF
<1>1. CASE \E i \in Intents : IntentExpires(i)
  <2>1. PICK i \in Intents : IntentExpires(i)
    BY <1>1, Zenon
  <2> DEFINE row == [intent[i] EXCEPT !.expired = TRUE]
  <2>2. intent' = [intent EXCEPT ![i] = row] /\ UNCHANGED <<stored, upload, document, listed>>
    BY <2>1, Zenon DEF IntentExpires
  <2>3. intent[i] \in UploadIntents /\ UploadTypes
    BY Zenon DEF UploadInv, UploadTypes
  <2>4. row \in UploadIntents
    BY <2>3, Zenon DEF UploadIntents
  <2>5. row.status = intent[i].status /\ row.by = intent[i].by /\ row.declared = intent[i].declared
    BY <2>3, Zenon DEF UploadIntents
  <2> HIDE DEF row
  <2>6. intent' \in [Intents -> UploadIntents] /\ \A j \in Intents : intent'[j] = IF j = i THEN row ELSE intent[j]
    BY <2>2, <2>3, <2>4, Zenon DEF UploadTypes
  <2>7. \A j \in Intents : intent'[j].status = intent[j].status /\ intent'[j].by = intent[j].by /\ intent'[j].declared = intent[j].declared
    BY <2>5, <2>6, Zenon
  <2>8. UploadTypes'
    BY <2>2, <2>3, <2>6, Zenon DEF UploadTypes
  <2>9. RowsFollowIntents' /\ OpenIntentsDeclare'
    BY <2>2, <2>7, Zenon DEF UploadInv, RowsFollowIntents, OpenIntentsDeclare
  <2>10. RowsMatchStorage' /\ ReviewsStand
    BY <2>2, Zenon DEF UploadInv, RowsMatchStorage, ReviewsStand
  <2>11. FormsHoldIntents'
    <3>1. ASSUME NEW o \in Officers, upload[o].step # "idle"
          PROVE  upload[o].intent \in Intents /\ intent'[upload[o].intent].by = o /\ intent'[upload[o].intent].status = "open"
      BY <2>7, <3>1, Zenon DEF UploadInv, FormsHoldIntents
    <3> QED BY <2>2, <3>1, Zenon DEF FormsHoldIntents
  <2> QED BY <2>8, <2>9, <2>10, <2>11, Zenon DEF UploadInv
<1>2. CASE \E o \in Officers : KycDocumentUploadForm(o)
  <2>1. PICK o \in Officers : KycDocumentUploadForm(o)
    BY <1>2, Zenon
  <2> DEFINE form == [step |-> "idle", intent |-> 0]
  <2>2. upload' = [upload EXCEPT ![o] = form] /\ UNCHANGED <<intent, stored, document, listed>> /\ UploadTypes
    BY <2>1, Zenon DEF KycDocumentUploadForm, UploadInv
  <2>3. form \in UploadForms /\ form.step = "idle"
    <3>1. 0 \in 0..MaxIntents
      BY EvidenceAssumption, SMTT(20)
    <3> QED BY <3>1, Zenon DEF UploadForms
  <2> HIDE DEF form
  <2>4. upload' \in [Officers -> UploadForms] /\ \A p \in Officers : upload'[p] = IF p = o THEN form ELSE upload[p]
    BY <2>2, <2>3, Zenon DEF UploadTypes
  <2>5. UploadTypes'
    BY <2>2, <2>4, Zenon DEF UploadTypes
  <2>6. \A p \in Officers : upload'[p].step # "idle" => upload'[p] = upload[p]
    BY <2>3, <2>4, Zenon
  <2>7. FormsHoldIntents'
    <3>1. ASSUME NEW p \in Officers, upload'[p].step # "idle"
          PROVE  /\ upload'[p].intent \in Intents
                 /\ intent[upload'[p].intent].by = p /\ intent[upload'[p].intent].status = "open"
      BY <2>6, <3>1, Zenon DEF UploadInv, FormsHoldIntents
    <3> QED BY <2>2, <3>1, Zenon DEF FormsHoldIntents
  <2>8. RowsFollowIntents' /\ OpenIntentsDeclare' /\ RowsMatchStorage' /\ ReviewsStand
    BY <2>2, Zenon DEF UploadInv, RowsFollowIntents, OpenIntentsDeclare, RowsMatchStorage, ReviewsStand
  <2> QED BY <2>5, <2>7, <2>8, Zenon DEF UploadInv
<1> QED BY <1>1, <1>2, Zenon

\* What the table of reviews allows.
LEMMA ReviewTable ==
  ASSUME NEW s \in ReviewStatus, NEW t \in AllowedReview[s]
  PROVE  t \in ReviewStatus /\ s \notin {"rejected", "expired"} /\ (s = "approved" => t = "expired")
BY SMTT(20) DEF AllowedReview, ReviewStatus

\* A document is reviewed, or a table is refetched.
LEMMA ReviewKeepsInv ==
  ASSUME UploadInv, NEW o \in Officers,
         \/ RefetchDocuments(o)
         \/ \E i \in Intents, to \in ReviewStatus :
              document[i].status # "absent" /\ UpdatePostgresKycDocumentReview(o, i, to)
  PROVE  UploadInv' /\ ReviewsStand
PROOF
<1>0. UploadTypes /\ UNCHANGED <<intent, stored, upload>>
  BY Zenon DEF UploadInv, RefetchDocuments, UpdatePostgresKycDocumentReview, uploadVars
<1>1. CASE RefetchDocuments(o)
  <2>1. \A i \in Intents : document[i].status \in ReviewStatus \cup {"absent"}
    BY <1>0, Zenon DEF UploadTypes, DocumentRows
  <2>2. listed' = [listed EXCEPT ![o] = [i \in Intents |-> document[i].status]] /\ document' = document
    BY <1>1, Zenon DEF RefetchDocuments
  <2>3. listed' \in [Officers -> [Intents -> ReviewStatus \cup {"absent"}]]
    BY <1>0, <2>1, <2>2, Zenon DEF UploadTypes
  <2>4. UploadTypes'
    BY <1>0, <2>2, <2>3, Zenon DEF UploadTypes
  <2> QED BY <1>0, <2>2, <2>4, Zenon DEF UploadInv, RowsFollowIntents, OpenIntentsDeclare, RowsMatchStorage,
           FormsHoldIntents, ReviewsStand
<1>2. CASE \E i \in Intents, to \in ReviewStatus :
             document[i].status # "absent" /\ UpdatePostgresKycDocumentReview(o, i, to)
  <2>1. PICK i \in Intents, to \in ReviewStatus :
          document[i].status # "absent" /\ UpdatePostgresKycDocumentReview(o, i, to)
    BY <1>2, Zenon
  <2> DEFINE doc == [document[i] EXCEPT !.status = to]
  <2>2. /\ to \in AllowedReview[document[i].status] /\ document' = [document EXCEPT ![i] = doc] /\ listed' = listed
    BY <2>1, Zenon DEF UpdatePostgresKycDocumentReview
  <2>3. document[i] \in DocumentRows
    BY <1>0, Zenon DEF UploadTypes
  <2>4. document[i].status \in ReviewStatus
    BY <2>1, <2>3, Zenon DEF DocumentRows
  <2>5. doc \in DocumentRows
    BY <2>3, Zenon DEF DocumentRows
  <2>6. doc.status = to /\ doc.verified = document[i].verified
    BY <2>3, Zenon DEF DocumentRows
  <2>7. document[i].status \notin {"rejected", "expired"} /\ (document[i].status = "approved" => to = "expired")
    BY <2>2, <2>4, ReviewTable, Zenon
  <2>8. to # "absent"
    BY Zenon DEF ReviewStatus
  <2> HIDE DEF doc
  <2>9. document' \in [Intents -> DocumentRows] /\ \A j \in Intents : document'[j] = IF j = i THEN doc ELSE document[j]
    BY <1>0, <2>2, <2>5, Zenon DEF UploadTypes
  <2>10. UploadTypes'
    BY <1>0, <2>2, <2>9, Zenon DEF UploadTypes
  <2>11. \A j \in Intents : (document'[j].status # "absent" <=> document[j].status # "absent") /\ document'[j].verified = document[j].verified
    BY <2>1, <2>6, <2>8, <2>9, Zenon
  <2>12. ReviewsStand
    BY <2>6, <2>7, <2>9, Zenon DEF ReviewsStand
  <2>13. RowsFollowIntents' /\ RowsMatchStorage'
    BY <1>0, <2>11, Zenon DEF UploadInv, RowsFollowIntents, RowsMatchStorage
  <2>14. OpenIntentsDeclare' /\ FormsHoldIntents'
    BY <1>0, Zenon DEF UploadInv, OpenIntentsDeclare, FormsHoldIntents
  <2> QED BY <2>10, <2>12, <2>13, <2>14, Zenon DEF UploadInv
<1> QED BY <1>1, <1>2, Zenon

\* Consents, jobs, evidence and decisions.
LEMMA AnalysisKeepsInv ==
  ASSUME AnalysisInv,
         \/ CreatePostgresVerificationConsent \/ ConsentLapses
         \/ \E s \in Scopes, uri \in {"absolute", "relative"} : RequestAnalysis(s, uri)
         \/ CreatePostgresDocumentAnalysisJob \/ AnalysisRefused
         \/ \E d \in Dispositions : PersistPostgresDocumentAnalysisEvidence(d)
         \/ \E d \in Decisions : CreatePostgresReviewerDecision(d)
  PROVE  AnalysisInv' /\ (decision # "none" => decision' = decision) /\ QueuedUnderActiveConsent
PROOF
<1> DEFINE JobStates == {"absent", "resolving", "queued", "review_required", "unavailable"}
<1>0. job \in [status : JobStates, kind : Scopes] /\ consent \in [status : {"absent", "active", "lapsed"}, scope : Scopes]
  BY Zenon DEF AnalysisInv
<1>1. CASE CreatePostgresVerificationConsent \/ ConsentLapses
  <2>1. PICK s \in {"active", "lapsed"} : consent' = [consent EXCEPT !.status = s] /\ UNCHANGED <<job, analysis, decision>>
    BY <1>1, Zenon DEF CreatePostgresVerificationConsent, ConsentLapses
  <2>2. consent' \in [status : {"absent", "active", "lapsed"}, scope : Scopes]
    BY <1>0, <2>1, Zenon
  <2>3. QueuedUnderActiveConsent
    BY <2>1, Zenon DEF QueuedUnderActiveConsent
  <2> QED BY <2>1, <2>2, <2>3, Zenon DEF AnalysisInv
<1>2. CASE \E s \in Scopes, uri \in {"absolute", "relative"} : RequestAnalysis(s, uri)
  <2>1. PICK s \in Scopes : /\ job' = [status |-> "resolving", kind |-> s] /\ UNCHANGED <<consent, analysis, decision>>
    BY <1>2, Zenon DEF RequestAnalysis
  <2>2. job' \in [status : JobStates, kind : Scopes] /\ job'.status = "resolving"
    BY <2>1, Zenon
  <2>3. QueuedUnderActiveConsent
    BY <2>2, Zenon DEF QueuedUnderActiveConsent
  <2>4. job'.status # "unavailable"
    BY <2>2, Zenon
  <2> QED BY <2>1, <2>2, <2>3, <2>4, Zenon DEF AnalysisInv
<1>3. CASE CreatePostgresDocumentAnalysisJob \/ AnalysisRefused
  <2>1. PICK s \in {"queued", "absent"} : /\ job' = [job EXCEPT !.status = s] /\ UNCHANGED <<consent, analysis, decision>>
                                          /\ s = "queued" => ConsentCovers(job.kind)
    BY <1>3, Zenon DEF CreatePostgresDocumentAnalysisJob, AnalysisRefused
  <2>2. job' \in [status : JobStates, kind : Scopes]
    BY <1>0, <2>1, Zenon
  <2>3. job'.status = s
    BY <1>0, <2>1, Zenon
  <2>4. QueuedUnderActiveConsent
    BY <2>1, <2>3, Zenon DEF QueuedUnderActiveConsent
  <2>5. job'.status # "unavailable"
    BY <2>3, Zenon
  <2> QED BY <2>1, <2>2, <2>4, <2>5, Zenon DEF AnalysisInv
<1>4. CASE \E d \in Dispositions : PersistPostgresDocumentAnalysisEvidence(d)
  <2>1. PICK d \in Dispositions : PersistPostgresDocumentAnalysisEvidence(d)
    BY <1>4, Zenon
  <2> DEFINE s == IF d = "unavailable" THEN "unavailable" ELSE "review_required"
  <2>2. analysis' = analysis \cup {d} /\ job' = [job EXCEPT !.status = s] /\ UNCHANGED <<consent, decision>>
    BY <2>1, Zenon DEF PersistPostgresDocumentAnalysisEvidence
  <2>3. s \in JobStates /\ (s = "unavailable" => d = "unavailable") /\ s # "queued"
    OBVIOUS
  <2> HIDE DEF s
  <2>4. job' \in [status : JobStates, kind : Scopes]
    BY <1>0, <2>2, <2>3, Zenon
  <2>5. job'.status = s
    BY <1>0, <2>2, Zenon
  <2>6. QueuedUnderActiveConsent
    BY <2>3, <2>5, Zenon DEF QueuedUnderActiveConsent
  <2>7. job'.status = "unavailable" => "unavailable" \in analysis'
    BY <2>2, <2>3, <2>5, Zenon
  <2>8. analysis' \subseteq Dispositions
    BY <2>2, Zenon DEF AnalysisInv
  <2> QED BY <2>2, <2>4, <2>6, <2>7, <2>8, Zenon DEF AnalysisInv
<1>5. CASE \E d \in Decisions : CreatePostgresReviewerDecision(d)
  <2>1. PICK d \in Decisions : decision = "none" /\ decision' = d /\ UNCHANGED <<consent, job, analysis>>
    BY <1>5, Zenon DEF CreatePostgresReviewerDecision
  <2>2. QueuedUnderActiveConsent
    BY <2>1, Zenon DEF QueuedUnderActiveConsent
  <2> QED BY <2>1, <2>2, Zenon DEF AnalysisInv
<1> QED BY <1>1, <1>2, <1>3, <1>4, <1>5, Zenon

\* What the invariants say of the offers of the analysis form and of the banner.
LEMMA DocumentFacts ==
  ASSUME UploadInv, AnalysisInv
  PROVE  EvidenceTypeOK /\ DocumentsMatchStorage /\ UnavailableIsCalledOut
PROOF
<1>1. EvidenceTypeOK
  BY Zenon DEF UploadInv, UploadTypes, AnalysisInv, EvidenceTypeOK, UploadIntents, DocumentRows, UploadForms
<1>2. ASSUME NEW role \in OperatorRole, NEW offer \in AnalysisJobSubmissionForm(role)
      PROVE  /\ role \in ComplianceOnlyProcedure
             /\ stored[offer[2]] \in Contents /\ document[offer[2]].verified = stored[offer[2]]
  <2>1. /\ role = "compliance_officer"
        /\ offer \in ListPostgresActiveVerificationConsents \X ListPostgresAnalysisReadyDocuments \X {StorageUrl}
    BY <1>2, Zenon DEF AnalysisJobSubmissionForm
  <2>2. offer[2] \in ListPostgresAnalysisReadyDocuments
    BY <2>1, Zenon
  <2>3. offer[2] \in Intents /\ document[offer[2]].status # "absent"
    BY <2>2, Zenon DEF ListPostgresAnalysisReadyDocuments
  <2> QED BY <2>1, <2>3, Zenon DEF UploadInv, RowsMatchStorage, ComplianceOnlyProcedure
<1>3. DocumentsMatchStorage
  BY <1>2, Zenon DEF UploadInv, RowsFollowIntents, RowsMatchStorage, DocumentsMatchStorage
<1>4. ASSUME NEW role \in AuditorProcedure, "unavailable" \in analysis
      PROVE  KycEvidenceWorkspace(role).blocked
  <2>1. KycEvidenceWorkspace(role).blocked = (CanReadKycEvidence(role) /\ KycEvidenceLedger)
    BY Zenon DEF KycEvidenceWorkspace
  <2> QED BY <1>4, <2>1, Zenon DEF CanReadKycEvidence, KycEvidenceLedger
<1>5. UnavailableIsCalledOut
  BY <1>4, Zenon DEF AnalysisInv, UnavailableIsCalledOut
<1> QED BY <1>1, <1>3, <1>5, Zenon

\* For any operators, files and intents: documents are what is stored, judgements stand,
\* jobs are queued under a consent, unavailable evidence is called out.
THEOREM DocumentsSafe == EvidenceSpec => DocumentSafety
PROOF
<1> DEFINE Inv == UploadInv /\ AnalysisInv
<1>1. EvidenceInit => Inv
  <2> SUFFICES ASSUME EvidenceInit PROVE Inv
    OBVIOUS
  <2>1. 0 \in 0..MaxIntents
    BY EvidenceAssumption, SMTT(20)
  <2>2. UploadTypes
    BY <2>1, Zenon DEF EvidenceInit, UploadTypes, UploadIntents, DocumentRows, UploadForms
  <2>3. UploadInv
    BY <2>2, Zenon DEF EvidenceInit, UploadInv, RowsFollowIntents, RowsMatchStorage, OpenIntentsDeclare, FormsHoldIntents
  <2>4. AnalysisInv
    BY SMTT(20) DEF EvidenceInit, AnalysisInv, Scopes
  <2> QED BY <2>3, <2>4, Zenon
<1>2. ASSUME Inv, [EvidenceNext]_evidenceVars PROVE Inv' /\ JudgementsStand /\ QueuedUnderActiveConsent
  <2> USE <1>2
  <2>1. ASSUME UploadInv' /\ ReviewsStand, UNCHANGED analysisVars PROVE Inv' /\ JudgementsStand /\ QueuedUnderActiveConsent
    <3>1. AnalysisInv' /\ decision' = decision
      BY <2>1, Zenon DEF AnalysisInv, analysisVars
    <3>2. QueuedUnderActiveConsent
      BY <2>1, Zenon DEF QueuedUnderActiveConsent, analysisVars
    <3> QED BY <2>1, <3>1, <3>2, Zenon DEF JudgementsStand, ReviewsStand
  <2>2. ASSUME NEW o \in Officers,
               \/ \E c \in Contents : CreatePostgresKycDocumentUploadIntent(o, c) \/ PutObject(o, c)
               \/ FinalizePostgresKycDocumentUpload(o)
               \/ KycDocumentUploadForm(o)
               \/ RefetchDocuments(o)
               \/ \E i \in Intents, to \in ReviewStatus :
                    document[i].status # "absent" /\ UpdatePostgresKycDocumentReview(o, i, to)
        PROVE  Inv' /\ JudgementsStand /\ QueuedUnderActiveConsent
    <3>1. UNCHANGED analysisVars
      BY <2>2, Zenon DEF CreatePostgresKycDocumentUploadIntent, PutObject, FinalizePostgresKycDocumentUpload,
           KycDocumentUploadForm, RefetchDocuments, UpdatePostgresKycDocumentReview
    <3>2. UploadInv' /\ ReviewsStand
      BY <2>2, IntentKeepsInv, PutKeepsInv, FinalizeKeepsInv, AbandonKeepsInv, ReviewKeepsInv, Zenon
    <3> QED BY <2>1, <3>1, <3>2, Zenon
  <2>3. ASSUME NEW i \in Intents, IntentExpires(i) PROVE Inv' /\ JudgementsStand /\ QueuedUnderActiveConsent
    <3>1. UNCHANGED analysisVars
      BY <2>3, Zenon DEF IntentExpires
    <3>2. UploadInv' /\ ReviewsStand
      BY <2>3, AbandonKeepsInv, Zenon
    <3> QED BY <2>1, <3>1, <3>2, Zenon
  <2>4. ASSUME UNCHANGED <<intent, stored, upload, document, listed>> PROVE UploadInv' /\ ReviewsStand
    <3>1. UploadTypes'
      BY <2>4, Zenon DEF UploadInv, UploadTypes
    <3> QED BY <2>4, <3>1, Zenon DEF UploadInv, RowsFollowIntents, RowsMatchStorage, OpenIntentsDeclare, FormsHoldIntents,
             ReviewsStand
  <2>5. CASE \/ CreatePostgresVerificationConsent \/ ConsentLapses
             \/ \E s \in Scopes, uri \in {"absolute", "relative"} : RequestAnalysis(s, uri)
             \/ CreatePostgresDocumentAnalysisJob \/ AnalysisRefused
             \/ \E d \in Dispositions : PersistPostgresDocumentAnalysisEvidence(d)
             \/ \E d \in Decisions : CreatePostgresReviewerDecision(d)
    <3>1. UNCHANGED <<intent, stored, upload, document, listed>>
      BY <2>5, Zenon DEF CreatePostgresVerificationConsent, ConsentLapses, RequestAnalysis, CreatePostgresDocumentAnalysisJob,
           AnalysisRefused, PersistPostgresDocumentAnalysisEvidence, CreatePostgresReviewerDecision, uploadVars
    <3>2. AnalysisInv' /\ (decision # "none" => decision' = decision) /\ QueuedUnderActiveConsent
      BY <2>5, AnalysisKeepsInv, Zenon
    <3> QED BY <2>4, <3>1, <3>2, Zenon DEF JudgementsStand, ReviewsStand
  <2>6. CASE UNCHANGED evidenceVars
    BY <2>1, <2>4, <2>6, Zenon DEF evidenceVars, analysisVars
  <2> QED BY <2>2, <2>3, <2>5, <2>6, Zenon DEF EvidenceNext
<1>3. Inv /\ [EvidenceNext]_evidenceVars => Inv'
  BY <1>2, Zenon
<1>4. Inv /\ Inv' /\ [EvidenceNext]_evidenceVars
        => [/\ EvidenceTypeOK' /\ DocumentsMatchStorage' /\ UnavailableIsCalledOut'
            /\ JudgementsStand /\ QueuedUnderActiveConsent]_evidenceVars
  <2> SUFFICES ASSUME Inv, Inv', [EvidenceNext]_evidenceVars
               PROVE  /\ EvidenceTypeOK' /\ DocumentsMatchStorage' /\ UnavailableIsCalledOut'
                      /\ JudgementsStand /\ QueuedUnderActiveConsent
    OBVIOUS
  <2>1. EvidenceTypeOK' /\ DocumentsMatchStorage' /\ UnavailableIsCalledOut'
    BY DocumentFacts, PTL
  <2> QED BY <1>2, <2>1, Zenon
<1> QED BY <1>1, <1>3, <1>4, PTL DEF EvidenceSpec, DocumentSafety
=============================================================================
