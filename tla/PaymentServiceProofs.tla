------------------------ MODULE PaymentServiceProofs ------------------------
\* Proofs about the control plane's payment records and the services around them.  Each
\* section has the inductive invariant of one component, the steps that keep it, and the
\* theorem; the components share no state.
EXTENDS PaymentLifecycle, TreasuryReporting, Integrations, LedgerProjection,
        EvidenceOutbox, ConsoleSubmission, TLAPS

\* Payment orders and their legs.

\* The inductive invariant: a leg is inserted into a draft, a leg that is or will be
\* approved belongs to an order that was, and an approved order has its decision.
LifeInv ==
  /\ LifeTypeOK
  /\ \A o \in Orders : addLeg[o] # NoTxn => ostat[o] = "draft"
  /\ \A o \in Orders : ostat[o] = "approved" => o \in decided
  /\ \A o \in Orders, s \in Seqs :
       "approved" \in {leg[o][s], moveLeg[o][s]} => ostat[o] \in {"approved", "cancelled"} /\ o \in decided
  /\ \A o \in Orders, s \in Seqs : moveLeg[o][s] # NoTxn => leg[o][s] # "none"

\* What the tables of internal transitions rule out.
LEMMA OrderTable ==
  ASSUME NEW s, NEW t \in InternalOrderTransitions(s)
  PROVE  s # "cancelled" /\ (s = "approved" => t = "cancelled")
BY Zenon DEF InternalOrderTransitions

LEMMA LegTable ==
  ASSUME NEW s, NEW t \in InternalLegTransitions(s)
  PROVE  s # "none"
BY Zenon DEF InternalLegTransitions

\* Inserting a leg.
LEMMA InsertKeepsInv ==
  ASSUME LifeInv, NEW o \in Orders, CreateLegEnd(o)
  PROVE  LifeInv' /\ LegsJoinDraftsOnly
PROOF
<1>1. addLeg[o] \in Seqs /\ ostat[o] = "draft" /\ LifeTypeOK
  BY Zenon DEF CreateLegEnd, LifeInv, LifeTypeOK
<1>2. /\ leg' = [leg EXCEPT ![o][addLeg[o]] = IF @ = "none" THEN "draft" ELSE @]
      /\ addLeg' = [addLeg EXCEPT ![o] = NoTxn] /\ UNCHANGED <<ostat, decided, moveLeg, auth>>
  BY Zenon DEF CreateLegEnd
<1>3. \A p \in Orders, s \in Seqs :
        \/ leg'[p][s] = leg[p][s]
        \/ p = o /\ leg[p][s] = "none" /\ leg'[p][s] = "draft"
  BY <1>1, <1>2, Zenon DEF LifeTypeOK
<1>4. leg' \in [Orders -> [Seqs -> InternalStatus \cup {"none"}]]
  BY <1>1, <1>2, SMTT(20) DEF LifeTypeOK, InternalStatus
<1>5. LifeTypeOK'
  BY <1>1, <1>2, <1>4, Zenon DEF LifeTypeOK
<1>6. \A p \in Orders : addLeg'[p] # NoTxn => ostat'[p] = "draft"
  BY <1>1, <1>2, Zenon DEF LifeInv, LifeTypeOK
<1> QED BY <1>1, <1>2, <1>3, <1>5, <1>6, SMTT(20) DEF LifeInv, LegsJoinDraftsOnly

\* An order moves between its internal states.
LEMMA OrderKeepsInv ==
  ASSUME LifeInv, NEW o \in Orders, NEW t \in InternalStatus, TransitionPaymentOrder(o, t)
  PROVE  LifeInv' /\ LegsJoinDraftsOnly
PROOF
<1>1. /\ LifeTypeOK /\ addLeg[o] = NoTxn /\ (t = "approved" => o \in decided)
      /\ ostat' = [ostat EXCEPT ![o] = t] /\ UNCHANGED <<decided, leg, addLeg, moveLeg, auth>>
  BY Zenon DEF TransitionPaymentOrder, LifeInv
<1>2. ostat[o] # "cancelled" /\ (ostat[o] = "approved" => t = "cancelled")
  BY OrderTable, Zenon DEF TransitionPaymentOrder
<1>3. ostat'[o] = t /\ \A p \in Orders \ {o} : ostat'[p] = ostat[p]
  BY <1>1, Zenon DEF LifeTypeOK
<1>4. LifeTypeOK'
  BY <1>1, Zenon DEF LifeTypeOK
<1>5. \A p \in Orders, s \in Seqs : "approved" \in {leg'[p][s], moveLeg'[p][s]} =>
        ostat'[p] \in {"approved", "cancelled"} /\ p \in decided'
  BY <1>1, <1>2, <1>3, Zenon DEF LifeInv
<1> QED BY <1>1, <1>3, <1>4, <1>5, Zenon DEF LifeInv, LegsJoinDraftsOnly

\* A leg's transaction reads the order, and ends.
LEMMA LegKeepsInv ==
  ASSUME LifeInv, NEW o \in Orders, NEW s \in Seqs,
         \/ TransitionLegEnd(o, s) \/ TransitionLegAbort(o, s)
         \/ \E t \in InternalStatus : TransitionLegBegin(o, s, t)
  PROVE  LifeInv' /\ LegsJoinDraftsOnly
PROOF
<1>1. LifeTypeOK /\ UNCHANGED <<ostat, decided, addLeg, auth>>
  BY Zenon DEF TransitionLegEnd, TransitionLegAbort, TransitionLegBegin, LifeInv
<1>2. PICK m \in InternalStatus \cup {NoTxn} :
        /\ moveLeg' = [moveLeg EXCEPT ![o][s] = m]
        /\ m # NoTxn => leg[o][s] # "none" /\ (m = "approved" => ostat[o] = "approved")
  BY LegTable, Zenon DEF TransitionLegEnd, TransitionLegAbort, TransitionLegBegin
<1>3. leg' = leg \/ (moveLeg[o][s] # NoTxn /\ leg' = [leg EXCEPT ![o][s] = moveLeg[o][s]])
  BY Zenon DEF TransitionLegEnd, TransitionLegAbort, TransitionLegBegin
<1>11. moveLeg[o][s] # NoTxn => moveLeg[o][s] \in InternalStatus /\ leg[o][s] # "none"
  BY <1>1, SMTT(20) DEF LifeInv, LifeTypeOK
<1>12. "none" \notin InternalStatus
  BY Zenon DEF InternalStatus
<1>4. moveLeg' \in [Orders -> [Seqs -> InternalStatus \cup {NoTxn}]]
  BY <1>1, <1>2, Zenon DEF LifeTypeOK
<1>5. leg' \in [Orders -> [Seqs -> InternalStatus \cup {"none"}]]
  <2>1. leg \in [Orders -> [Seqs -> InternalStatus \cup {"none"}]]
    BY <1>1, Zenon DEF LifeTypeOK
  <2>2. ASSUME NEW w \in InternalStatus PROVE [leg EXCEPT ![o][s] = w] \in [Orders -> [Seqs -> InternalStatus \cup {"none"}]]
    BY <2>1, Zenon
  <2> QED BY <1>3, <1>11, <2>1, <2>2, Zenon
<1>6. \A p \in Orders, q \in Seqs : moveLeg'[p][q] = moveLeg[p][q] \/ (p = o /\ q = s /\ moveLeg'[p][q] = m)
  BY <1>1, <1>2, Zenon DEF LifeTypeOK
<1>7. \A p \in Orders, q \in Seqs :
        \/ leg'[p][q] = leg[p][q]
        \/ moveLeg[p][q] # NoTxn /\ leg'[p][q] = moveLeg[p][q] /\ leg[p][q] # "none" /\ leg'[p][q] # "none"
  BY <1>1, <1>3, <1>11, <1>12, SMTT(20) DEF LifeTypeOK
<1>8. LifeTypeOK'
  BY <1>1, <1>4, <1>5, Zenon DEF LifeTypeOK
<1>9. ASSUME NEW p \in Orders, NEW q \in Seqs, "approved" \in {leg'[p][q], moveLeg'[p][q]}
      PROVE  ostat[p] \in {"approved", "cancelled"} /\ p \in decided
  <2>1. ASSUME "approved" \in {leg[p][q], moveLeg[p][q]} PROVE ostat[p] \in {"approved", "cancelled"} /\ p \in decided
    BY <2>1, Zenon DEF LifeInv
  <2>2. CASE p = o /\ m = "approved"
    BY <1>2, <2>2, LifeAssumption, Zenon DEF LifeInv, InternalStatus
  <2> QED BY <1>6, <1>7, <1>9, <2>1, <2>2, Zenon
<1>10. \A p \in Orders, q \in Seqs : moveLeg'[p][q] # NoTxn => leg'[p][q] # "none"
  BY <1>2, <1>6, <1>7, SMTT(20) DEF LifeInv
<1> QED BY <1>1, <1>7, <1>8, <1>9, <1>10, Zenon DEF LifeInv, LegsJoinDraftsOnly

\* For any orders, legs and counterparties: although a leg's transaction reads its order
\* without locking it, an approved leg belongs to an order that was approved on a recorded
\* decision, and legs join drafts only.
THEOREM LifecycleFollows == LifeSpec => LegsFollowOrder
PROOF
<1>1. LifeInit => LifeInv
  <2> SUFFICES ASSUME LifeInit PROVE LifeInv
    OBVIOUS
  <2>1. auth \in [Counterparties -> [status : AuthStatus \cup {"none"}, current : BOOLEAN]]
    BY Zenon DEF LifeInit
  <2>2. LifeTypeOK
    BY <2>1, Zenon DEF LifeInit, LifeTypeOK, InternalStatus
  <2> QED BY <2>2, LifeAssumption, Zenon DEF LifeInit, LifeInv, InternalStatus
<1>2. ASSUME LifeInv, [LifeNext]_lifeVars PROVE LifeInv' /\ LegsJoinDraftsOnly
  <2> USE <1>2
  <2>1. ASSUME UNCHANGED <<ostat, decided, leg, addLeg, moveLeg>>,
               auth' \in [Counterparties -> [status : AuthStatus \cup {"none"}, current : BOOLEAN]]
        PROVE  LifeInv' /\ LegsJoinDraftsOnly
    BY <2>1, Zenon DEF LifeInv, LifeTypeOK, LegsJoinDraftsOnly
  <2>2. auth \in [Counterparties -> [status : AuthStatus \cup {"none"}, current : BOOLEAN]]
    BY Zenon DEF LifeInv, LifeTypeOK
  <2>3. ASSUME NEW c \in Counterparties, NEW s \in AuthStatus, NEW now \in BOOLEAN,
               \/ CreateCounterpartyAuthorization(c, s, now) \/ TransitionCounterpartyAuthorization(c, s)
               \/ AuthorizationLapses(c)
        PROVE  LifeInv' /\ LegsJoinDraftsOnly
    <3>1. auth' \in [Counterparties -> [status : AuthStatus \cup {"none"}, current : BOOLEAN]]
      <4>1. CASE CreateCounterpartyAuthorization(c, s, now)
        BY <2>2, <4>1, Zenon DEF CreateCounterpartyAuthorization
      <4>2. CASE TransitionCounterpartyAuthorization(c, s)
        BY <2>2, <4>2, Zenon DEF TransitionCounterpartyAuthorization
      <4>3. CASE AuthorizationLapses(c)
        BY <2>2, <4>3, Zenon DEF AuthorizationLapses
      <4> QED BY <2>3, <4>1, <4>2, <4>3, Zenon
    <3> QED BY <2>1, <2>3, <3>1, Zenon DEF CreateCounterpartyAuthorization, TransitionCounterpartyAuthorization, AuthorizationLapses
  <2>4. ASSUME NEW o \in Orders, CreateLegAbort(o) \/ \E s \in Seqs, c \in Counterparties : CreateLegBegin(o, s, c)
        PROVE  LifeInv' /\ LegsJoinDraftsOnly
    <3>1. UNCHANGED <<ostat, decided, leg, moveLeg, auth>>
      BY <2>4, Zenon DEF CreateLegAbort, CreateLegBegin
    <3>2. /\ addLeg' \in [Orders -> Seqs \cup {NoTxn}]
          /\ \A p \in Orders : addLeg'[p] \in {NoTxn, addLeg[p]} \/ ostat[p] = "draft"
      <4>1. addLeg \in [Orders -> Seqs \cup {NoTxn}]
        BY Zenon DEF LifeInv, LifeTypeOK
      <4>2. CASE CreateLegAbort(o)
        BY <4>1, <4>2 DEF CreateLegAbort
      <4>3. ASSUME NEW s \in Seqs, NEW c \in Counterparties, CreateLegBegin(o, s, c)
            PROVE  /\ addLeg' \in [Orders -> Seqs \cup {NoTxn}]
                   /\ \A p \in Orders : addLeg'[p] \in {NoTxn, addLeg[p]} \/ ostat[p] = "draft"
        BY <4>1, <4>3 DEF CreateLegBegin
      <4> QED BY <2>4, <4>2, <4>3, Zenon
    <3> QED BY <3>1, <3>2, Zenon DEF LifeInv, LifeTypeOK, LegsJoinDraftsOnly
  <2>5. ASSUME NEW o \in Orders, PolicyDecisionRecorded(o) PROVE LifeInv' /\ LegsJoinDraftsOnly
    <3>1. decided \subseteq decided' /\ decided' \subseteq Orders /\ UNCHANGED <<ostat, leg, addLeg, moveLeg, auth>>
      BY <2>5, Zenon DEF PolicyDecisionRecorded, LifeInv, LifeTypeOK
    <3> QED BY <3>1, Zenon DEF LifeInv, LifeTypeOK, LegsJoinDraftsOnly
  <2>6. CASE UNCHANGED lifeVars
    BY <2>1, <2>2, <2>6, Zenon DEF lifeVars
  <2>7. ASSUME NEW c \in Counterparties, AuthorizationLapses(c) PROVE LifeInv' /\ LegsJoinDraftsOnly
    BY <2>3, <2>7, Zenon DEF AuthStatus
  <2>8. ASSUME NEW c \in Counterparties, NEW s \in AuthStatus, TransitionCounterpartyAuthorization(c, s)
        PROVE  LifeInv' /\ LegsJoinDraftsOnly
    BY <2>3, <2>8, Zenon
  <2> QED BY <2>3, <2>4, <2>5, <2>6, <2>7, <2>8, InsertKeepsInv, OrderKeepsInv, LegKeepsInv, Zenon DEF LifeNext
<1>3. LifeInv /\ [LifeNext]_lifeVars => LifeInv'
  BY <1>2, Zenon
<1>4. LifeInv /\ LifeInv' /\ [LifeNext]_lifeVars
        => [LifeTypeOK' /\ ApprovedLegHadApprovedOrder' /\ LegsJoinDraftsOnly]_lifeVars
  <2> SUFFICES ASSUME LifeInv, LifeInv', [LifeNext]_lifeVars
               PROVE  LifeTypeOK' /\ ApprovedLegHadApprovedOrder' /\ LegsJoinDraftsOnly
    OBVIOUS
  <2>1. ApprovedLegHadApprovedOrder'
    BY Zenon DEF LifeInv, ApprovedLegHadApprovedOrder
  <2> QED BY <1>2, <2>1, Zenon DEF LifeInv
<1> QED BY <1>1, <1>3, <1>4, PTL DEF LifeSpec, LegsFollowOrder

-----------------------------------------------------------------------------
\* Treasury, reporting and risk review.

Recommendations == [status : {"none", "proposed", "approved", "rejected"}, by : Dealers \cup {NoDealer},
                    available : Nat, gap : Nat, amount : Nat, decider : Dealers \cup {NoDealer}, expired : BOOLEAN]
Reports == [status : {"none", "draft"} \cup WorkflowStatus, artifact : BOOLEAN, manifest : BOOLEAN,
            reference : BOOLEAN, approvedAs : {"nobody"} \cup OperatorRole]
Reviews == [status : {"none", "current", "due", "overdue", "escalated"}, date : {"ahead", "now", "past"}]

\* The inductive invariant: rows with all their columns, and what the handlers keep.
TreasuryInv ==
  /\ rec \in Recommendations /\ report \in Reports /\ review \in Reviews
  /\ RecommendationIsTight /\ ReportGatesHold

\* What max(0, min(target - available, cap, gap)) is between.
LEMMA RecommendedAmount ==
  ASSUME NEW available \in Nat, NEW gap \in Nat
  PROVE  LET a == Recommendation(available, gap) IN
         /\ a \in Nat /\ a <= gap /\ a <= Cap
         /\ a > 0 => available + a <= Target
         /\ a \in {gap, Cap, Target - available} \/ available >= Target
PROOF
<1>1. Target \in Nat /\ Cap \in Nat
  BY TreasuryAssumption, Zenon
<1> QED BY <1>1, SMTT(20) DEF Recommendation, Least

\* A proposal is tight when it is made.
LEMMA ProposalKeepsInv ==
  ASSUME TreasuryInv, NEW d \in Dealers, NEW available \in Balances, NEW gap \in Balances, NEW fresh,
         CreatePostgresTreasuryRecommendation(d, available, gap, fresh)
  PROVE  TreasuryInv' /\ DecisionsStand
PROOF
<1>1. available \in Nat /\ gap \in Nat
  BY TreasuryAssumption, Zenon
<1> DEFINE a == Recommendation(available, gap)
<1>2. /\ a \in Nat /\ a <= gap /\ a <= Cap
      /\ a > 0 => available + a <= Target
      /\ a \in {gap, Cap, Target - available} \/ available >= Target
  BY <1>1, RecommendedAmount, Zenon
<1>3. rec' = [status |-> "proposed", by |-> d, available |-> available, gap |-> gap, amount |-> a,
              decider |-> NoDealer, expired |-> FALSE]
  BY Zenon DEF CreatePostgresTreasuryRecommendation
<1>4. report' = report /\ review' = review /\ rec.status = "none"
  BY Zenon DEF CreatePostgresTreasuryRecommendation
<1> HIDE DEF a
<1>5. RecommendationIsTight'
  BY <1>2, <1>3, SMTT(20) DEF RecommendationIsTight
<1>6. rec' \in Recommendations
  BY <1>1, <1>2, <1>3, Zenon DEF Recommendations
<1>7. ReportGatesHold' /\ report' \in Reports /\ review' \in Reviews
  BY <1>4, Zenon DEF TreasuryInv, ReportGatesHold
<1>8. DecisionsStand
  BY <1>4, Zenon DEF DecisionsStand
<1> QED BY <1>5, <1>6, <1>7, <1>8, Zenon DEF TreasuryInv

\* Expiry and decisions keep what was proposed.
LEMMA DecisionKeepsInv ==
  ASSUME TreasuryInv,
         \/ RecommendationExpires
         \/ \E d \in Dealers, decision \in {"approved", "rejected"} : DecidePostgresTreasuryRecommendation(d, decision)
  PROVE  TreasuryInv' /\ DecisionsStand
PROOF
<1>1. rec \in Recommendations /\ report' = report /\ review' = review /\ rec.status # "none"
  BY Zenon DEF RecommendationExpires, DecidePostgresTreasuryRecommendation, Decidable, TreasuryInv
<1>2. /\ rec' \in Recommendations /\ rec'.available = rec.available /\ rec'.gap = rec.gap /\ rec'.amount = rec.amount
      /\ DecisionsStand
  <2>1. CASE RecommendationExpires
    BY <1>1, <2>1, Zenon DEF RecommendationExpires, Recommendations, DecisionsStand
  <2>2. ASSUME NEW d \in Dealers, NEW decision \in {"approved", "rejected"},
               DecidePostgresTreasuryRecommendation(d, decision)
        PROVE  /\ rec' \in Recommendations /\ rec'.available = rec.available /\ rec'.gap = rec.gap /\ rec'.amount = rec.amount
               /\ DecisionsStand
    BY <1>1, <2>2, Zenon DEF DecidePostgresTreasuryRecommendation, Decidable, Recommendations, DecisionsStand
  <2> QED BY <2>1, <2>2, Zenon
<1>3. RecommendationIsTight'
  BY <1>1, <1>2, Zenon DEF TreasuryInv, RecommendationIsTight
<1>4. ReportGatesHold' /\ report' \in Reports /\ review' \in Reviews
  BY <1>1, Zenon DEF TreasuryInv, ReportGatesHold
<1> QED BY <1>2, <1>3, <1>4, Zenon DEF TreasuryInv

\* A report passes its gates.
LEMMA TransitionKeepsInv ==
  ASSUME TreasuryInv, NEW role \in OperatorRole, NEW to \in WorkflowStatus, NEW artifact \in BOOLEAN,
         NEW manifest, NEW reference \in BOOLEAN,
         PostgresReportTransitionForm(role, to, artifact, manifest, reference)
  PROVE  report' \in Reports /\ ReportGatesHold'
PROOF
<1> DEFINE m == manifest = "json"
<1>1. TransitionPostgresRegulatoryReport(role, to, artifact, m, reference) /\ m \in BOOLEAN
  BY Zenon DEF PostgresReportTransitionForm
<1> HIDE DEF m
<1>2. report \in Reports /\ report.approvedAs \in {"nobody", "compliance_officer"}
  BY Zenon DEF TreasuryInv, ReportGatesHold
<1>3. report' = [status |-> to, artifact |-> artifact \/ report.artifact, manifest |-> m \/ report.manifest,
                 reference |-> report.reference \/ reference,
                 approvedAs |-> IF to = "approved" THEN role ELSE report.approvedAs]
  BY <1>1, Zenon DEF TransitionPostgresRegulatoryReport
<1>4. (artifact \/ report.artifact) \in BOOLEAN /\ (m \/ report.manifest) \in BOOLEAN
      /\ (report.reference \/ reference) \in BOOLEAN
  BY Zenon
<1>5. (IF to = "approved" THEN role ELSE report.approvedAs) \in {"nobody"} \cup OperatorRole
  BY <1>2, Zenon DEF Reports
<1>6. report' \in Reports
  BY <1>3, <1>4, <1>5, Zenon DEF Reports
<1>7. /\ to \in Gated => (artifact \/ report.artifact) /\ (m \/ report.manifest)
      /\ to = "submitted" => reference
      /\ to = "approved" => role = "compliance_officer"
  BY <1>1, Zenon DEF TransitionPostgresRegulatoryReport
<1>8. ReportGatesHold'
  <2>1. report'.status = to /\ report'.artifact = (artifact \/ report.artifact) /\ report'.manifest = (m \/ report.manifest)
        /\ report'.reference = (report.reference \/ reference)
        /\ report'.approvedAs = IF to = "approved" THEN role ELSE report.approvedAs
    BY <1>3, Zenon
  <2> QED BY <1>2, <1>7, <2>1, Zenon DEF ReportGatesHold
<1> QED BY <1>6, <1>8, Zenon

\* Whoever's console displayed what, a recommendation is as large as the policy allows, is
\* decided once and by somebody else, and a report passes its gates: for any operators,
\* balances and limits.
THEOREM TreasurySafe == TreasurySpec => JudgedIndependently
PROOF
<1>1. TreasuryInit => TreasuryInv
  BY SMTT(20) DEF TreasuryInit, TreasuryInv, NoRec, NoReport, Recommendations, Reports, Reviews, RecommendationIsTight,
     ReportGatesHold, Gated, WorkflowStatus
<1>2. ASSUME TreasuryInv, [TreasuryNext]_treasuryVars PROVE TreasuryInv' /\ DecisionsStand
  <2>1. ASSUME rec' = rec PROVE DecisionsStand /\ rec' \in Recommendations /\ RecommendationIsTight'
    BY <1>2, <2>1, Zenon DEF TreasuryInv, RecommendationIsTight, DecisionsStand
  <2>2. ASSUME report' = report PROVE report' \in Reports /\ ReportGatesHold'
    BY <1>2, <2>2, Zenon DEF TreasuryInv, ReportGatesHold
  <2>3. ASSUME review' = review PROVE review' \in Reviews
    BY <1>2, <2>3, Zenon DEF TreasuryInv
  <2>4. ASSUME rec' = rec, report' = report, review' = review
        PROVE  TreasuryInv' /\ DecisionsStand
    BY <2>1, <2>2, <2>3, <2>4, Zenon DEF TreasuryInv
  <2>5. CASE UNCHANGED treasuryVars
    BY <2>4, <2>5, Zenon DEF treasuryVars
  <2>6. CASE PolicyMoves \/ ReviewJobRegistered \/ \E d \in Dealers : RefetchRecommendations(d)
    BY <2>4, <2>6, Zenon DEF PolicyMoves, ReviewJobRegistered, RefetchRecommendations
  <2>7. ASSUME NEW d \in Dealers, NEW available \in Balances, NEW gap \in Balances, NEW fresh \in BOOLEAN,
               CreatePostgresTreasuryRecommendation(d, available, gap, fresh)
        PROVE  TreasuryInv' /\ DecisionsStand
    BY <1>2, <2>7, ProposalKeepsInv, Zenon
  <2>8. CASE \/ RecommendationExpires
             \/ \E d \in Dealers, decision \in {"approved", "rejected"} : DecidePostgresTreasuryRecommendation(d, decision)
    BY <1>2, <2>8, DecisionKeepsInv, Zenon
  <2>9. CASE CreatePostgresRegulatoryReport
    <3>1. report' \in Reports /\ ReportGatesHold' /\ rec' = rec /\ review' = review
      BY <1>2, <2>9, Zenon DEF CreatePostgresRegulatoryReport, TreasuryInv, Reports, ReportGatesHold, Gated, WorkflowStatus
    <3> QED BY <2>1, <2>3, <3>1, Zenon DEF TreasuryInv
  <2>10. ASSUME NEW role \in OperatorRole, NEW to \in WorkflowStatus, NEW artifact \in BOOLEAN,
                NEW reference \in BOOLEAN, NEW manifest \in {"none", "json", "broken"},
                PostgresReportTransitionForm(role, to, artifact, manifest, reference)
         PROVE  TreasuryInv' /\ DecisionsStand
    <3>1. report' \in Reports /\ ReportGatesHold'
      BY <1>2, <2>10, TransitionKeepsInv, Zenon
    <3>2. rec' = rec /\ review' = review
      BY <2>10, Zenon DEF PostgresReportTransitionForm, TransitionPostgresRegulatoryReport
    <3> QED BY <2>1, <2>3, <3>1, <3>2, Zenon DEF TreasuryInv
  <2>11. CASE \/ CreatePostgresCounterpartyRiskAssessment \/ EscalatePostgresCounterpartyRiskAssessment
              \/ ReviewDateMoves \/ CounterpartyRiskReviews
    <3>1. review' \in Reviews
      BY <1>2, <2>11, SMTT(20) DEF CreatePostgresCounterpartyRiskAssessment, EscalatePostgresCounterpartyRiskAssessment,
         ReviewDateMoves, CounterpartyRiskReviews, EvaluatePostgresCounterpartyRiskReviews, TreasuryInv, Reviews
    <3>2. rec' = rec /\ report' = report
      BY <2>11, Zenon DEF CreatePostgresCounterpartyRiskAssessment, EscalatePostgresCounterpartyRiskAssessment,
         ReviewDateMoves, CounterpartyRiskReviews, EvaluatePostgresCounterpartyRiskReviews
    <3> QED BY <2>1, <2>2, <3>1, <3>2, Zenon DEF TreasuryInv
  <2> QED BY <1>2, <2>5, <2>6, <2>7, <2>8, <2>9, <2>10, <2>11, Zenon DEF TreasuryNext
<1>4. TreasuryInv /\ [TreasuryNext]_treasuryVars => TreasuryInv'
  BY <1>2, Zenon
<1>5. TreasuryInv /\ TreasuryInv' /\ [TreasuryNext]_treasuryVars
        => [TreasuryTypeOK' /\ RecommendationIsTight' /\ ReportGatesHold' /\ DecisionsStand]_treasuryVars
  <2> SUFFICES ASSUME TreasuryInv, TreasuryInv', [TreasuryNext]_treasuryVars
               PROVE  TreasuryTypeOK' /\ RecommendationIsTight' /\ ReportGatesHold' /\ DecisionsStand
    OBVIOUS
  <2>1. TreasuryTypeOK'
    BY Zenon DEF TreasuryInv, TreasuryTypeOK, Recommendations, Reports, Reviews
  <2> QED BY <1>2, <2>1, Zenon DEF TreasuryInv
<1> QED BY <1>1, <1>4, <1>5, PTL DEF TreasurySpec, JudgedIndependently

-----------------------------------------------------------------------------
-----------------------------------------------------------------------------
(* Provider connections. *)

MaybeSecret == SecretNames \cup {NoValue}

\* A probe that got an answer sent a secret of this deployment.
Probes ==
  {p \in [conn : Connections, secret : SecretNames, endpoint : ApprovedEndpoints, outcome : Outcomes] :
     p.outcome # Unreachable => p.secret \in PresentSecrets}

Rows ==
  {r \in [state : IntegrationState, secret : MaybeSecret, endpoint : ApprovedEndpoints \cup {NoValue},
          health : Probes \cup {NoValue}] :
     /\ r.secret # NoValue => r.endpoint # NoValue
     /\ r.state = "active" => r.health # NoValue /\ HealthCheckPassed(r.health.outcome)
     /\ r.state = "failed" => r.health # NoValue /\ ~HealthCheckPassed(r.health.outcome)}

Entries == [action : {"created", "configured", "activated", "activation_refused", "suspended"},
            state : IntegrationState, secret : MaybeSecret, previous : MaybeSecret]

\* The positions at which a trail, oldest entry first, changes the reference.
Changes(s) == {k \in DOMAIN s : s[k].action = "configured"}

\* A trail that leads to a row: each change starts where the one before ended.
Explains(s, r) ==
  /\ s # <<>> => s[Len(s)].state = r.state
  /\ s = <<>> => r.state = "none"
  /\ Changes(s) = {} => r.secret = NoValue
  /\ \A k \in Changes(s) :
       /\ s[k].secret \in SecretNames
       /\ (\A j \in Changes(s) : j <= k) => s[k].secret = r.secret
       /\ (\A j \in Changes(s) : k <= j) => s[k].previous = NoValue
  /\ \A j, k \in Changes(s) :
       j < k /\ (\A m \in Changes(s) : m <= j \/ k <= m) => s[k].previous = s[j].secret

IntegrationInv ==
  /\ conn \in [Connections -> Rows]
  /\ probe \in [Tabs -> Probes \cup {NoValue}]
  /\ trail \in [Connections -> Seq(Entries)]
  /\ \A i \in Connections : Len(trail[i]) <= MaxTrail /\ Explains(trail[i], conn[i])

\* What is appended to a trail leaves the other entries in place.
LEMMA TrailGrows ==
  ASSUME NEW S, NEW s \in Seq(S), NEW e \in S
  PROVE  /\ Len(s) \in Nat /\ DOMAIN s = 1..Len(s)
         /\ Append(s, e) \in Seq(S) /\ Len(Append(s, e)) = Len(s) + 1 /\ Append(s, e) # <<>>
         /\ DOMAIN Append(s, e) = 1..(Len(s) + 1)
         /\ Append(s, e)[Len(s) + 1] = e
         /\ \A k \in DOMAIN s : Append(s, e)[k] = s[k]
  OBVIOUS

\* An entry that changes no reference.
LEMMA StateEntryExplains ==
  ASSUME NEW s \in Seq(Entries), NEW r, Explains(s, r), NEW e \in Entries, e.action # "configured",
         NEW q, q.state = e.state, q.secret = r.secret
  PROVE  Explains(Append(s, e), q)
  <1> DEFINE t == Append(s, e)
  <1>1. /\ Len(s) \in Nat /\ DOMAIN s = 1..Len(s) /\ t # <<>>
        /\ Len(t) = Len(s) + 1 /\ DOMAIN t = 1..(Len(s) + 1)
        /\ t[Len(s) + 1] = e /\ \A k \in DOMAIN s : t[k] = s[k]
    BY TrailGrows, SMTT(20)
  <1> HIDE DEF t
  <1>2. Changes(t) = Changes(s) /\ Changes(s) \subseteq DOMAIN s
    BY <1>1, SMTT(20) DEF Changes
  <1>3. \A k \in Changes(s) : t[k] = s[k]
    BY <1>1, <1>2, Zenon
  <1>4. t[Len(t)].state = q.state
    BY <1>1, Zenon
  <1>5. Explains(t, q)
    BY <1>1, <1>2, <1>3, <1>4, SMTT(20) DEF Explains
  <1> QED
    BY <1>5, Zenon DEF t

\* An entry that changes the reference from the row's to a new one.
LEMMA ChangeEntryExplains ==
  ASSUME NEW s \in Seq(Entries), NEW r, Explains(s, r), NEW e \in Entries, e.action = "configured",
         e.secret \in SecretNames, e.previous = r.secret, NEW q, q.state = e.state, q.secret = e.secret
  PROVE  Explains(Append(s, e), q)
  <1> DEFINE t == Append(s, e)
             n == Len(s) + 1
  <1>1. /\ Len(s) \in Nat /\ DOMAIN s = 1..Len(s) /\ t # <<>>
        /\ Len(t) = n /\ DOMAIN t = 1..n
        /\ t[n] = e /\ \A k \in DOMAIN s : t[k] = s[k]
    BY TrailGrows, SMTT(20)
  <1> HIDE DEF t
  <1>2. Changes(t) = Changes(s) \cup {n} /\ Changes(s) \subseteq 1..Len(s)
    BY <1>1, SMTT(20) DEF Changes
  <1>3. \A k \in Changes(s) : t[k] = s[k] /\ k \in Nat /\ k < n
    BY <1>1, <1>2, SMTT(20)
  <1>4. n \in Nat /\ Changes(t) # {} /\ t[Len(t)].state = q.state
    BY <1>1, <1>2, SMTT(20)
  <1> HIDE DEF n
  <1>5. ASSUME NEW k \in Changes(t)
        PROVE  /\ t[k].secret \in SecretNames
               /\ (\A j \in Changes(t) : j <= k) => t[k].secret = q.secret
               /\ (\A j \in Changes(t) : k <= j) => t[k].previous = NoValue
    <2>1. CASE k = n
      BY <1>1, <1>2, <1>3, <1>4, <2>1, SMTT(20) DEF Explains
    <2>2. CASE k \in Changes(s)
      <3>1. ~(n <= k) /\ n \in Changes(t)
        BY <1>2, <1>3, <1>4, <2>2, SMTT(20)
      <3> QED
        BY <1>2, <1>3, <2>2, <3>1, Zenon DEF Explains
    <2> QED
      BY <1>2, <2>1, <2>2, Zenon
  <1>6. ASSUME NEW j \in Changes(t), NEW k \in Changes(t), j < k, \A m \in Changes(t) : m <= j \/ k <= m
        PROVE  t[k].previous = t[j].secret
    <2>1. j \in Changes(s)
      BY <1>2, <1>3, <1>4, <1>6, SMTT(20)
    <2>2. CASE k = n
      <3>1. \A m \in Changes(s) : m <= j
        BY <1>2, <1>3, <1>4, <1>6, <2>2, SMTT(20)
      <3> QED
        BY <1>1, <1>3, <2>1, <2>2, <3>1, Zenon DEF Explains
    <2>3. CASE k \in Changes(s)
      BY <1>2, <1>3, <1>6, <2>1, <2>3, ZenonT(40) DEF Explains
    <2> QED
      BY <1>2, <2>2, <2>3, Zenon
  <1>7. Explains(t, q)
    BY <1>1, <1>4, <1>5, <1>6, Zenon DEF Explains
  <1> QED
    BY <1>7, Zenon DEF t

\* The console's newest-first reading of a trail that leads to the row.
LEMMA ReadTrail ==
  ASSUME NEW i \in Connections, trail[i] \in Seq(Entries), trail[i] # <<>>, Explains(trail[i], conn[i])
  PROVE  LET audit   == CredentialAuditTrail(i)
             changes == {k \in DOMAIN audit : audit[k].action = "configured"}
             newestOf(k, S) == k \in S /\ \A j \in S : k <= j
             older(k) == {j \in changes : k < j}
         IN  /\ audit[1].state = conn[i].state
             /\ changes = {} => conn[i].secret = NoValue
             /\ \A k \in changes :
                  /\ newestOf(k, changes) => audit[k].secret = conn[i].secret
                  /\ older(k) = {} => DescribeEntry(audit[k]) = <<"set", audit[k].secret>>
                  /\ \A j \in older(k) : newestOf(j, older(k)) =>
                       DescribeEntry(audit[k]) = <<"changed", audit[j].secret, audit[k].secret>>
  <1> DEFINE s == trail[i]
             n == Len(s)
             audit == CredentialAuditTrail(i)
             changes == {k \in DOMAIN audit : audit[k].action = "configured"}
  <1>1. n \in Nat /\ n > 0 /\ DOMAIN s = 1..n
    OBVIOUS
  <1>2. DOMAIN audit = 1..n /\ \A k \in 1..n : audit[k] = s[n - k + 1] /\ n - k + 1 \in 1..n
    BY <1>1, SMTT(20) DEF CredentialAuditTrail
  <1>3. /\ \A k \in changes : k \in 1..n /\ n - k + 1 \in Changes(s) /\ audit[k] = s[n - k + 1]
        /\ \A k \in Changes(s) : k \in 1..n /\ n - k + 1 \in changes /\ audit[n - k + 1] = s[k]
    BY <1>1, <1>2, SMTT(20) DEF Changes
  <1>4. audit[1].state = conn[i].state
    BY <1>1, <1>2, SMTT(20) DEF Explains
  <1>5. changes = {} => conn[i].secret = NoValue
    BY <1>3, Zenon DEF Explains
  <1>6. Explains(s, conn[i])
    OBVIOUS
  <1> HIDE DEF s, n, audit, changes
  <1>7. ASSUME NEW k \in changes
        PROVE  /\ (\A j \in changes : k <= j) => audit[k].secret = conn[i].secret
               /\ (\A j \in changes : ~(k < j)) => DescribeEntry(audit[k]) = <<"set", audit[k].secret>>
    <2> DEFINE p == n - k + 1
    <2>1. p \in Changes(s) /\ audit[k] = s[p] /\ k \in 1..n /\ s[p].action = "configured"
      BY <1>3, <1>7, Zenon DEF Changes
    <2>2. (\A j \in changes : k <= j) => \A m \in Changes(s) : m <= p
      BY <1>1, <1>3, <2>1, SMTT(20)
    <2>3. (\A j \in changes : ~(k < j)) => \A m \in Changes(s) : p <= m
      BY <1>1, <1>3, <2>1, SMTT(20)
    <2> QED
      BY <1>6, <2>1, <2>2, <2>3, Zenon DEF Explains, DescribeEntry
  <1>8. ASSUME NEW k \in changes, NEW j \in changes, k < j, \A m \in changes : k < m => j <= m
        PROVE  DescribeEntry(audit[k]) = <<"changed", audit[j].secret, audit[k].secret>>
    <2> DEFINE p == n - k + 1
               q == n - j + 1
    <2>1. /\ p \in Changes(s) /\ audit[k] = s[p] /\ k \in 1..n /\ s[p].action = "configured"
          /\ q \in Changes(s) /\ audit[j] = s[q] /\ j \in 1..n
      BY <1>3, <1>8, Zenon DEF Changes
    <2>2. q < p /\ \A m \in Changes(s) : m <= q \/ p <= m
      BY <1>1, <1>3, <1>8, <2>1, SMTT(20)
    <2>3. audit[k].previous = audit[j].secret /\ audit[j].secret \in SecretNames
      BY <1>6, <2>1, <2>2, ZenonT(40) DEF Explains
    <2> QED
      BY <2>1, <2>3, IntegrationAssumption, Zenon DEF DescribeEntry
  <1>9. /\ audit[1].state = conn[i].state
        /\ changes = {} => conn[i].secret = NoValue
        /\ \A k \in changes :
             /\ k \in changes /\ (\A j \in changes : k <= j) => audit[k].secret = conn[i].secret
             /\ {j \in changes : k < j} = {} => DescribeEntry(audit[k]) = <<"set", audit[k].secret>>
             /\ \A j \in {h \in changes : k < h} :
                  j \in {h \in changes : k < h} /\ (\A m \in {h \in changes : k < h} : j <= m) =>
                    DescribeEntry(audit[k]) = <<"changed", audit[j].secret, audit[k].secret>>
    BY <1>4, <1>5, <1>7, <1>8, Zenon
  <1> QED
    BY <1>9, Zenon DEF audit, changes

\* A handler that writes a row and the entry for it in one transaction.
LEMMA RowAndEntryKeepInv ==
  ASSUME IntegrationInv, NEW i \in Connections, NEW r \in Rows, NEW e \in Entries,
         conn' = [conn EXCEPT ![i] = r], Record(i, e), e.state = r.state,
         probe' \in [Tabs -> Probes \cup {NoValue}],
         \/ e.action # "configured" /\ r.secret = conn[i].secret
         \/ /\ e.action = "configured" /\ r.secret = e.secret
            /\ e.secret \in SecretNames /\ e.previous = conn[i].secret
  PROVE  IntegrationInv'
  <1>1. /\ conn \in [Connections -> Rows] /\ trail \in [Connections -> Seq(Entries)]
        /\ trail[i] \in Seq(Entries) /\ Explains(trail[i], conn[i])
    BY Zenon DEF IntegrationInv
  <1>2. /\ Append(trail[i], e) \in Seq(Entries)
        /\ Len(trail[i]) \in Nat /\ Len(Append(trail[i], e)) = Len(trail[i]) + 1
    BY <1>1, TrailGrows, SMTT(20)
  <1>3. Len(trail[i]) < MaxTrail /\ trail' = [trail EXCEPT ![i] = Append(trail[i], e)]
    BY Zenon DEF Record
  <1>4. Explains(Append(trail[i], e), r)
    <2>1. CASE e.action # "configured" /\ r.secret = conn[i].secret
      BY <1>1, <2>1, StateEntryExplains, Zenon
    <2>2. CASE e.action = "configured"
      BY <1>1, <2>2, ChangeEntryExplains, Zenon
    <2> QED
      BY <2>1, <2>2, Zenon
  <1>5. Len(Append(trail[i], e)) <= MaxTrail
    BY <1>2, <1>3, IntegrationAssumption, SMTT(20)
  <1>6. conn' \in [Connections -> Rows] /\ trail' \in [Connections -> Seq(Entries)]
    BY <1>1, <1>2, <1>3, Zenon
  <1>7. \A x \in Connections : Len(trail'[x]) <= MaxTrail /\ Explains(trail'[x], conn'[x])
    <2> TAKE x \in Connections
    <2>1. CASE x = i
      BY <1>1, <1>3, <1>4, <1>5, <2>1, Zenon
    <2>2. CASE x # i
      BY <1>1, <1>3, <2>2, Zenon DEF IntegrationInv
    <2> QED
      BY <2>1, <2>2, Zenon
  <1> QED
    BY <1>6, <1>7, Zenon DEF IntegrationInv

\* However two administrators register, configure, probe, activate and suspend
\* connections at once, an active connection rests on a probe that was answered 2xx,
\* and the audit trail explains its row (postgres.ts, providerHealthCheck.ts).
THEOREM IntegrationSafe == IntegrationSpec => []IntegrationSafety
  <1>1. IntegrationInit => IntegrationInv
    <2> SUFFICES ASSUME IntegrationInit PROVE IntegrationInv
      OBVIOUS
    <2> DEFINE r == [state |-> "none", secret |-> NoValue, endpoint |-> NoValue, health |-> NoValue]
    <2>1. r \in Rows
      BY Zenon DEF Rows, IntegrationState, MaybeSecret
    <2>2. <<>> \in Seq(Entries) /\ Len(<<>>) = 0 /\ Explains(<<>>, r)
      BY SMTT(20) DEF Explains, Changes
    <2>3. 0 <= MaxTrail
      BY IntegrationAssumption, SMTT(20)
    <2> QED
      BY <2>1, <2>2, <2>3, Zenon DEF IntegrationInit, IntegrationInv
  <1>2. IntegrationInv /\ [IntegrationNext]_integrationVars => IntegrationInv'
    <2> SUFFICES ASSUME IntegrationInv, [IntegrationNext]_integrationVars PROVE IntegrationInv'
      OBVIOUS
    <2>0. conn \in [Connections -> Rows] /\ probe \in [Tabs -> Probes \cup {NoValue}]
      BY Zenon DEF IntegrationInv
    <2>e. \A a \in {"created", "activated", "activation_refused", "suspended"} : \A st \in IntegrationState :
            /\ [action |-> a, state |-> st, secret |-> NoValue, previous |-> NoValue] \in Entries
            /\ a # "configured"
      BY Zenon DEF Entries, MaybeSecret
    <2>1. ASSUME NEW i \in Connections, CreateIntegrationConnection(i) PROVE IntegrationInv'
      <3> DEFINE r == [conn[i] EXCEPT !.state = "unconfigured"]
      <3>1. r \in Rows /\ r.state = "unconfigured" /\ r.secret = conn[i].secret
        BY <2>0, Zenon DEF Rows, IntegrationState
      <3>2. conn' = [conn EXCEPT ![i] = r] /\ UNCHANGED probe
        BY <2>1, Zenon DEF CreateIntegrationConnection
      <3> HIDE DEF r
      <3> QED
        BY <2>0, <2>1, <2>e, <3>1, <3>2, RowAndEntryKeepInv, Zenon DEF CreateIntegrationConnection, IntegrationState
    <2>2. ASSUME NEW i \in Connections, SuspendIntegrationConnection(i) PROVE IntegrationInv'
      <3> DEFINE r == [conn[i] EXCEPT !.state = "suspended"]
      <3>1. r \in Rows /\ r.state = "suspended" /\ r.secret = conn[i].secret
        BY <2>0, Zenon DEF Rows, IntegrationState
      <3>2. conn' = [conn EXCEPT ![i] = r] /\ UNCHANGED probe
        BY <2>2, Zenon DEF SuspendIntegrationConnection
      <3> HIDE DEF r
      <3> QED
        BY <2>0, <2>2, <2>e, <3>1, <3>2, RowAndEntryKeepInv, Zenon DEF SuspendIntegrationConnection, IntegrationState
    <2>3. ASSUME NEW i \in Connections, NEW n \in References, NEW u \in Endpoints,
                 ConfigureIntegrationCredential(i, n, u)
          PROVE  IntegrationInv'
      <3> DEFINE r == [state |-> "credential_pending", secret |-> n,
                       endpoint |-> NormaliseProviderEndpoint(u), health |-> NoValue]
                 e == [action |-> "configured", state |-> "credential_pending", secret |-> n,
                       previous |-> conn[i].secret]
      <3>1. n \in SecretNames /\ NormaliseProviderEndpoint(u) \in ApprovedEndpoints
        BY <2>3, Zenon DEF ConfigureIntegrationCredential, IsSecretReference, NormaliseProviderEndpoint
      <3>2. r \in Rows
        BY <3>1, IntegrationAssumption, Zenon DEF Rows, IntegrationState, MaybeSecret
      <3>3. e \in Entries
        BY <2>0, <3>1, Zenon DEF Entries, Rows, IntegrationState, MaybeSecret
      <3>4. /\ conn' = [conn EXCEPT ![i] = r] /\ Record(i, e) /\ probe' = probe
            /\ e.state = r.state /\ e.action = "configured" /\ r.secret = e.secret /\ e.secret \in SecretNames
            /\ e.previous = conn[i].secret
        BY <2>3, <3>1, Zenon DEF ConfigureIntegrationCredential
      <3> HIDE DEF r, e
      <3> QED
        BY <2>0, <3>2, <3>3, <3>4, RowAndEntryKeepInv, Zenon
    <2>4. ASSUME NEW t \in Tabs, ActivateDecide(t) PROVE IntegrationInv'
      <3> DEFINE i == probe[t].conn
                 st == IF HealthCheckPassed(probe[t].outcome) THEN "active" ELSE "failed"
                 r == [conn[i] EXCEPT !.state = st, !.health = probe[t]]
                 a == IF st = "active" THEN "activated" ELSE "activation_refused"
      <3>1. probe[t] \in Probes /\ probe[t] # NoValue /\ i \in Connections /\ conn[i] \in Rows
        BY <2>0, <2>4, Zenon DEF ActivateDecide, Probes
      <3>2. st \in {"active", "failed"} /\ (st = "active" <=> HealthCheckPassed(probe[t].outcome))
        OBVIOUS
      <3>3. conn' = [conn EXCEPT ![i] = r] /\ probe' = [probe EXCEPT ![t] = NoValue]
        BY <2>4, Zenon DEF ActivateDecide
      <3>4. Record(i, [action |-> a, state |-> st, secret |-> NoValue, previous |-> NoValue])
        BY <2>4, Zenon DEF ActivateDecide
      <3>5. a \in {"activated", "activation_refused"}
        OBVIOUS
      <3> HIDE DEF st, a
      <3>6. r \in Rows /\ r.state = st /\ r.secret = conn[i].secret
        BY <3>1, <3>2, Zenon DEF Rows, IntegrationState
      <3>7. probe' \in [Tabs -> Probes \cup {NoValue}]
        BY <2>0, <3>3, Zenon
      <3> HIDE DEF r, i
      <3> QED
        BY <2>e, <3>1, <3>2, <3>3, <3>4, <3>5, <3>6, <3>7, RowAndEntryKeepInv, Zenon DEF IntegrationState
    <2>5. ASSUME NEW t \in Tabs, ActivateLost(t) PROVE IntegrationInv'
      BY <2>5, Zenon DEF ActivateLost, IntegrationInv
    <2>6. ASSUME NEW t \in Tabs, NEW i \in Connections, ActivateBegin(t, i) PROVE IntegrationInv'
      <3>1. PICK o \in ProbeProviderEndpoint(conn[i].secret) :
              probe' = [probe EXCEPT ![t] = [conn |-> i, secret |-> conn[i].secret,
                                             endpoint |-> conn[i].endpoint, outcome |-> o]]
        BY <2>6, Zenon DEF ActivateBegin
      <3>2. conn[i].secret \in SecretNames /\ conn[i].endpoint \in ApprovedEndpoints
        BY <2>0, <2>6, SMTT(20) DEF ActivateBegin, Rows, MaybeSecret
      <3>3. o \in Outcomes /\ (o # Unreachable => conn[i].secret \in PresentSecrets)
        BY <3>1, SMTT(20) DEF ProbeProviderEndpoint, ResolveCredential, Outcomes
      <3>4. [conn |-> i, secret |-> conn[i].secret, endpoint |-> conn[i].endpoint, outcome |-> o] \in Probes
        BY <3>2, <3>3, Zenon DEF Probes
      <3>5. UNCHANGED <<conn, trail>>
        BY <2>6, Zenon DEF ActivateBegin
      <3> QED
        BY <3>1, <3>4, <3>5, Zenon DEF IntegrationInv
    <2>7. CASE UNCHANGED integrationVars
      BY <2>7, Zenon DEF integrationVars, IntegrationInv
    <2> QED
      BY <2>1, <2>2, <2>3, <2>4, <2>5, <2>6, <2>7, Zenon DEF IntegrationNext
  <1>3. IntegrationInv => IntegrationSafety
    <2> SUFFICES ASSUME IntegrationInv PROVE IntegrationSafety
      OBVIOUS
    <2>1. IntegrationTypeOK
      BY Zenon DEF IntegrationInv, IntegrationTypeOK, Rows, Probes, MaybeSecret
    <2>2. \A o \in Outcomes : HealthCheckPassed(o) <=> o = Answered(200)
      BY IntegrationAssumption, SMTT(20) DEF Outcomes, HealthCheckPassed, Answered, Unreachable
    <2>3. Answered(200) # Unreachable
      BY Zenon DEF Answered, Unreachable
    <2>4. ActiveRestsOnProbe
      BY <2>2, <2>3, ZenonT(40) DEF IntegrationInv, ActiveRestsOnProbe, Rows, Probes
    <2>5. TrailExplainsRow
      BY ReadTrail, Zenon DEF IntegrationInv, TrailExplainsRow
    <2> QED
      BY <2>1, <2>4, <2>5, Zenon DEF IntegrationSafety
  <1> QED
    BY <1>1, <1>2, <1>3, PTL DEF IntegrationSpec

-----------------------------------------------------------------------------
\* Ledger projections.

Attempts == [step : {"idle", "posted", "sent", "projected", "pending", "refused", "mismatch"},
             amount : Nat, postedAt : Nat]
Projections == [sender : Posters, amount : PostAmounts, postedAt : Nat, signedAt : Nat]

\* The inductive invariant: whatever was posted and not refused, is under way or is
\* stored, is the transfer TigerBeetle holds.
ProjectionInv ==
  /\ transferId \in TransferIds /\ tigerbeetle \in PostAmounts \cup {0} /\ bindings \in BOOLEAN
  /\ ledgerClock \in Nat
  /\ posting \in [Posters -> Attempts] /\ wire \subseteq Projections
  /\ \A w \in Posters : posting[w].step \in {"posted", "sent", "pending", "projected", "mismatch"} =>
       posting[w].amount = tigerbeetle /\ tigerbeetle # 0
  /\ \A r \in wire : r.amount = tigerbeetle
  /\ FactMirrorsTransfer /\ SuccessMeansStored /\ (Stored => tigerbeetle # 0)

\* What the handler of a request leaves in the table and answers.
LEMMA RecordedRow ==
  ASSUME NEW r \in Projections, FactMirrorsTransfer, r.amount = tigerbeetle
  PROVE  LET o == RecordInternalLedgerProjection(r) IN
         /\ o.answer \in {"pending", "projected", "mismatch"}
         /\ o.row # NoFact => o.row.amount = tigerbeetle
         /\ o.answer = "projected" => o.row # NoFact
         /\ Stored => o.row = fact
PROOF
<1>1. r.amount # 0
  BY ProjectionAssumption, Zenon DEF Projections
<1>2. [amount |-> r.amount, postedAt |-> r.postedAt, evidence |-> EvidenceDigest(r.amount, r.postedAt)] # NoFact
  BY <1>1, Zenon DEF NoFact
<1> QED BY <1>2, Zenon DEF RecordInternalLedgerProjection, FactMirrorsTransfer, Stored

\* One worker moves on.
LEMMA PosterMoves ==
  ASSUME ProjectionInv, NEW w \in Posters, NEW attempt \in Attempts, posting' = [posting EXCEPT ![w] = attempt],
         tigerbeetle' \in PostAmounts \cup {0}, tigerbeetle # 0 => tigerbeetle' = tigerbeetle,
         attempt.step \in {"posted", "sent", "pending", "projected", "mismatch"} =>
           attempt.amount = tigerbeetle' /\ tigerbeetle' # 0,
         attempt.step # "projected", UNCHANGED <<transferId, ledgerClock, bindings, fact>>,
         wire' \subseteq Projections, \A r \in wire' : r.amount = tigerbeetle'
  PROVE  ProjectionInv' /\ FactNeverRewritten
PROOF
<1>1. posting' \in [Posters -> Attempts] /\ posting'[w] = attempt /\ \A v \in Posters \ {w} : posting'[v] = posting[v]
  BY Zenon DEF ProjectionInv
<1>2. \A v \in Posters : posting'[v].step \in {"posted", "sent", "pending", "projected", "mismatch"} =>
        posting'[v].amount = tigerbeetle' /\ tigerbeetle' # 0
  BY <1>1, Zenon DEF ProjectionInv
<1>3. FactMirrorsTransfer' /\ (Stored' => tigerbeetle' # 0)
  BY Zenon DEF ProjectionInv, FactMirrorsTransfer, Stored
<1>4. SuccessMeansStored'
  BY <1>1, Zenon DEF ProjectionInv, SuccessMeansStored, Stored
<1> QED BY <1>1, <1>2, <1>3, <1>4, Zenon DEF ProjectionInv, FactNeverRewritten

\* The control plane answers one request.
LEMMA RequestHandled ==
  ASSUME ProjectionInv, NEW r \in wire, RegisterInternalLedgerProjection(r)
  PROVE  ProjectionInv' /\ FactNeverRewritten
PROOF
<1> DEFINE o == IF VerifyRequest(r) THEN RecordInternalLedgerProjection(r) ELSE [row |-> fact, answer |-> "pending"]
<1>1. /\ r \in Projections /\ r.amount = tigerbeetle /\ FactMirrorsTransfer /\ SuccessMeansStored
      /\ posting \in [Posters -> Attempts] /\ r.sender \in Posters
  BY Zenon DEF ProjectionInv, Projections
<1>2. tigerbeetle # 0
  BY <1>1, ProjectionAssumption, Zenon DEF Projections
<1>3. /\ o.answer \in {"pending", "projected", "mismatch"} /\ (o.row # NoFact => o.row.amount = tigerbeetle)
      /\ o.answer = "projected" => o.row # NoFact
      /\ Stored => o.row = fact
  BY <1>1, RecordedRow, Zenon DEF FactMirrorsTransfer, Stored
<1>4. /\ wire' = wire \ {r} /\ fact' = o.row /\ UNCHANGED <<transferId, ledgerClock, tigerbeetle, bindings>>
      /\ posting' = IF posting[r.sender].step = "sent" /\ posting[r.sender].postedAt = r.postedAt
                    THEN [posting EXCEPT ![r.sender].step = o.answer] ELSE posting
  BY Zenon DEF RegisterInternalLedgerProjection
<1> HIDE DEF o
<1>5. posting' \in [Posters -> Attempts]
  BY <1>1, <1>3, <1>4, Zenon DEF Attempts
<1>6. \A w \in Posters : /\ posting'[w].amount = posting[w].amount
                         /\ \/ posting'[w].step = posting[w].step
                            \/ posting[w].step = "sent" /\ posting'[w].step = o.answer
  <2>1. CASE posting' = posting
    BY <2>1, Zenon
  <2>2. CASE posting' = [posting EXCEPT ![r.sender].step = o.answer] /\ posting[r.sender].step = "sent"
    BY <1>1, <2>2, Zenon DEF Attempts
  <2> QED BY <1>4, <2>1, <2>2, Zenon
<1>7. FactMirrorsTransfer' /\ (Stored' => tigerbeetle' # 0) /\ FactNeverRewritten
  BY <1>2, <1>3, <1>4, Zenon DEF FactMirrorsTransfer, Stored, FactNeverRewritten
<1>8. SuccessMeansStored'
  <2>1. ASSUME NEW w \in Posters, posting'[w].step = "projected"
        PROVE  Stored' /\ fact'.amount = posting'[w].amount
    <3>1. CASE posting[w].step = "projected"
      BY <1>1, <1>3, <1>4, <1>6, <3>1, ZenonT(40) DEF SuccessMeansStored, Stored
    <3>2. CASE posting[w].step = "sent" /\ o.answer = "projected"
      <4>1. posting[w].amount = tigerbeetle
        BY <3>2, Zenon DEF ProjectionInv
      <4> QED BY <1>3, <1>4, <1>6, <3>2, <4>1, Zenon DEF Stored
    <3> QED BY <1>6, <2>1, <3>1, <3>2, Zenon
  <2> QED BY <2>1, Zenon DEF SuccessMeansStored
<1>9. \A w \in Posters : posting'[w].step \in {"posted", "sent", "pending", "projected", "mismatch"} =>
        posting'[w].amount = tigerbeetle' /\ tigerbeetle' # 0
  BY <1>4, <1>6, Zenon DEF ProjectionInv
<1> QED BY <1>4, <1>5, <1>7, <1>8, <1>9, Zenon DEF ProjectionInv

\* For any workers, amounts, clocks and signature ages: the stored fact is the transfer
\* TigerBeetle holds, a worker that is told so has its fact stored, and no retry, duplicate
\* or late request rewrites it.
THEOREM ProjectionSafe == ProjectionSpec => ProjectionSafety
PROOF
<1>1. ProjectionInit => ProjectionInv
  BY SMTT(20) DEF ProjectionInit, ProjectionInv, NotPosting, Attempts, FactMirrorsTransfer, SuccessMeansStored, Stored
<1>2. ASSUME ProjectionInv, [ProjectionNext]_projectionVars PROVE ProjectionInv' /\ FactNeverRewritten
  <2> USE <1>2
  <2>0. posting \in [Posters -> Attempts] /\ ledgerClock \in Nat /\ wire \subseteq Projections
    BY Zenon DEF ProjectionInv
  <2>1. ASSUME NEW w \in Posters, NEW a \in PostAmounts, PostTransfer(w, a) PROVE ProjectionInv' /\ FactNeverRewritten
    <3>0. a \in Nat /\ a # 0
      BY ProjectionAssumption, Zenon
    <3>1. CASE tigerbeetle \in {0, a}
      <4> DEFINE t == [step |-> "posted", amount |-> a, postedAt |-> ledgerClock]
      <4>1. posting' = [posting EXCEPT ![w] = t] /\ tigerbeetle' = a /\ UNCHANGED <<transferId, ledgerClock, bindings, wire, fact>>
        BY <2>1, <3>1, Zenon DEF PostTransfer
      <4>2. t \in Attempts /\ t.step = "posted" /\ t.amount = a
        BY <2>0, <3>0, Zenon DEF Attempts
      <4>3. \A r \in wire : r.amount = a
        BY <3>0, <3>1, ProjectionAssumption, Zenon DEF ProjectionInv, Projections
      <4> HIDE DEF t
      <4> QED BY <2>0, <3>0, <3>1, <4>1, <4>2, <4>3, PosterMoves, Zenon
    <3>2. CASE tigerbeetle \notin {0, a}
      <4> DEFINE t == [step |-> "refused", amount |-> a, postedAt |-> 0]
      <4>1. posting' = [posting EXCEPT ![w] = t] /\ UNCHANGED <<transferId, tigerbeetle, ledgerClock, bindings, wire, fact>>
        BY <2>1, <3>2, Zenon DEF PostTransfer
      <4>2. t \in Attempts /\ t.step = "refused"
        BY <3>0, Zenon DEF Attempts
      <4> HIDE DEF t
      <4> QED BY <2>0, <4>1, <4>2, PosterMoves, Zenon DEF ProjectionInv
    <3> QED BY <3>1, <3>2, Zenon
  <2>2. ASSUME NEW w \in Posters, ProjectPostedTransfer(w) PROVE ProjectionInv' /\ FactNeverRewritten
    <3> DEFINE t == [posting[w] EXCEPT !.step = "sent"]
               q == [sender |-> w, amount |-> posting[w].amount, postedAt |-> posting[w].postedAt, signedAt |-> ledgerClock]
    <3>1. /\ posting' = [posting EXCEPT ![w] = t] /\ wire' = wire \cup {q} /\ posting[w].step = "posted"
          /\ UNCHANGED <<transferId, tigerbeetle, ledgerClock, bindings, fact>>
      BY <2>2, Zenon DEF ProjectPostedTransfer
    <3>2. t \in Attempts /\ t.step = "sent" /\ t.amount = posting[w].amount
      BY <2>0, Zenon DEF Attempts
    <3>3. posting[w].amount = tigerbeetle /\ tigerbeetle # 0 /\ tigerbeetle \in PostAmounts \cup {0}
      BY <3>1, Zenon DEF ProjectionInv
    <3>4. q \in Projections /\ q.amount = tigerbeetle
      BY <2>0, <3>3, Zenon DEF Projections, Attempts
    <3> HIDE DEF t, q
    <3>5. wire' \subseteq Projections /\ \A r \in wire' : r.amount = tigerbeetle
      BY <2>0, <3>1, <3>4, Zenon DEF ProjectionInv
    <3> QED BY <3>1, <3>2, <3>3, <3>5, PosterMoves, Zenon
  <2>3. ASSUME NEW w \in Posters, AnswerLost(w) PROVE ProjectionInv' /\ FactNeverRewritten
    <3> DEFINE t == [posting[w] EXCEPT !.step = "pending"]
    <3>1. /\ posting' = [posting EXCEPT ![w] = t] /\ posting[w].step = "sent"
          /\ UNCHANGED <<transferId, tigerbeetle, ledgerClock, bindings, wire, fact>>
      BY <2>3, Zenon DEF AnswerLost
    <3>2. t \in Attempts /\ t.step = "pending" /\ t.amount = posting[w].amount
      BY <2>0, Zenon DEF Attempts
    <3> HIDE DEF t
    <3> QED BY <3>1, <3>2, PosterMoves, Zenon DEF ProjectionInv
  <2>4. ASSUME NEW r \in wire, RegisterInternalLedgerProjection(r) PROVE ProjectionInv' /\ FactNeverRewritten
    BY <2>4, RequestHandled, Zenon
  <2>5. CASE BindingsRecorded \/ TimePasses \/ UNCHANGED projectionVars
    <3>1. UNCHANGED <<transferId, tigerbeetle, posting, wire, fact>> /\ bindings' \in BOOLEAN /\ ledgerClock' \in Nat
      <4>1. bindings' \in BOOLEAN
        BY <2>5, Zenon DEF BindingsRecorded, TimePasses, projectionVars, ProjectionInv
      <4> QED BY <2>0, <2>5, <4>1, SMTT(20) DEF BindingsRecorded, TimePasses, projectionVars
    <3> QED BY <3>1, Zenon DEF ProjectionInv, FactMirrorsTransfer, SuccessMeansStored, Stored, FactNeverRewritten
  <2> QED BY <2>1, <2>2, <2>3, <2>4, <2>5, Zenon DEF ProjectionNext
<1>3. ProjectionInv /\ [ProjectionNext]_projectionVars => ProjectionInv'
  BY <1>2, Zenon
<1>4. ProjectionInv /\ ProjectionInv' /\ [ProjectionNext]_projectionVars
        => [ProjectionTypeOK' /\ FactMirrorsTransfer' /\ SuccessMeansStored' /\ FactNeverRewritten]_projectionVars
  <2> SUFFICES ASSUME ProjectionInv, ProjectionInv', [ProjectionNext]_projectionVars
               PROVE  ProjectionTypeOK' /\ FactMirrorsTransfer' /\ SuccessMeansStored' /\ FactNeverRewritten
    OBVIOUS
  <2>1. ProjectionTypeOK'
    BY Zenon DEF ProjectionInv, ProjectionTypeOK, Attempts, Projections
  <2> QED BY <1>2, <2>1, Zenon DEF ProjectionInv
<1> QED BY <1>1, <1>3, <1>4, PTL DEF ProjectionSpec, ProjectionSafety

-----------------------------------------------------------------------------
-----------------------------------------------------------------------------
(* The evidence outbox. *)

DrainSteps == {"idle", "next", "posting", "ok", "error"}
Holding(d) == drain[d].step \in {"posting", "ok", "error"}

\* The outbox and the drains have their types; a drain names a row exactly while
\* it holds the row's lock.
OutboxTypes ==
  /\ outbox \in [Evidence -> {"none", "pending", "delivered"}]
  /\ drain \in [Drains -> [step : DrainSteps, row : Evidence \cup {0}, attempted : SUBSET Evidence]]
  /\ received \in [Evidence -> 0..2]
  /\ lost \in SUBSET Evidence
  /\ \A d \in Drains : Holding(d) <=> drain[d].row \in Evidence

\* A locked row is pending and locked once; what the catalog stored is marked
\* delivered, is in the hands of the drain that got the answer, or was lost.
OutboxInv ==
  /\ OutboxTypes
  /\ \A d \in Drains : Holding(d) => outbox[drain[d].row] = "pending"
  /\ \A d, x \in Drains : Holding(d) /\ Holding(x) /\ drain[d].row = drain[x].row => d = x
  /\ \A d \in Drains : drain[d].step = "ok" => received[drain[d].row] > 0
  /\ \A e \in Evidence : received[e] > 0 =>
       \/ e \in lost \/ outbox[e] = "delivered"
       \/ \E d \in Drains : drain[d].step = "ok" /\ drain[d].row = e
  /\ DeliveredMeansReceived
  /\ RepeatsOnlyAfterLoss

\* Every step of a drain, of the triggers or of a failing process keeps the types.
LEMMA OutboxTypesKept == OutboxTypes /\ [OutboxNext]_outboxVars => OutboxTypes'
  <1> SUFFICES ASSUME OutboxTypes, [OutboxNext]_outboxVars PROVE OutboxTypes'
    OBVIOUS
  <1> USE OutboxAssumption DEF OutboxTypes, Holding, DrainSteps
  <1>1. ASSUME NEW e \in Evidence, EnqueueEvidence(e) PROVE OutboxTypes'
    BY <1>1, Zenon DEF EnqueueEvidence
  <1>2. ASSUME NEW d \in Drains, LakehouseControlEvidenceDrain(d) PROVE OutboxTypes'
    BY <1>2, Zenon DEF LakehouseControlEvidenceDrain, NoDrain
  <1>3. ASSUME NEW d \in Drains, SelectRow(d) PROVE OutboxTypes'
    BY <1>3, SMTT(20) DEF SelectRow, Takes, Oldest, Candidates
  <1>4. ASSUME NEW d \in Drains, DrainEnds(d) PROVE OutboxTypes'
    BY <1>4, Zenon DEF DrainEnds, NoDrain
  <1>5. ASSUME NEW d \in Drains, PostAnswered(d) PROVE OutboxTypes'
    BY <1>5, SMTT(20) DEF PostAnswered, Stores
  <1>6. ASSUME NEW d \in Drains, PostTimesOut(d) PROVE OutboxTypes'
    BY <1>6, SMTT(20) DEF PostTimesOut, Stores
  <1>7. ASSUME NEW d \in Drains, PostRefused(d) PROVE OutboxTypes'
    BY <1>7, ZenonT(40) DEF PostRefused
  <1>8. ASSUME NEW d \in Drains, RecordAttempt(d) PROVE OutboxTypes'
    BY <1>8, SMTT(20) DEF RecordAttempt
  <1>9. ASSUME NEW d \in Drains, DrainDies(d) PROVE OutboxTypes'
    <2>1. CASE drain[d].step = "ok"
      BY <1>9, <2>1, Zenon DEF DrainDies, NoDrain
    <2>2. CASE drain[d].step # "ok"
      BY <1>9, <2>2, Zenon DEF DrainDies, NoDrain
    <2> QED
      BY <2>1, <2>2, Zenon
  <1>10. CASE UNCHANGED outboxVars
    BY <1>10, Zenon DEF outboxVars
  <1> QED
    BY <1>1, <1>2, <1>3, <1>4, <1>5, <1>6, <1>7, <1>8, <1>9, <1>10, Zenon
       DEF OutboxNext, DrainLakehouseControlEvidence

\* What the step of one drain leaves alone: the other drains.
LEMMA OtherDrainsRest ==
  ASSUME OutboxTypes, NEW d \in Drains,
         \/ LakehouseControlEvidenceDrain(d) \/ DrainLakehouseControlEvidence(d) \/ DrainDies(d)
  PROVE  \A x \in Drains \ {d} : drain'[x] = drain[x]
  BY Zenon DEF OutboxTypes, LakehouseControlEvidenceDrain, DrainLakehouseControlEvidence, DrainDies,
         SelectRow, Takes, DrainEnds, PostAnswered, PostTimesOut, PostRefused, RecordAttempt

\* A step of one drain keeps the invariant: only SelectRow takes a lock, and only
\* of a row that no drain holds.
LEMMA DrainKeepsInv ==
  ASSUME OutboxInv, OutboxTypes', NEW d \in Drains,
         \/ LakehouseControlEvidenceDrain(d) \/ DrainLakehouseControlEvidence(d) \/ DrainDies(d)
  PROVE  OutboxInv'
  <1>r. \A x \in Drains \ {d} : drain'[x] = drain[x]
    BY OtherDrainsRest, Zenon DEF OutboxInv
  <1>t. OutboxTypes
    BY Zenon DEF OutboxInv
  <1> USE <1>r, <1>t DEF OutboxInv, Holding, DeliveredMeansReceived, RepeatsOnlyAfterLoss
  <1>1. CASE LakehouseControlEvidenceDrain(d)
    BY <1>1, SMTT(60) DEF LakehouseControlEvidenceDrain, NoDrain, OutboxTypes
  <1>2. CASE SelectRow(d)
    BY <1>2, SMTT(60) DEF SelectRow, Takes, Oldest, Candidates, Locked, OutboxTypes
  <1>3. CASE DrainEnds(d)
    BY <1>3, SMTT(60) DEF DrainEnds, NoDrain, OutboxTypes
  <1>4. CASE PostAnswered(d)
    BY <1>4, SMTT(60) DEF PostAnswered, Stores, OutboxTypes
  <1>5. CASE PostTimesOut(d)
    BY <1>5, SMTT(20) DEF PostTimesOut, Stores, OutboxTypes
  <1>6. CASE PostRefused(d)
    BY <1>6, SMTT(20) DEF PostRefused, OutboxTypes
  <1>7. CASE RecordAttempt(d)
    BY <1>7, SMTT(60) DEF RecordAttempt, OutboxTypes
  <1>8. CASE DrainDies(d)
    BY <1>8, SMTT(60) DEF DrainDies, NoDrain, OutboxTypes
  <1> QED
    BY <1>1, <1>2, <1>3, <1>4, <1>5, <1>6, <1>7, <1>8, Zenon DEF DrainLakehouseControlEvidence

\* However many scheduled drains overlap, time out, die or fail to commit, a row
\* marked delivered is in the catalog and the catalog stores a row twice only
\* after a store that went unrecorded (drainLakehouseControlEvidence).
THEOREM OutboxSafe == OutboxSpec => []OutboxSafety
  <1>1. OutboxInit => OutboxInv
    BY OutboxAssumption, SMTT(60)
       DEF OutboxInit, OutboxInv, OutboxTypes, Holding, DrainSteps, NoDrain,
           DeliveredMeansReceived, RepeatsOnlyAfterLoss
  <1>2. OutboxInv /\ [OutboxNext]_outboxVars => OutboxInv'
    <2> SUFFICES ASSUME OutboxInv, [OutboxNext]_outboxVars PROVE OutboxInv'
      OBVIOUS
    <2>1. OutboxTypes /\ OutboxTypes'
      BY OutboxTypesKept, Zenon DEF OutboxInv
    <2>2. ASSUME NEW e \in Evidence, EnqueueEvidence(e) PROVE OutboxInv'
      BY <2>1, <2>2, SMTT(60) DEF EnqueueEvidence, OutboxInv, OutboxTypes, Holding,
           DeliveredMeansReceived, RepeatsOnlyAfterLoss
    <2>3. CASE UNCHANGED outboxVars
      BY <2>3 DEF outboxVars, OutboxInv, OutboxTypes, Holding, DeliveredMeansReceived, RepeatsOnlyAfterLoss
    <2> QED
      BY <2>1, <2>2, <2>3, DrainKeepsInv, Zenon DEF OutboxNext
  <1>3. OutboxInv => OutboxSafety
    BY Zenon DEF OutboxInv, OutboxTypes, Holding, OutboxSafety, OutboxTypeOK
  <1> QED
    BY <1>1, <1>2, <1>3, PTL DEF OutboxSpec

-----------------------------------------------------------------------------
\* Console submissions.

Requests == [n : 1..MaxRequests, payload : FormPayloads, at : {"up", "refused", "accepted"}]
Feedback == [kind : {"idle", "submitting", "error"}, slow : BOOLEAN, retryable : BOOLEAN]

\* The inductive invariant: what is captured, under way or recorded was submitted.
SubmitInv ==
  /\ keyed \in BOOLEAN /\ draft \in FormPayloads /\ last \subseteq FormPayloads
  /\ form \in Feedback /\ inFlight \subseteq Requests /\ requests \in 0..MaxRequests
  /\ last \subseteq reviewed
  /\ \A q \in inFlight : q.payload \in reviewed
  /\ OnlyReviewedRecorded

\* A refusal, however it is worded, is not offered for retry.
LEMMA RefusalNotRetried == \A m \in RefusalMessages : ~UseSubmitFeedback(m).retryable
PROOF
<1>1. \A m \in RefusalMessages : ~m.unambiguous /\ (m.refusal \/ ~m.transport)
  <2> SUFFICES ASSUME NEW m \in RefusalMessages PROVE ~m.unambiguous /\ (m.refusal \/ ~m.transport)
    OBVIOUS
  <2>1. \/ \E b \in BOOLEAN : m = [unambiguous |-> FALSE, refusal |-> TRUE, transport |-> b]
        \/ m = [unambiguous |-> FALSE, refusal |-> FALSE, transport |-> FALSE]
    BY DEF RefusalMessages
  <2>2. m.unambiguous = FALSE /\ (m.refusal = TRUE \/ m.transport = FALSE)
    BY <2>1
  <2> QED BY <2>2, Zenon
<1>2. \A m : UseSubmitFeedback(m).retryable = ClassifyFailure(m)
  BY Zenon DEF UseSubmitFeedback
<1> QED BY <1>1, <1>2, Zenon DEF ClassifyFailure

\* The feedback after a failure.
LEMMA FeedbackTypes == \A m \in RefusalMessages \cup TransportMessages : UseSubmitFeedback(m) \in Feedback
PROOF
<1>1. ASSUME NEW m \in RefusalMessages \cup TransportMessages PROVE UseSubmitFeedback(m) \in Feedback
  <2>1. ClassifyFailure(m) \in BOOLEAN
    BY Zenon DEF ClassifyFailure
  <2> QED BY <2>1, Zenon DEF UseSubmitFeedback, Feedback
<1> QED BY <1>1, Zenon

\* A request is sent for a payload the operator has seen.
LEMMA SendKeepsInv ==
  ASSUME SubmitInv, NEW p \in FormPayloads, SendRequest(p), p \in reviewed', reviewed \subseteq reviewed',
         last' \subseteq FormPayloads, last' \subseteq reviewed'
  PROVE  SubmitInv'
PROOF
<1> DEFINE q == [n |-> requests + 1, payload |-> p, at |-> "up"]
<1>1. requests < MaxRequests /\ requests' = requests + 1 /\ inFlight' = inFlight \cup {q} /\ form' = Submitting
      /\ UNCHANGED <<keyed, draft, rows>>
  BY Zenon DEF SendRequest
<1>2. requests \in 0..MaxRequests /\ MaxRequests \in Nat
  BY SubmissionAssumption, Zenon DEF SubmitInv
<1>3. requests' \in 0..MaxRequests /\ requests + 1 \in 1..MaxRequests
  BY <1>1, <1>2, SMTT(20)
<1>4. q \in Requests /\ q.payload = p
  BY <1>3, Zenon DEF Requests
<1> HIDE DEF q
<1>5. inFlight' \subseteq Requests /\ \A x \in inFlight' : x.payload \in reviewed'
  BY <1>1, <1>4, Zenon DEF SubmitInv
<1>6. form' \in Feedback
  BY <1>1, Zenon DEF Feedback, Submitting
<1>7. OnlyReviewedRecorded'
  BY <1>1, Zenon DEF SubmitInv, OnlyReviewedRecorded
<1> QED BY <1>1, <1>3, <1>5, <1>6, <1>7, Zenon DEF SubmitInv

\* The server evaluates a request.
LEMMA HandleKeepsInv ==
  ASSUME SubmitInv, NEW q \in inFlight, ServerHandles(q)
  PROVE  SubmitInv'
PROOF
<1>1. UNCHANGED <<keyed, draft, last, form, reviewed, requests>> /\ q \in Requests /\ q.payload \in reviewed
  BY Zenon DEF ServerHandles, SubmitInv
<1>2. PICK at \in {"refused", "accepted"} : inFlight' = (inFlight \ {q}) \cup {[q EXCEPT !.at = at]}
  BY Zenon DEF ServerHandles
<1>3. [q EXCEPT !.at = at] \in Requests /\ [q EXCEPT !.at = at].payload = q.payload
  BY <1>1, Zenon DEF Requests
<1>4. inFlight' \subseteq Requests /\ \A x \in inFlight' : x.payload \in reviewed'
  BY <1>1, <1>2, <1>3, Zenon DEF SubmitInv
<1>5. rows' \subseteq rows \cup {[n |-> q.n, payload |-> q.payload]}
  BY Zenon DEF ServerHandles
<1>6. OnlyReviewedRecorded'
  BY <1>1, <1>5, SMTT(20) DEF SubmitInv, OnlyReviewedRecorded
<1> QED BY <1>1, <1>4, <1>6, Zenon DEF SubmitInv

\* An answer arrives, or the request is taken for lost.
LEMMA AnswerKeepsInv ==
  ASSUME SubmitInv, NEW q \in inFlight, AnswerArrives(q) \/ \E gone \in BOOLEAN : RequestFails(q, gone)
  PROVE  SubmitInv'
PROOF
<1>1. UNCHANGED <<keyed, draft, last, rows, reviewed, requests>> /\ inFlight' \subseteq inFlight
  BY Zenon DEF AnswerArrives, RequestFails
<1>2. form' = form \/ form' = Idle \/ \E m \in RefusalMessages \cup TransportMessages : form' = UseSubmitFeedback(m)
  BY Zenon DEF AnswerArrives, RequestFails
<1>3. form' \in Feedback
  <2>1. Idle \in Feedback
    BY Zenon DEF Idle, Feedback
  <2> QED BY <1>2, <2>1, FeedbackTypes, Zenon DEF SubmitInv
<1> QED BY <1>1, <1>3, Zenon DEF SubmitInv, OnlyReviewedRecorded

\* However requests and answers are lost, repeated or overtaken, nothing is recorded that
\* the operator did not submit, and what the server refused is not offered again.
THEOREM SubmissionSafe == SubmitSpec => SubmissionSafety
PROOF
<1>1. SubmitInit => SubmitInv
  <2> SUFFICES ASSUME SubmitInit PROVE SubmitInv
    OBVIOUS
  <2>1. form \in Feedback
    BY Zenon DEF SubmitInit, Idle, Feedback
  <2>2. requests \in 0..MaxRequests
    BY SubmissionAssumption, SMTT(20) DEF SubmitInit
  <2> QED BY <2>1, <2>2, SubmissionAssumption, Zenon DEF SubmitInit, SubmitInv, OnlyReviewedRecorded
<1>2. ASSUME SubmitInv, [SubmitNext]_submitVars PROVE SubmitInv'
  <2> USE <1>2
  <2>1. CASE Run
    <3>1. SendRequest(draft) /\ last' = {draft} /\ reviewed' = reviewed \cup {draft} /\ draft \in FormPayloads
      BY <2>1, Zenon DEF Run, SubmitInv
    <3> QED BY <3>1, SendKeepsInv, Zenon
  <2>2. CASE Retry
    <3>1. PICK p \in last : SendRequest(p)
      BY <2>2, Zenon DEF Retry
    <3>2. p \in FormPayloads /\ p \in reviewed' /\ UNCHANGED <<last, reviewed>> /\ last \subseteq FormPayloads /\ last \subseteq reviewed
      BY <2>2, Zenon DEF Retry, SubmitInv
    <3> QED BY <3>1, <3>2, SendKeepsInv, Zenon
  <2>3. CASE SlowThreshold
    <3>1. form' \in Feedback
      BY <2>3, Zenon DEF SlowThreshold, SubmitInv, Feedback
    <3> QED BY <2>3, <3>1, Zenon DEF SlowThreshold, SubmitInv, OnlyReviewedRecorded
  <2>4. ASSUME NEW q \in inFlight, ServerHandles(q) \/ AnswerArrives(q) \/ \E gone \in BOOLEAN : RequestFails(q, gone)
        PROVE  SubmitInv'
    BY <2>4, HandleKeepsInv, AnswerKeepsInv, Zenon
  <2>5. CASE UNCHANGED submitVars \/ \E p \in FormPayloads : Edit(p)
    <3>1. draft' \in FormPayloads /\ UNCHANGED <<keyed, last, form, inFlight, rows, reviewed, requests>>
      BY <2>5, Zenon DEF submitVars, Edit, SubmitInv
    <3> QED BY <3>1, Zenon DEF SubmitInv, OnlyReviewedRecorded
  <2> QED BY <2>1, <2>2, <2>3, <2>4, <2>5, Zenon DEF SubmitNext
<1>3. SubmitInv /\ [SubmitNext]_submitVars => SubmitInv'
  BY <1>2, Zenon
<1>4. SubmitInv' => [SubmitTypeOK' /\ OnlyReviewedRecorded' /\ RefusalsAreFinal]_submitVars
  <2> SUFFICES ASSUME SubmitInv' PROVE SubmitTypeOK' /\ OnlyReviewedRecorded' /\ RefusalsAreFinal
    OBVIOUS
  <2>1. SubmitTypeOK'
    BY Zenon DEF SubmitInv, SubmitTypeOK, Requests, Feedback
  <2>2. RefusalsAreFinal
    BY RefusalNotRetried, Zenon DEF RefusalsAreFinal, AnswerArrives
  <2> QED BY <2>1, <2>2, Zenon DEF SubmitInv
<1> QED BY <1>1, <1>3, <1>4, PTL DEF SubmitSpec, SubmissionSafety
=============================================================================
