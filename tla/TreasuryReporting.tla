-------------------------- MODULE TreasuryReporting --------------------------
\* Three registers that a desk proposes in and somebody else judges: treasury
\* rebalancing recommendations, regulatory reports, and the reviews of counterparty
\* risk that a scheduled job flags.  Every handler is one transaction under the row's
\* lock; what a console displays is as old as its last refetch.
EXTENDS Integers, ConsoleRoles

CONSTANTS Dealers,            \* treasury operators and administrators
          Target, Cap,        \* the policy's target buffer and its limit on one recommendation
          Balances,           \* balances and funding gaps an operator may enter
          NoDealer

ASSUME TreasuryAssumption == /\ {Target, Cap} \cup Balances \subseteq Nat
                             /\ NoDealer \notin Dealers

VARIABLES treasuryDesk,  \* the register at work: "treasury", "report" or "review"
          policy,      \* "future", "effective" or "ended"
          rec,         \* the recommendation
          shownRec,    \* dealer |-> the recommendation as displayed
          report,      \* the regulatory report, with the role its approver had
          review,      \* the risk assessment and where its review date lies
          reviewJob    \* the scheduled job is registered and enabled

treasuryVars == <<treasuryDesk, policy, rec, shownRec, report, review, reviewJob>>

NoRec == [status |-> "none", by |-> NoDealer, available |-> 0, gap |-> 0, amount |-> 0,
          decider |-> NoDealer, expired |-> FALSE]
NoReport == [status |-> "none", artifact |-> FALSE, manifest |-> FALSE, reference |-> FALSE, approvedAs |-> "nobody"]
WorkflowStatus == {"under_review", "approved", "pending_submission", "submitted", "rejected"}
Gated == WorkflowStatus \ {"rejected"}

TreasuryInit ==
  /\ treasuryDesk \in {"treasury", "report", "review"}
  /\ policy = "future" /\ rec = NoRec /\ shownRec = [d \in Dealers |-> NoRec]
  /\ report = NoReport /\ review = [status |-> "none", date |-> "ahead"] /\ reviewJob = FALSE

---------------------------------------------------------------------------
\* Recommendations.

\* The effective window of the policy opens and closes.
PolicyMoves ==
  /\ treasuryDesk = "treasury" /\ policy # "ended"
  /\ policy' = IF policy = "future" THEN "effective" ELSE "ended"
  /\ UNCHANGED <<treasuryDesk, rec, shownRec, report, review, reviewJob>>

Least(a, b) == IF a < b THEN a ELSE b

\* max(0, min(target - available, cap, gap)).
Recommendation(available, gap) ==
  LET bounded == Least(Target - available, Least(Cap, gap)) IN IF bounded < 0 THEN 0 ELSE bounded

\* The balance was reconciled within the last day, or the proposal is refused.
CreatePostgresTreasuryRecommendation(d, available, gap, fresh) ==
  /\ treasuryDesk = "treasury" /\ rec.status = "none"
  /\ policy = "effective" /\ fresh
  /\ rec' = [status |-> "proposed", by |-> d, available |-> available, gap |-> gap,
             amount |-> Recommendation(available, gap), decider |-> NoDealer, expired |-> FALSE]
  /\ UNCHANGED <<treasuryDesk, policy, shownRec, report, review, reviewJob>>

RecommendationExpires ==
  /\ rec.status # "none" /\ ~rec.expired
  /\ rec' = [rec EXCEPT !.expired = TRUE]
  /\ UNCHANGED <<treasuryDesk, policy, shownRec, report, review, reviewJob>>

RefetchRecommendations(d) ==
  /\ shownRec[d] # rec
  /\ shownRec' = [shownRec EXCEPT ![d] = rec]
  /\ UNCHANGED <<treasuryDesk, policy, rec, report, review, reviewJob>>

Decidable(r, d) == r.status = "proposed" /\ r.by # d /\ ~r.expired

\* The decision is checked against what the console displayed.
DecideDisplayed(d, decision) ==
  /\ Decidable(shownRec[d], d)
  /\ rec' = [rec EXCEPT !.status = decision, !.decider = d]
  /\ UNCHANGED <<treasuryDesk, policy, shownRec, report, review, reviewJob>>

DecidePostgresTreasuryRecommendation(d, decision) ==
  /\ Decidable(shownRec[d], d)
  /\ Decidable(rec, d)
  /\ rec' = [rec EXCEPT !.status = decision, !.decider = d]
  /\ UNCHANGED <<treasuryDesk, policy, shownRec, report, review, reviewJob>>

---------------------------------------------------------------------------
\* Regulatory reports.

CreatePostgresRegulatoryReport ==
  /\ treasuryDesk = "report" /\ report.status = "none"
  /\ report' = [report EXCEPT !.status = "draft"]
  /\ UNCHANGED <<treasuryDesk, policy, rec, shownRec, review, reviewJob>>

\* Any status may follow any other; what the request leaves out keeps its value.
TransitionPostgresRegulatoryReport(role, to, artifact, manifest, reference) ==
  /\ report.status # "none" /\ role \in ComplianceProcedure
  /\ to \in Gated => (artifact \/ report.artifact) /\ (manifest \/ report.manifest)
  /\ to = "submitted" => reference
  /\ to = "approved" => role = "compliance_officer"
  /\ report' = [status |-> to, artifact |-> artifact \/ report.artifact,
                manifest |-> manifest \/ report.manifest,
                reference |-> report.reference \/ reference,
                approvedAs |-> IF to = "approved" THEN role ELSE report.approvedAs]
  /\ UNCHANGED <<treasuryDesk, policy, rec, shownRec, review, reviewJob>>

\* A manifest that is not JSON never leaves the form.
PostgresReportTransitionForm(role, to, artifact, manifest, reference) ==
  /\ manifest # "broken"
  /\ TransitionPostgresRegulatoryReport(role, to, artifact, manifest = "json", reference)

---------------------------------------------------------------------------
\* Counterparty risk reviews.

CreatePostgresCounterpartyRiskAssessment ==
  /\ treasuryDesk = "review" /\ review.status = "none"
  /\ review' = [status |-> "current", date |-> "ahead"]
  /\ UNCHANGED <<treasuryDesk, policy, rec, shownRec, report, reviewJob>>

EscalatePostgresCounterpartyRiskAssessment ==
  /\ review.status \notin {"none", "escalated"}
  /\ review' = [review EXCEPT !.status = "escalated"]
  /\ UNCHANGED <<treasuryDesk, policy, rec, shownRec, report, reviewJob>>

ReviewDateMoves ==
  /\ review.status # "none" /\ review.date # "past"
  /\ review' = [review EXCEPT !.date = IF review.date = "ahead" THEN "now" ELSE "past"]
  /\ UNCHANGED <<treasuryDesk, policy, rec, shownRec, report, reviewJob>>

ReviewJobRegistered ==
  /\ treasuryDesk = "review" /\ ~reviewJob /\ reviewJob' = TRUE
  /\ UNCHANGED <<treasuryDesk, policy, rec, shownRec, report, review>>

EvaluatePostgresCounterpartyRiskReviews ==
  /\ review.status = "current" /\ review.date # "ahead"
  /\ review' = [review EXCEPT !.status = IF review.date = "past" THEN "overdue" ELSE "due"]
  /\ UNCHANGED <<treasuryDesk, policy, rec, shownRec, report, reviewJob>>

\* The cron endpoint does nothing unless its job is registered and enabled.
CounterpartyRiskReviews == reviewJob /\ EvaluatePostgresCounterpartyRiskReviews

TreasuryNext ==
  \/ PolicyMoves \/ RecommendationExpires
  \/ \E d \in Dealers :
       \/ \E available, gap \in Balances, fresh \in BOOLEAN :
            CreatePostgresTreasuryRecommendation(d, available, gap, fresh)
       \/ RefetchRecommendations(d)
       \/ \E decision \in {"approved", "rejected"} : DecidePostgresTreasuryRecommendation(d, decision)
  \/ CreatePostgresRegulatoryReport
  \/ \E role \in OperatorRole, to \in WorkflowStatus, artifact, reference \in BOOLEAN,
        manifest \in {"none", "json", "broken"} :
       PostgresReportTransitionForm(role, to, artifact, manifest, reference)
  \/ CreatePostgresCounterpartyRiskAssessment \/ EscalatePostgresCounterpartyRiskAssessment
  \/ ReviewDateMoves \/ ReviewJobRegistered \/ CounterpartyRiskReviews

\* The scheduler keeps calling the endpoint.
TreasuryFairness == WF_treasuryVars(CounterpartyRiskReviews)

TreasurySpec == TreasuryInit /\ [][TreasuryNext]_treasuryVars /\ TreasuryFairness

---------------------------------------------------------------------------
\* The console.

CanProposeRebalancing(role) == role \in {"treasury_operator", "admin"}
CanDecideRecommendation(role, r, who) == CanProposeRebalancing(role) /\ Decidable(r, who)

TreasuryRecommendationTable(role, r, who) ==
  IF CanDecideRecommendation(role, r, who) THEN {"approved", "rejected"} ELSE {}

---------------------------------------------------------------------------
\* The recommendation, the report and the review take only the values their columns have.
TreasuryTypeOK ==
  /\ rec.status \in {"none", "proposed", "approved", "rejected"} /\ rec.amount \in Nat
  /\ report.status \in {"none", "draft"} \cup WorkflowStatus
  /\ review.status \in {"none", "current", "due", "overdue", "escalated"}

\* A recommendation is as large as the policy allows and no larger: it never exceeds
\* the verified gap or the cap, never lifts the balance above the target, and one of
\* the three limits is reached; a balance at or above the target gets nothing
\* (postgres.ts:627-629).
RecommendationIsTight ==
  rec.status # "none" =>
    /\ rec.amount >= 0 /\ rec.amount <= rec.gap /\ rec.amount <= Cap
    /\ rec.amount > 0 => rec.available + rec.amount <= Target
    /\ rec.amount \in {rec.gap, Cap, Target - rec.available} \/ rec.available >= Target

\* A decision stands, and is independent: whatever two dealers' consoles displayed, a
\* decided recommendation is not decided again, and nobody decides their own or an
\* expired one (postgres.ts:638-648).
DecisionsStand ==
  /\ rec.status \in {"approved", "rejected"} => rec'.status = rec.status /\ rec'.decider = rec.decider
  /\ rec.status = "proposed" /\ rec'.status # "proposed" => rec'.decider # rec.by /\ ~rec.expired

\* On a row read just now, the table offers a role a decision exactly when the server
\* accepts it (TreasuryRebalancingControls.tsx:53-63, routers.ts:353).
DecisionFormsMatchServer ==
  \A d \in Dealers, role \in OperatorRole :
    (TreasuryRecommendationTable(role, rec, d) # {}) <=> (role \in TreasuryProcedure /\ Decidable(rec, d))

\* The database's review and submission gates never have to refuse what the handler
\* writes: over any order of transitions with partial inputs, a report that is under
\* review or beyond keeps its artifact and its manifest, a submitted one has its
\* reference, and whoever approved it was a compliance officer (postgres.ts:650-664).
ReportGatesHold ==
  /\ report.status \in Gated => report.artifact /\ report.manifest
  /\ report.status = "submitted" => report.reference
  /\ report.approvedAs \in {"nobody", "compliance_officer"}

\* A review whose date has passed does not stay current once the job is enabled, even
\* when the job did not run on the day (counterpartyRiskReviews.ts:5-19,
\* postgres.ts:715-731).
PassedReviewIsFlagged ==
  (reviewJob /\ review.status = "current" /\ review.date = "past") ~> (review.status # "current")

\* Every step keeps recommendations tight, their decisions independent and final, and
\* reports within their gates (postgres.ts:618-664).
JudgedIndependently ==
  [][/\ TreasuryTypeOK' /\ RecommendationIsTight' /\ ReportGatesHold'
     /\ DecisionsStand]_treasuryVars
=============================================================================
