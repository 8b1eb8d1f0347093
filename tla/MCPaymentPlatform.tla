------------------------- MODULE MCPaymentPlatform --------------------------
\* The components of the control plane that carry payments and watch the services
\* behind them.  They share no state, so that each behaviour runs one of them, and the
\* run covers all of them.
EXTENDS PaymentDrafting, PaymentLifecycle, TreasuryReporting, Integrations,
        LedgerProjection, ServiceContracts, SettlementWire, ServiceHealth,
        OperationalAlerts, EvidenceOutbox, ConsoleSubmission, TLC

Rates == ("l1" :> 3) @@ ("l2" :> 27)
Answers == {[at |-> 1, state |-> "confirmed_match"], [at |-> 2, state |-> "clear"],
            [at |-> 2, state |-> "potential_match"], [at |-> 3, state |-> "clear"]}

VARIABLE part   \* the component at work in this behaviour

allVars == <<draftVars, lifeVars, treasuryVars, integrationVars, projectionVars,
             contractVars, wireVars, healthVars, alertVars, outboxVars, submitVars, part>>

Parts == {"drafting", "lifecycle", "treasury", "integrations", "projection", "contracts",
          "wire", "health", "alerts", "outbox", "submission"}

\* A component that is not at work rests in one of its initial states.
Init == /\ part \in Parts
        /\ DraftInit /\ LifeInit /\ IntegrationInit /\ OutboxInit
        /\ TreasuryInit /\ (part = "treasury" \/ treasuryDesk = "report")
        /\ ProjectionInit /\ (part = "projection" \/ (transferId = 1 /\ bindings))
        /\ ContractInit /\ (part = "contracts" \/ bridgeUrl = "unset")
        /\ WireInit /\ (part = "wire" \/ (method = "query" /\ sent = CHOOSE m \in Messages("query") : TRUE))
        /\ HealthInit /\ (part = "health" \/ (watch = "samples" /\ endpoint = "unset"))
        /\ AlertInit /\ (part = "alerts" \/ kind = "payment")
        /\ SubmitInit /\ (part = "submission" \/ (keyed /\ draft = "a"))

Next ==
  \/ /\ part = "drafting" /\ DraftNext
     /\ UNCHANGED <<lifeVars, treasuryVars, integrationVars, projectionVars, contractVars,
                     wireVars, healthVars, alertVars, outboxVars, submitVars, part>>
  \/ /\ part = "lifecycle" /\ LifeNext
     /\ UNCHANGED <<draftVars, treasuryVars, integrationVars, projectionVars, contractVars,
                     wireVars, healthVars, alertVars, outboxVars, submitVars, part>>
  \/ /\ part = "treasury" /\ TreasuryNext
     /\ UNCHANGED <<draftVars, lifeVars, integrationVars, projectionVars, contractVars,
                     wireVars, healthVars, alertVars, outboxVars, submitVars, part>>
  \/ /\ part = "integrations" /\ IntegrationNext
     /\ UNCHANGED <<draftVars, lifeVars, treasuryVars, projectionVars, contractVars,
                     wireVars, healthVars, alertVars, outboxVars, submitVars, part>>
  \/ /\ part = "projection" /\ ProjectionNext
     /\ UNCHANGED <<draftVars, lifeVars, treasuryVars, integrationVars, contractVars,
                     wireVars, healthVars, alertVars, outboxVars, submitVars, part>>
  \/ /\ part = "contracts" /\ ContractNext
     /\ UNCHANGED <<draftVars, lifeVars, treasuryVars, integrationVars, projectionVars,
                     wireVars, healthVars, alertVars, outboxVars, submitVars, part>>
  \/ /\ part = "wire" /\ WireNext
     /\ UNCHANGED <<draftVars, lifeVars, treasuryVars, integrationVars, projectionVars,
                     contractVars, healthVars, alertVars, outboxVars, submitVars,
                     part>>
  \/ /\ part = "health" /\ HealthNext
     /\ UNCHANGED <<draftVars, lifeVars, treasuryVars, integrationVars, projectionVars,
                     contractVars, wireVars, alertVars, outboxVars, submitVars,
                     part>>
  \/ /\ part = "alerts" /\ AlertNext
     /\ UNCHANGED <<draftVars, lifeVars, treasuryVars, integrationVars, projectionVars,
                     contractVars, wireVars, healthVars, outboxVars, submitVars,
                     part>>
  \/ /\ part = "outbox" /\ OutboxNext
     /\ UNCHANGED <<draftVars, lifeVars, treasuryVars, integrationVars, projectionVars,
                     contractVars, wireVars, healthVars, alertVars, submitVars,
                     part>>
  \/ /\ part = "submission" /\ SubmitNext
     /\ UNCHANGED <<draftVars, lifeVars, treasuryVars, integrationVars, projectionVars,
                     contractVars, wireVars, healthVars, alertVars, outboxVars,
                     part>>

\* The fairness of the components, each for the behaviours in which it works.
Fairness ==
  /\ WF_draftVars(part = "drafting" /\ ReminderJobExpiry)
  /\ WF_treasuryVars(part = "treasury" /\ CounterpartyRiskReviews)
  /\ \A d \in Drains : /\ WF_outboxVars(part = "outbox" /\ LakehouseControlEvidenceDrain(d))
                       /\ WF_outboxVars(part = "outbox" /\ DrainLakehouseControlEvidence(d))
  /\ \A e \in Evidence : SF_outboxVars(/\ part = "outbox"
                                       /\ \E d \in Drains : drain[d].row = e /\ PostAnswered(d))

PlatformSpec == Init /\ [][Next]_allVars /\ Fairness

-----------------------------------------------------------------------------
\* The console and the server agree: on current rows, the forms of locks, orders, legs,
\* recommendations and credentials offer a role what the server accepts from it
\* (RateLockControls.tsx, PaymentWorkflowControls.tsx, TreasuryRebalancingControls.tsx,
\* IntegrationCredentialControls.tsx against their handlers).
ConsoleMatchesServer ==
  /\ part \in Parts
  /\ part = "drafting"     => LockFormsMatchServer
  /\ part = "lifecycle"    => LedgersMatchServer
  /\ part = "treasury"     => DecisionFormsMatchServer
  /\ part = "integrations" => CredentialOffersAccepted

\* The scheduled jobs catch up: elapsed locks expire, passed reviews are flagged, and
\* good evidence rows are delivered although refused rows stand before them
\* (regulatoryDeadlineReminders.ts, counterpartyRiskReviews.ts,
\* lakehouseControlEvidenceDrain.ts).
JobsCatchUp ==
  /\ ElapsedLockResolves
  /\ PassedReviewIsFlagged
  /\ RefusedRowsDoNotBlock
=============================================================================
