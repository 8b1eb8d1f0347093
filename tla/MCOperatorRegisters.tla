------------------------ MODULE MCOperatorRegisters -------------------------
\* The components of the control plane that keep its registers of people, partners,
\* cases and evidence.  They share no state, so that each behaviour runs one of them;
\* the run thus covers all of them.
EXTENDS CounterpartyOnboarding, PartnerRegisters, CustomerUseCase, ComplianceCases,
        DocumentEvidence, ReadinessRegisters, OperatorAccess, AccessLifecycles

EveryoneAdmin == [p \in Staff |-> "admin"]

VARIABLE part   \* the component at work in this behaviour

allVars == <<onboardingVars, registerVars, customerVars, caseVars, evidenceVars,
             readinessVars, monitorVars, accessVars, lifecycleVars, part>>

Parts == {"onboarding", "partners", "customers", "cases", "documents", "readiness",
          "segregation", "access", "lifecycles"}

\* A component that is not at work rests in one of its initial states.
Init == /\ part \in Parts
        /\ CustomerInit /\ CasesInit /\ MonitorInit
        /\ OnboardingInit /\ (part = "onboarding" \/ (~licence /\ ~rail))
        /\ RegisterInit /\ (part = "partners" \/ register = "banking")
        /\ EvidenceInit /\ (part = "documents" \/ consent.scope = "kyc")
        /\ ReadinessInit /\ (part = "readiness" \/ book = "cbn")
        /\ OperatorAccessInit /\ (part = "access" \/ account = "none")
        /\ LifecycleInit /\ (part = "lifecycles" \/ journey = "operator")

Next ==
  \/ /\ part = "onboarding" /\ OnboardingNext
     /\ UNCHANGED <<registerVars, customerVars, caseVars, evidenceVars, readinessVars,
                     monitorVars, accessVars, lifecycleVars, part>>
  \/ /\ part = "partners" /\ RegisterNext
     /\ UNCHANGED <<onboardingVars, customerVars, caseVars, evidenceVars, readinessVars,
                     monitorVars, accessVars, lifecycleVars, part>>
  \/ /\ part = "customers" /\ CustomerNext
     /\ UNCHANGED <<onboardingVars, registerVars, caseVars, evidenceVars, readinessVars,
                     monitorVars, accessVars, lifecycleVars, part>>
  \/ /\ part = "cases" /\ CasesNext
     /\ UNCHANGED <<onboardingVars, registerVars, customerVars, evidenceVars, readinessVars,
                     monitorVars, accessVars, lifecycleVars, part>>
  \/ /\ part = "documents" /\ EvidenceNext
     /\ UNCHANGED <<onboardingVars, registerVars, customerVars, caseVars, readinessVars,
                     monitorVars, accessVars, lifecycleVars, part>>
  \/ /\ part = "readiness" /\ ReadinessNext
     /\ UNCHANGED <<onboardingVars, registerVars, customerVars, caseVars, evidenceVars,
                     monitorVars, accessVars, lifecycleVars, part>>
  \/ /\ part = "segregation" /\ MonitorNext
     /\ UNCHANGED <<onboardingVars, registerVars, customerVars, caseVars, evidenceVars,
                     readinessVars, accessVars, lifecycleVars, part>>
  \/ /\ part = "access" /\ AccessNext
     /\ UNCHANGED <<onboardingVars, registerVars, customerVars, caseVars, evidenceVars,
                     readinessVars, monitorVars, lifecycleVars, part>>
  \/ /\ part = "lifecycles" /\ LifecycleNext
     /\ UNCHANGED <<onboardingVars, registerVars, customerVars, caseVars, evidenceVars,
                     readinessVars, monitorVars, accessVars, part>>

\* The fairness of the components, each for the behaviours in which it works.
Fairness ==
  /\ WF_monitorVars(part = "segregation" /\ MonitorRounds)
  /\ WF_accessVars(part = "access" /\ CreateContext)
  /\ SF_accessVars(part = "access" /\ RecordOperatorAccessAttempt)

RegistersSpec == Init /\ [][Next]_allVars /\ Fairness

-----------------------------------------------------------------------------
\* The console and the server agree: the cards, workspaces, panels and tables offer a
\* role what the server accepts from it (CounterpartyOnboardingControls.tsx, the five
\* partner workspaces, EnterpriseCustomersWorkspace.tsx, KycDocumentReviewControls.tsx,
\* CbnSandboxWorkspace.tsx, OperatorsWorkspace.tsx, AuditorEngagementWorkspace.tsx).
ConsoleMatchesServer ==
  /\ part \in Parts
  /\ part = "onboarding"  => ConsoleRoutesGates
  /\ part = "partners"    => WorkspaceMatchesServer
  /\ part = "customers"   => CustomerFormsMatchServer
  /\ part = "documents"   => ReviewTableMatchesServer
  /\ part = "readiness"   => FormsAccepted
  /\ part = "segregation" => PanelOffersAccepted
  /\ part = "lifecycles"  => LifecycleFormsAccepted

\* Nobody and nothing is stranded: a standing exception is raised, and a person without
\* a role reaches the queue an administrator grants from
\* (segregationOfDutiesMonitor.ts, operatorAccessRequests.ts).
NothingStranded ==
  /\ ExceptionIsRaised
  /\ NewcomerReachesQueue
=============================================================================
