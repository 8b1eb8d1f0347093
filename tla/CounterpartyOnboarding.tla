----------------------- MODULE CounterpartyOnboarding -----------------------
\* The governed onboarding of a counterparty: legal review, technical readiness,
\* a pilot that two operators approve independently, steady state, and the
\* recertification that starts the next cycle.  Every handler locks the
\* onboarding row, so a handler is one step; operators act in any order and an
\* operator's role may change between two decisions.
EXTENDS Naturals, FiniteSets, ConsoleRoles

CONSTANTS Operators, MaxCycle

ASSUME OnboardingAssumption == MaxCycle \in Nat \ {0}

VARIABLES onb,       \* the onboarding row: [stage, cycle, due]
          licence,   \* a verified authorisation of the counterparty exists
          rail,      \* an active integration of the counterparty exists
          gateLog    \* gate decisions: [cycle, gate, decision, by, role]

onboardingVars == <<onb, licence, rail, gateLog>>

OnboardingStage == {"none", "legal_onboarding", "technical_readiness", "pilot", "steady_state", "blocked"}
OnboardingGate == {"legal", "technical", "pilot"}
OnboardingDecision == {"approved", "blocked"}

StageForGate(g) == CASE g = "legal"     -> "legal_onboarding"
                     [] g = "technical" -> "technical_readiness"
                     [] g = "pilot"     -> "pilot"

PermittedGateRoles(g) == CASE g = "legal"     -> {"compliance_officer"}
                           [] g = "technical" -> {"admin"}
                           [] g = "pilot"     -> {"compliance_officer", "treasury_operator"}

\* The roles the procedure carrying a gate decision admits.
GateProcedures == {"decideGate", "decideTechnical", "decideTreasuryPilot"}
GateProcedureRoles(p) == CASE p = "decideGate"          -> ComplianceOnlyProcedure
                           [] p = "decideTechnical"     -> AdminProcedure
                           [] p = "decideTreasuryPilot" -> TreasuryProcedure
GatesOfProcedure(p) == CASE p = "decideGate"          -> {"legal", "pilot"}
                         [] p = "decideTechnical"     -> {"technical"}
                         [] p = "decideTreasuryPilot" -> {"pilot"}

OnboardingInit ==
  /\ onb = [stage |-> "none", cycle |-> 1, due |-> FALSE]
  /\ licence \in BOOLEAN /\ rail \in BOOLEAN
  /\ gateLog = {}

CreateCounterpartyOnboarding ==
  /\ onb.stage = "none"
  /\ onb' = [onb EXCEPT !.stage = "legal_onboarding"]
  /\ UNCHANGED <<licence, rail, gateLog>>

ThisCycle(g) == {d \in gateLog : d.cycle = onb.cycle /\ d.gate = g}

\* The gate's own precondition: approving needs the record the gate is about.
GateEvidence(g, d) == /\ (g = "legal" /\ d = "approved") => licence
                      /\ (g = "technical" /\ d = "approved") => rail

\* The pilot's second decision may come from the first one's operator.
IndependentRole(g, who, role) == \A e \in ThisCycle(g) : e.role # role

Independent(g, who, role) == \A e \in ThisCycle(g) : /\ e.role # role
                                                     /\ g = "pilot" => e.by # who

\* The stage after a decision; log is the decisions of the gate, this one included.
NextStage(g, d, log) ==
  IF d = "blocked" THEN "blocked"
  ELSE CASE g = "legal"     -> "technical_readiness"
         [] g = "technical" -> "pilot"
         [] g = "pilot"     -> IF Cardinality({e \in log : e.decision = "approved"}) = 2
                               THEN "steady_state" ELSE onb.stage

\* The procedure admits the role and the handler accepts the decision.
GateAccepted(p, g, d, who, role) ==
  /\ g \in GatesOfProcedure(p) /\ role \in GateProcedureRoles(p)
  /\ role \in PermittedGateRoles(g)
  /\ onb.stage = StageForGate(g)
  /\ GateEvidence(g, d) /\ Independent(g, who, role)

DecideCounterpartyOnboardingGate(p, g, d, who, role) ==
  /\ GateAccepted(p, g, d, who, role)
  /\ LET e == [cycle |-> onb.cycle, gate |-> g, decision |-> d, by |-> who, role |-> role]
     IN  /\ gateLog' = gateLog \cup {e}
         /\ onb' = [onb EXCEPT !.stage = NextStage(g, d, ThisCycle(g) \cup {e})]
  /\ UNCHANGED <<licence, rail>>

BeginCounterpartyRecertification ==
  /\ onb.stage = "steady_state" /\ onb.due /\ onb.cycle < MaxCycle
  /\ onb' = [onb EXCEPT !.stage = "legal_onboarding", !.cycle = @ + 1, !.due = FALSE]
  /\ UNCHANGED <<licence, rail, gateLog>>

\* The due date passes; licences and integrations come and go in their registers.
RecertificationFallsDue == /\ onb.stage # "none" /\ ~onb.due
                           /\ onb' = [onb EXCEPT !.due = TRUE]
                           /\ UNCHANGED <<licence, rail, gateLog>>
LicenceChanges == licence' = ~licence /\ UNCHANGED <<onb, rail, gateLog>>
RailChanges == rail' = ~rail /\ UNCHANGED <<onb, licence, gateLog>>

OnboardingNext ==
  \/ CreateCounterpartyOnboarding
  \/ \E p \in GateProcedures, g \in OnboardingGate, d \in OnboardingDecision, who \in Operators, role \in OperatorRole :
       DecideCounterpartyOnboardingGate(p, g, d, who, role)
  \/ BeginCounterpartyRecertification
  \/ RecertificationFallsDue \/ LicenceChanges \/ RailChanges

OnboardingSpec == OnboardingInit /\ [][OnboardingNext]_onboardingVars

---------------------------------------------------------------------------
\* The console: what the lifecycle card lets an operator of a role submit.

GateForStage(stage) == {g \in OnboardingGate : StageForGate(g) = stage}

MayDecide(role, g) == CASE g = "legal"     -> role = "compliance_officer"
                        [] g = "technical" -> role = "admin"
                        [] g = "pilot"     -> role \in {"compliance_officer", "treasury_operator"}

GateDecisionForm(role, g) ==
  LET proc == IF g = "technical" THEN "decideTechnical"
              ELSE IF g = "pilot" /\ role = "treasury_operator" THEN "decideTreasuryPilot"
              ELSE "decideGate"
  IN  {[proc |-> proc, gate |-> g, decision |-> d] : d \in OnboardingDecision}

RecertificationForm(stage, role) == stage = "steady_state" /\ role \in {"compliance_officer", "admin"}

CounterpartyOnboardingControls(stage, role) ==
  UNION {GateDecisionForm(role, g) : g \in {h \in GateForStage(stage) : MayDecide(role, h)}}

---------------------------------------------------------------------------
\* The onboarding row and the gate decisions have their types.
OnboardingTypeOK ==
  /\ onb \in [stage : OnboardingStage, cycle : 1..MaxCycle, due : BOOLEAN]
  /\ licence \in BOOLEAN /\ rail \in BOOLEAN
  /\ gateLog \subseteq [cycle : 1..MaxCycle, gate : OnboardingGate, decision : OnboardingDecision,
                        by : Operators, role : OperatorRole]

\* A counterparty in steady state went through every gate of the CURRENT cycle:
\* a compliance officer approved the legal gate, an administrator the technical
\* one, and the pilot was approved by two different people holding the two
\* different roles; no gate of the cycle was blocked
\* (counterpartyOnboarding.ts:142-217, 219-252).
SteadyStateEarned ==
  onb.stage = "steady_state" =>
    /\ \E d \in ThisCycle("legal") : d.decision = "approved" /\ d.role = "compliance_officer"
    /\ \E d \in ThisCycle("technical") : d.decision = "approved" /\ d.role = "admin"
    /\ \E d, e \in ThisCycle("pilot") :
         /\ d.decision = "approved" /\ e.decision = "approved"
         /\ d.by # e.by /\ {d.role, e.role} = PermittedGateRoles("pilot")
    /\ \A g \in OnboardingGate : \A d \in ThisCycle(g) : d.decision # "blocked"

\* The lifecycle card and the server agree on who decides: every decision the
\* server would accept from an operator is one the card offers to that role, and
\* every decision the card offers goes to a procedure that admits the role; the
\* recertification form is there for exactly the roles that may recertify
\* (CounterpartyOnboardingControls.tsx:73-78, 130-143; routers.ts:143-161).
ConsoleRoutesGates ==
  \A role \in OperatorRole :
    LET offered == CounterpartyOnboardingControls(onb.stage, role)
    IN  /\ (onb.stage = "steady_state" /\ role \in ComplianceProcedure) <=> RecertificationForm(onb.stage, role)
        /\ \A q \in offered : role \in GateProcedureRoles(q.proc) \cap PermittedGateRoles(q.gate)
        /\ \A p \in GateProcedures, g \in OnboardingGate, d \in OnboardingDecision, who \in Operators :
             GateAccepted(p, g, d, who, role) => \E q \in offered : q.gate = g /\ q.decision = d

\* A cycle that was blocked stays blocked, and steady state is left only by a
\* recertification that was due and opens the next cycle at the legal gate
\* (counterpartyOnboarding.ts:229-240).
StagesOnlyAdvance ==
  /\ onb.stage = "blocked" => onb'.stage = "blocked"
  /\ (onb.stage = "steady_state" /\ onb'.stage # "steady_state")
       => (onb.due /\ onb'.stage = "legal_onboarding" /\ onb'.cycle = onb.cycle + 1)

\* Every step leaves steady state earned in the current cycle, and moves the stage
\* forward only (counterpartyOnboarding.ts).
OnboardingSafety ==
  [][/\ OnboardingTypeOK' /\ SteadyStateEarned'
     /\ StagesOnlyAdvance]_onboardingVars
=============================================================================
