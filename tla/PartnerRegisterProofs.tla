----------------------- MODULE PartnerRegisterProofs ------------------------
\* Proofs about the registers of counterparties, partners, customers and operators'
\* access.  Each section has the inductive invariant of one component, the steps that
\* keep it, and the theorem; the components share no state.
EXTENDS CounterpartyOnboarding, PartnerRegisters, CustomerUseCase, AccessLifecycles, FiniteSetTheorems, TLAPS

\* Counterparty onboarding.

\* The inductive invariant: the decisions of the current cycle carry permitted roles and
\* are approvals until one blocks it; a stage is reached after the gates before it; two
\* pilot decisions of a cycle come from two people in two roles.
OnboardingInv ==
  /\ OnboardingTypeOK
  /\ \A d \in gateLog : d.cycle <= onb.cycle
  /\ \A g \in OnboardingGate : \A d \in ThisCycle(g) :
       d.role \in PermittedGateRoles(g) /\ (onb.stage # "blocked" => d.decision = "approved")
  /\ onb.stage \in {"technical_readiness", "pilot", "steady_state"} => ThisCycle("legal") # {}
  /\ onb.stage \in {"pilot", "steady_state"} => ThisCycle("technical") # {}
  /\ onb.stage = "steady_state" => \E d, e \in ThisCycle("pilot") : d # e
  /\ \A d, e \in ThisCycle("pilot") : d # e => d.role # e.role /\ d.by # e.by

\* A set with two elements has two different ones.
LEMMA TwoElements ==
  ASSUME NEW S, Cardinality(S) = 2
  PROVE  \E x, y \in S : x # y
PROOF
<1>1. S # {}
  BY FS_EmptySet, SMTT(20)
<1>2. PICK x \in S : TRUE
  BY <1>1, Zenon
<1>3. S # {x}
  BY FS_Singleton, SMTT(20)
<1> QED BY <1>2, <1>3, Zenon

\* What the invariant says of steady state.
LEMMA SteadyStateFacts ==
  ASSUME OnboardingInv
  PROVE  SteadyStateEarned
PROOF
<1> SUFFICES ASSUME onb.stage = "steady_state"
             PROVE  /\ \E d \in ThisCycle("legal") : d.decision = "approved" /\ d.role = "compliance_officer"
                    /\ \E d \in ThisCycle("technical") : d.decision = "approved" /\ d.role = "admin"
                    /\ \E d, e \in ThisCycle("pilot") :
                         /\ d.decision = "approved" /\ e.decision = "approved"
                         /\ d.by # e.by /\ {d.role, e.role} = PermittedGateRoles("pilot")
                    /\ \A g \in OnboardingGate : \A d \in ThisCycle(g) : d.decision # "blocked"
  BY Zenon DEF SteadyStateEarned
<1>1. \A g \in OnboardingGate : \A d \in ThisCycle(g) : d.role \in PermittedGateRoles(g) /\ d.decision = "approved"
  BY Zenon DEF OnboardingInv
<1>2. ThisCycle("legal") # {} /\ ThisCycle("technical") # {}
  BY Zenon DEF OnboardingInv
<1>3. {"legal", "technical", "pilot"} = OnboardingGate
  BY Zenon DEF OnboardingGate
<1>4. /\ PermittedGateRoles("legal") = {"compliance_officer"} /\ PermittedGateRoles("technical") = {"admin"}
      /\ PermittedGateRoles("pilot") = {"compliance_officer", "treasury_operator"}
  BY Zenon DEF PermittedGateRoles
<1>5. PICK d, e \in ThisCycle("pilot") : d # e
  BY Zenon DEF OnboardingInv
<1>6. d.role # e.role /\ d.by # e.by
  BY <1>5, Zenon DEF OnboardingInv
<1>7. {d.role, e.role} = PermittedGateRoles("pilot")
  <2>1. d.role \in {"compliance_officer", "treasury_operator"} /\ e.role \in {"compliance_officer", "treasury_operator"}
    BY <1>1, <1>3, <1>4, <1>5, Zenon
  <2> QED BY <1>4, <1>6, <2>1, Zenon
<1>8. \E x \in ThisCycle("legal") : x.decision = "approved" /\ x.role = "compliance_officer"
  BY <1>1, <1>2, <1>3, <1>4, Zenon
<1>9. \E x \in ThisCycle("technical") : x.decision = "approved" /\ x.role = "admin"
  BY <1>1, <1>2, <1>3, <1>4, Zenon
<1>10. \A g \in OnboardingGate : \A x \in ThisCycle(g) : x.decision # "blocked"
  BY <1>1, Zenon
<1>11. d.decision = "approved" /\ e.decision = "approved"
  BY <1>1, <1>3, <1>5, Zenon
<1> QED BY <1>5, <1>6, <1>7, <1>8, <1>9, <1>10, <1>11, Zenon

\* Steps that leave the cycle, the stage and the decisions alone.
LEMMA OnboardingFrame ==
  ASSUME OnboardingInv, onb'.stage = onb.stage, onb'.cycle = onb.cycle, gateLog' = gateLog, OnboardingTypeOK'
  PROVE  OnboardingInv' /\ StagesOnlyAdvance
PROOF
<1>1. \A g : ThisCycle(g)' = ThisCycle(g)
  BY Zenon DEF ThisCycle
<1> QED BY <1>1, Zenon DEF OnboardingInv, StagesOnlyAdvance

\* The record is created, or its next cycle begins.
LEMMA CycleBegins ==
  ASSUME OnboardingInv, CreateCounterpartyOnboarding \/ BeginCounterpartyRecertification
  PROVE  OnboardingInv' /\ StagesOnlyAdvance
PROOF
<1>1. onb \in [stage : OnboardingStage, cycle : 1..MaxCycle, due : BOOLEAN] /\ MaxCycle \in Nat /\ gateLog' = gateLog
  BY OnboardingAssumption, Zenon DEF OnboardingInv, OnboardingTypeOK, CreateCounterpartyOnboarding, BeginCounterpartyRecertification
<1>2. /\ onb' \in [stage : OnboardingStage, cycle : 1..MaxCycle, due : BOOLEAN] /\ onb'.stage = "legal_onboarding"
      /\ \/ onb.stage = "none" /\ onb'.cycle = onb.cycle
         \/ onb.stage = "steady_state" /\ onb.due /\ onb'.cycle = onb.cycle + 1
  <2>1. CASE CreateCounterpartyOnboarding
    <3>1. onb.stage = "none" /\ onb' = [onb EXCEPT !.stage = "legal_onboarding"] /\ "legal_onboarding" \in OnboardingStage
      BY <2>1, Zenon DEF CreateCounterpartyOnboarding, OnboardingStage
    <3>2. onb'.stage = "legal_onboarding" /\ onb'.cycle = onb.cycle
      BY <1>1, <3>1, Zenon
    <3>3. onb' \in [stage : OnboardingStage, cycle : 1..MaxCycle, due : BOOLEAN]
      BY <1>1, <3>1, Zenon
    <3> QED BY <3>1, <3>2, <3>3, Zenon
  <2>2. CASE BeginCounterpartyRecertification
    <3>1. onb' = [stage |-> "legal_onboarding", cycle |-> onb.cycle + 1, due |-> FALSE]
      BY <1>1, <2>2, Zenon DEF BeginCounterpartyRecertification
    <3>2. onb.cycle + 1 \in 1..MaxCycle
      BY <1>1, <2>2, SMTT(20) DEF BeginCounterpartyRecertification
    <3>3. onb.stage = "steady_state" /\ onb.due /\ onb'.cycle = onb.cycle + 1
      BY <2>2, <3>1, Zenon DEF BeginCounterpartyRecertification
    <3> QED BY <3>1, <3>2, <3>3, Zenon DEF OnboardingStage
  <2> QED BY <2>1, <2>2, Zenon
<1>3. OnboardingTypeOK'
  BY <1>1, <1>2, Zenon DEF OnboardingInv, OnboardingTypeOK, CreateCounterpartyOnboarding, BeginCounterpartyRecertification
<1>4. onb'.cycle = onb.cycle \/ \A g : ThisCycle(g)' = {}
  <2> SUFFICES ASSUME onb'.cycle = onb.cycle + 1, NEW g, NEW d \in gateLog PROVE d.cycle # onb'.cycle
    BY <1>1, <1>2, Zenon DEF ThisCycle
  <2>1. d.cycle \in Nat /\ d.cycle <= onb.cycle /\ onb.cycle \in Nat
    BY <1>1, SMTT(20) DEF OnboardingInv, OnboardingTypeOK
  <2> QED BY <2>1, SMTT(20)
<1>5. CASE onb'.cycle = onb.cycle
  <2>1. \A g : ThisCycle(g)' = ThisCycle(g)
    BY <1>1, <1>5, Zenon DEF ThisCycle
  <2>2. onb.stage = "none" /\ onb'.stage = "legal_onboarding"
    BY <1>1, <1>2, <1>5, SMTT(20)
  <2> QED BY <1>1, <1>3, <1>5, <2>1, <2>2, Zenon DEF OnboardingInv, StagesOnlyAdvance
<1>6. CASE onb'.cycle # onb.cycle
  <2>1. \A d \in gateLog' : d.cycle <= onb'.cycle
    BY <1>1, <1>2, <1>6, SMTT(20) DEF OnboardingInv, OnboardingTypeOK
  <2>2. \A g : ThisCycle(g)' = {}
    BY <1>4, <1>6, Zenon
  <2>3. onb.stage = "steady_state" /\ onb.due /\ onb'.cycle = onb.cycle + 1 /\ onb'.stage = "legal_onboarding"
    BY <1>2, <1>6, Zenon
  <2> QED BY <1>3, <2>1, <2>2, <2>3, Zenon DEF OnboardingInv, StagesOnlyAdvance
<1> QED BY <1>5, <1>6, Zenon

\* A gate is decided.
LEMMA GateKeepsInv ==
  ASSUME OnboardingInv, NEW p, NEW g \in OnboardingGate, NEW d \in OnboardingDecision, NEW who \in Operators,
         NEW role \in OperatorRole, DecideCounterpartyOnboardingGate(p, g, d, who, role)
  PROVE  OnboardingInv' /\ StagesOnlyAdvance
PROOF
<1> DEFINE e == [cycle |-> onb.cycle, gate |-> g, decision |-> d, by |-> who, role |-> role]
           next == NextStage(g, d, ThisCycle(g) \cup {e})
<1>1. /\ gateLog' = gateLog \cup {e} /\ onb' = [onb EXCEPT !.stage = next] /\ UNCHANGED <<licence, rail>>
      /\ role \in PermittedGateRoles(g) /\ onb.stage = StageForGate(g)
      /\ \A f \in ThisCycle(g) : f.role # role /\ (g = "pilot" => f.by # who)
  BY Zenon DEF DecideCounterpartyOnboardingGate, GateAccepted, Independent
<1>2. e.cycle = onb.cycle /\ e.gate = g /\ e.decision = d /\ e.by = who /\ e.role = role
  OBVIOUS
<1>3. onb \in [stage : OnboardingStage, cycle : 1..MaxCycle, due : BOOLEAN]
  BY Zenon DEF OnboardingInv, OnboardingTypeOK
<1>4. /\ d = "blocked" => next = "blocked"
      /\ d = "approved" /\ g = "legal" => next = "technical_readiness"
      /\ d = "approved" /\ g = "technical" => next = "pilot"
      /\ d = "approved" /\ g = "pilot" =>
           next = "pilot" \/ (next = "steady_state" /\ \E x, y \in ThisCycle(g) \cup {e} : x # y)
  <2>1. ASSUME Cardinality({x \in ThisCycle(g) \cup {e} : x.decision = "approved"}) = 2
        PROVE  \E x, y \in ThisCycle(g) \cup {e} : x # y
    BY <2>1, TwoElements, SMTT(20)
  <2>2. g = "pilot" => onb.stage = "pilot"
    BY <1>1, Zenon DEF StageForGate
  <2>3. d = "blocked" => next = "blocked"
    BY Zenon DEF NextStage
  <2>4. d = "approved" /\ g = "legal" => next = "technical_readiness"
    BY Zenon DEF NextStage
  <2>5. d = "approved" /\ g = "technical" => next = "pilot"
    BY Zenon DEF NextStage
  <2>6. d = "approved" /\ g = "pilot" =>
          next = IF Cardinality({x \in ThisCycle(g) \cup {e} : x.decision = "approved"}) = 2
                 THEN "steady_state" ELSE onb.stage
    BY Zenon DEF NextStage
  <2> HIDE DEF e, next
  <2> QED BY <2>1, <2>2, <2>3, <2>4, <2>5, <2>6, Zenon
<1>5. d \in {"approved", "blocked"} /\ g \in {"legal", "technical", "pilot"}
  BY Zenon DEF OnboardingDecision, OnboardingGate
<1> HIDE DEF e, next
<1>6. next \in OnboardingStage
  BY <1>4, <1>5, Zenon DEF OnboardingStage
<1>7. /\ onb' \in [stage : OnboardingStage, cycle : 1..MaxCycle, due : BOOLEAN]
      /\ onb'.stage = next /\ onb'.cycle = onb.cycle
  BY <1>1, <1>3, <1>6, Zenon
<1>8. e \in [cycle : 1..MaxCycle, gate : OnboardingGate, decision : OnboardingDecision, by : Operators, role : OperatorRole]
  BY <1>3, Zenon DEF e
<1>9. OnboardingTypeOK'
  BY <1>1, <1>7, <1>8, Zenon DEF OnboardingInv, OnboardingTypeOK
<1>10. ThisCycle(g)' = ThisCycle(g) \cup {e} /\ \A h : h # g => ThisCycle(h)' = ThisCycle(h)
  BY <1>1, <1>2, <1>7, Zenon DEF ThisCycle
<1>11. \A f \in gateLog' : f.cycle <= onb'.cycle
  <2>1. onb.cycle <= onb.cycle
    BY <1>3, SMTT(20)
  <2> QED BY <1>1, <1>2, <1>7, <2>1, Zenon DEF OnboardingInv
<1>12. /\ onb.stage \notin {"blocked", "steady_state"}
       /\ (g = "legal" => onb.stage = "legal_onboarding") /\ (g = "technical" => onb.stage = "technical_readiness")
       /\ (g = "pilot" => onb.stage = "pilot")
  BY <1>1, <1>5, Zenon DEF StageForGate
<1>13. ASSUME NEW h \in OnboardingGate, NEW f \in ThisCycle(h)'
       PROVE  f.role \in PermittedGateRoles(h) /\ (next # "blocked" => f.decision = "approved")
  <2>1. CASE h = g /\ f = e
    BY <1>1, <1>2, <1>4, <1>5, <2>1, Zenon
  <2>2. CASE f \in ThisCycle(h)
    BY <1>12, <2>2, Zenon DEF OnboardingInv
  <2> QED BY <1>10, <1>13, <2>1, <2>2, Zenon
<1>14. \A h : ThisCycle(h) \subseteq ThisCycle(h)' /\ ThisCycle(g)' # {}
  BY <1>10, Zenon
<1>15. /\ next \in {"technical_readiness", "pilot", "steady_state"} => ThisCycle("legal")' # {}
       /\ next \in {"pilot", "steady_state"} => ThisCycle("technical")' # {}
  BY <1>4, <1>5, <1>12, <1>14, SMT DEF OnboardingInv
<1>16. next = "steady_state" => \E x, y \in ThisCycle("pilot")' : x # y
  BY <1>4, <1>5, <1>10, Zenon
<1>17. ASSUME NEW x \in ThisCycle("pilot")', NEW y \in ThisCycle("pilot")', x # y
       PROVE  x.role # y.role /\ x.by # y.by
  <2>1. CASE x \in ThisCycle("pilot") /\ y \in ThisCycle("pilot")
    BY <1>17, <2>1, Zenon DEF OnboardingInv
  <2>2. CASE g = "pilot" /\ x = e /\ y \in ThisCycle("pilot")
    BY <1>1, <1>2, <2>2, Zenon
  <2>3. CASE g = "pilot" /\ y = e /\ x \in ThisCycle("pilot")
    BY <1>1, <1>2, <2>3, Zenon
  <2>4. \A z \in ThisCycle("pilot")' : z \in ThisCycle("pilot") \/ (g = "pilot" /\ z = e)
    BY <1>10, Zenon
  <2> QED BY <1>17, <2>1, <2>2, <2>3, <2>4, Zenon
<1>18. StagesOnlyAdvance
  BY <1>12, Zenon DEF StagesOnlyAdvance
<1> QED BY <1>7, <1>9, <1>11, <1>13, <1>15, <1>16, <1>17, <1>18, Zenon DEF OnboardingInv

\* For any operators and any number of cycles: steady state was earned in the current
\* cycle, at every gate, by the roles the gate needs and by two people at the pilot; a
\* blocked cycle stays blocked and steady state is left only for the next cycle.
THEOREM OnboardingSafe == OnboardingSpec => OnboardingSafety
PROOF
<1>1. OnboardingInit => OnboardingInv
  <2> SUFFICES ASSUME OnboardingInit PROVE OnboardingInv
    OBVIOUS
  <2>1. onb = [stage |-> "none", cycle |-> 1, due |-> FALSE] /\ 1 \in 1..MaxCycle /\ gateLog = {}
    BY OnboardingAssumption, SMTT(20) DEF OnboardingInit
  <2>2. OnboardingTypeOK /\ onb.stage = "none"
    BY <2>1, SMTT(20) DEF OnboardingTypeOK, OnboardingInit, OnboardingStage
  <2>3. \A g : ThisCycle(g) = {}
    BY <2>1, Zenon DEF ThisCycle
  <2> QED BY <2>1, <2>2, <2>3, Zenon DEF OnboardingInv
<1>2. ASSUME OnboardingInv, [OnboardingNext]_onboardingVars PROVE OnboardingInv' /\ StagesOnlyAdvance
  <2> USE <1>2
  <2>1. OnboardingTypeOK
    BY Zenon DEF OnboardingInv
  <2>2. CASE RecertificationFallsDue
    <3>1. /\ onb' = [onb EXCEPT !.due = TRUE] /\ UNCHANGED <<licence, rail, gateLog>>
          /\ onb \in [stage : OnboardingStage, cycle : 1..MaxCycle, due : BOOLEAN]
      BY <2>1, <2>2, Zenon DEF RecertificationFallsDue, OnboardingTypeOK
    <3>2. onb'.stage = onb.stage /\ onb'.cycle = onb.cycle
      BY <3>1, Zenon
    <3>3. OnboardingTypeOK'
      BY <2>1, <3>1, Zenon DEF OnboardingTypeOK
    <3> QED BY <3>1, <3>2, <3>3, OnboardingFrame, Zenon
  <2>3. CASE LicenceChanges \/ RailChanges
    <3>1. onb' = onb /\ gateLog' = gateLog /\ licence' \in BOOLEAN /\ rail' \in BOOLEAN
      BY <2>1, <2>3, Zenon DEF LicenceChanges, RailChanges, OnboardingTypeOK
    <3> QED BY <2>1, <3>1, OnboardingFrame, Zenon DEF OnboardingTypeOK
  <2>4. CASE UNCHANGED onboardingVars
    BY <2>1, <2>4, OnboardingFrame, Zenon DEF onboardingVars, OnboardingTypeOK
  <2> QED BY <2>2, <2>3, <2>4, CycleBegins, GateKeepsInv, Zenon DEF OnboardingNext
<1>3. OnboardingInv /\ [OnboardingNext]_onboardingVars => OnboardingInv'
  BY <1>2, Zenon
<1>4. OnboardingInv /\ OnboardingInv' /\ [OnboardingNext]_onboardingVars
        => [OnboardingTypeOK' /\ SteadyStateEarned' /\ StagesOnlyAdvance]_onboardingVars
  <2> SUFFICES ASSUME OnboardingInv, OnboardingInv', [OnboardingNext]_onboardingVars
               PROVE  OnboardingTypeOK' /\ SteadyStateEarned' /\ StagesOnlyAdvance
    OBVIOUS
  <2>1. SteadyStateEarned'
    BY SteadyStateFacts, PTL
  <2> QED BY <1>2, <2>1, Zenon DEF OnboardingInv
<1> QED BY <1>1, <1>3, <1>4, PTL DEF OnboardingSpec, OnboardingSafety

-----------------------------------------------------------------------------
\* The partner registers.

\* The rows of a register's table of gate decisions.
GateRows == [gate : UNION {GatesOf(reg) : reg \in Registers}, decision : {"approved", "blocked"}, cycle : Nat]

\* The inductive invariant: while a gate transaction holds the row lock, the cycle it
\* read is the counterparty's, and the table has room for its row.
RegisterInv ==
  /\ RegisterTypeOK
  /\ filed \in Seq(GateRows)
  /\ gateTx # NotSet => /\ gateTx \in GateRows /\ gateTx.cycle = cycle /\ cycle # 0
                        /\ Len(filed) < MaxDecisions

\* Steps that leave the cycle, the transaction and the table alone.
LEMMA RegisterFrame ==
  ASSUME RegisterInv, UNCHANGED <<register, cycle, gateTx, filed>>,
         archetype' \in Archetypes \cup {NotSet}, items' \in [PackTypes -> 0..MaxCopies],
         desk' \in [started : BOOLEAN] \cup {NotSet}
  PROVE  RegisterInv' /\ DecisionInCurrentCycle
PROOF
<1>1. Len(filed) \in Nat /\ ~ (Len(filed) > Len(filed))
  BY DEF RegisterInv
<1> QED BY <1>1, Zenon DEF RegisterInv, RegisterTypeOK, DecisionInCurrentCycle

\* A gate handler locks the row and reads the cycle.
LEMMA LockKeepsInv ==
  ASSUME RegisterInv, NEW g, NEW reg, NEW role, NEW d \in {"approved", "blocked"}, LockForGate(reg, g, role, d)
  PROVE  RegisterInv' /\ DecisionInCurrentCycle
PROOF
<1>1. /\ gateTx' = [gate |-> g, decision |-> d, cycle |-> cycle] /\ cycle # 0 /\ Len(filed) < MaxDecisions
      /\ UNCHANGED <<register, archetype, items, cycle, filed, desk>> /\ register = reg /\ g \in GatesOf(reg)
  BY DEF LockForGate
<1>2. cycle \in Nat /\ reg \in Registers /\ Len(filed) \in Nat /\ ~ (Len(filed) > Len(filed))
  BY <1>1 DEF RegisterInv, RegisterTypeOK
<1>3. g \in UNION {GatesOf(r) : r \in Registers}
  BY <1>1, <1>2
<1>4. gateTx' \in GateRows /\ gateTx'.cycle = cycle
  BY <1>1, <1>2, <1>3 DEF GateRows
<1> QED BY <1>1, <1>2, <1>4, Zenon DEF RegisterInv, RegisterTypeOK, DecisionInCurrentCycle

\* The insert and the commit.
LEMMA CommitKeepsInv ==
  ASSUME RegisterInv, GateCommits
  PROVE  RegisterInv' /\ DecisionInCurrentCycle
PROOF
<1>1. /\ filed \in Seq(GateRows) /\ gateTx \in GateRows /\ gateTx.cycle = cycle /\ Len(filed) < MaxDecisions
      /\ filed' = Append(filed, gateTx) /\ gateTx' = NotSet
      /\ UNCHANGED <<register, archetype, items, cycle, desk>> /\ MaxDecisions \in Nat
  BY RegisterAssumption DEF RegisterInv, GateCommits
<1>2. filed' \in Seq(GateRows) /\ Len(filed') = Len(filed) + 1 /\ filed'[Len(filed')] = gateTx
  BY <1>1
<1>3. Len(filed') <= MaxDecisions
  BY <1>1, <1>2
<1> QED BY <1>1, <1>2, <1>3, Zenon DEF RegisterInv, RegisterTypeOK, DecisionInCurrentCycle

\* The onboarding row is created, or recertified when nobody holds its lock.
LEMMA CycleKeepsInv ==
  ASSUME RegisterInv, OnboardingStarts \/ OnboardingRecertifies
  PROVE  RegisterInv' /\ DecisionInCurrentCycle
PROOF
<1>1. gateTx = NotSet /\ UNCHANGED <<register, archetype, items, gateTx, filed, desk>>
  BY DEF RegisterInv, OnboardingStarts, OnboardingRecertifies
<1>2. MaxPartnerCycle \in Nat \ {0} /\ cycle \in 0..MaxPartnerCycle
  BY RegisterAssumption DEF RegisterInv, RegisterTypeOK
<1>3. cycle' \in 0..MaxPartnerCycle
  BY <1>2 DEF OnboardingStarts, OnboardingRecertifies
<1>4. Len(filed) \in Nat /\ ~ (Len(filed) > Len(filed))
  BY DEF RegisterInv
<1> QED BY <1>1, <1>3, <1>4, Zenon DEF RegisterInv, RegisterTypeOK, DecisionInCurrentCycle

\* For any register, pack and number of decisions: a gate decision is filed under the
\* cycle the counterparty is in when the decision commits.
THEOREM RegistersSafe == RegisterSpec => RegisterSafety
PROOF
<1>1. RegisterInit => RegisterInv
  <2> SUFFICES ASSUME RegisterInit PROVE RegisterInv
    OBVIOUS
  <2>1. MaxCopies \in Nat /\ MaxDecisions \in Nat /\ MaxPartnerCycle \in Nat
    BY RegisterAssumption
  <2>2. <<>> \in Seq(GateRows) /\ Len(<<>>) <= MaxDecisions /\ 0 \in 0..MaxCopies /\ 0 \in 0..MaxPartnerCycle
    BY <2>1
  <2> QED BY <2>2, Zenon DEF RegisterInit, RegisterInv, RegisterTypeOK
<1>2. ASSUME RegisterInv, [RegisterNext]_registerVars PROVE RegisterInv' /\ DecisionInCurrentCycle
  <2> USE <1>2
  <2>1. /\ archetype \in Archetypes \cup {NotSet} /\ items \in [PackTypes -> 0..MaxCopies]
        /\ desk \in [started : BOOLEAN] \cup {NotSet} /\ MaxCopies \in Nat
    BY RegisterAssumption DEF RegisterInv, RegisterTypeOK
  <2>2. ASSUME NEW reg, NEW role, NEW a \in Archetypes, SetArchetype(reg, role, a)
        PROVE  RegisterInv' /\ DecisionInCurrentCycle
    BY <2>1, <2>2, RegisterFrame DEF SetArchetype
  <2>3. ASSUME NEW reg, NEW role, NEW e \in PackTypes, RecordItem(reg, role, e)
        PROVE  RegisterInv' /\ DecisionInCurrentCycle
    <3>1. items[e] + 1 \in 0..MaxCopies
      BY <2>1, <2>3 DEF RecordItem
    <3>2. items' = [items EXCEPT ![e] = items[e] + 1]
      BY <2>3 DEF RecordItem
    <3>3. items' \in [PackTypes -> 0..MaxCopies]
      BY <2>1, <3>1, <3>2
    <3> QED BY <2>1, <2>3, <3>3, RegisterFrame DEF RecordItem
  <2>4. ASSUME NEW reg, OpenDesk(reg) PROVE RegisterInv' /\ DecisionInCurrentCycle
    <3>1. desk' \in [started : BOOLEAN] \cup {NotSet}
      BY <2>4 DEF OpenDesk
    <3> QED BY <2>1, <2>4, <3>1, RegisterFrame DEF OpenDesk
  <2>5. CASE UNCHANGED registerVars
    BY <2>1, <2>5, RegisterFrame DEF registerVars
  <2>6. ASSUME NEW role \in OperatorRole, NEW a \in Archetypes,
               \/ UpdateCounterpartyLpArchetype(role, a) \/ UpdateCounterpartyBankArchetype(role, a)
               \/ UpdateCounterpartyPspArchetype(role, a) \/ UpdateCounterpartyStablecoinIssuerArchetype(role, a)
               \/ UpdateCounterpartyComplianceVendorArchetype(role, a)
        PROVE  RegisterInv' /\ DecisionInCurrentCycle
    BY <2>2, <2>6 DEF UpdateCounterpartyLpArchetype, UpdateCounterpartyBankArchetype, UpdateCounterpartyPspArchetype,
         UpdateCounterpartyStablecoinIssuerArchetype, UpdateCounterpartyComplianceVendorArchetype
  <2>7. ASSUME NEW role \in OperatorRole, NEW e \in PackTypes,
               \/ RecordCounterpartyEvidenceItem(role, e) \/ RecordBankEvidenceItem(role, e)
               \/ RecordPspEvidenceItem(role, e) \/ RecordStablecoinIssuerEvidenceItem(role, e)
               \/ RecordComplianceVendorEvidenceItem(role, e)
        PROVE  RegisterInv' /\ DecisionInCurrentCycle
    BY <2>3, <2>7 DEF RecordCounterpartyEvidenceItem, RecordBankEvidenceItem, RecordPspEvidenceItem,
         RecordStablecoinIssuerEvidenceItem, RecordComplianceVendorEvidenceItem
  <2>8. ASSUME NEW role \in OperatorRole, NEW g \in GatesOf(register), NEW d \in {"approved", "blocked"},
               \/ DecideFinancialSoundnessGate(g, role, d) \/ DecideCryptoPostureGate(g, role, d)
               \/ DecidePspGate(g, role, d) \/ DecideStablecoinIssuerGate(g, role, d)
               \/ DecideComplianceVendorGate(g, role, d)
        PROVE  RegisterInv' /\ DecisionInCurrentCycle
    BY <2>8, LockKeepsInv DEF DecideFinancialSoundnessGate, DecideCryptoPostureGate, DecidePspGate,
         DecideStablecoinIssuerGate, DecideComplianceVendorGate
  <2>9. CASE \/ GetLiquidityProviderWorkspace \/ GetBankingPartnerWorkspace \/ GetPayoutPspWorkspace
             \/ GetStablecoinIssuerWorkspace \/ GetComplianceVendorWorkspace
    BY <2>4, <2>9 DEF GetLiquidityProviderWorkspace, GetBankingPartnerWorkspace, GetPayoutPspWorkspace,
         GetStablecoinIssuerWorkspace, GetComplianceVendorWorkspace
  <2> QED BY <2>5, <2>6, <2>7, <2>8, <2>9, CommitKeepsInv, CycleKeepsInv DEF RegisterNext
<1>3. RegisterInv /\ [RegisterNext]_registerVars => RegisterInv'
  BY <1>2
<1>4. RegisterInv /\ RegisterInv' /\ [RegisterNext]_registerVars
        => [RegisterTypeOK' /\ DecisionInCurrentCycle]_registerVars
  <2> SUFFICES ASSUME RegisterInv, RegisterInv', [RegisterNext]_registerVars
               PROVE  RegisterTypeOK' /\ DecisionInCurrentCycle
    OBVIOUS
  <2> QED BY <1>2 DEF RegisterInv
<1> QED BY <1>1, <1>3, <1>4, PTL DEF RegisterSpec, RegisterSafety

-----------------------------------------------------------------------------
-----------------------------------------------------------------------------
(* The customer's gate and workspace. *)

MaybeNarrative == Narratives \cup {NoNarrative}
Declared == [count : 0..MaxDestinations, invoiced : BOOLEAN]
View == [read : {"nothing", "customer", "all"}, narrative : MaybeNarrative, destinations : Declared,
         documents : SUBSET PackDocuments, gate : {"none", "approved", "blocked"}]

\* Every item a view shows, complete or half composed, is on record.
Covered(v) ==
  /\ v.narrative # NoNarrative => narrative # NoNarrative
  /\ v.destinations.count > 0 => destinations.count > 0
  /\ v.destinations.invoiced => destinations.invoiced
  /\ v.documents \subseteq packDocuments

CustomerInv ==
  /\ CustomerTypeOK
  /\ workspace \in [Editors -> View]
  /\ ApprovalKeepsBasis
  /\ \A e \in Editors : Covered(workspace[e])

\* What is on record stays on record: no handler clears the narrative, a
\* destination, an invoice or a document, so that an old view stays covered.
LEMMA RecordsStay ==
  ASSUME NEW v \in View, Covered(v),
         narrative # NoNarrative => narrative' # NoNarrative,
         destinations \in Declared, destinations' \in Declared,
         destinations'.count >= destinations.count,
         destinations.invoiced => destinations'.invoiced,
         packDocuments \subseteq packDocuments'
  PROVE  Covered(v)'
  BY CustomerAssumption, SMTT(20) DEF Covered, View, Declared

\* A handler of the server keeps the consoles as they are.
LEMMA ServerKeepsInv ==
  ASSUME CustomerInv, UNCHANGED <<workspace, typed>>, customer' \in BOOLEAN,
         narrative' \in MaybeNarrative, narrative # NoNarrative => narrative' # NoNarrative,
         destinations' \in Declared, destinations'.count >= destinations.count,
         destinations.invoiced => destinations'.invoiced,
         packDocuments' \subseteq PackDocuments, packDocuments \subseteq packDocuments',
         gateOne' \in {"none", "approved", "blocked"}, ApprovalKeepsBasis'
  PROVE  CustomerInv'
  <1>1. \A e \in Editors : Covered(workspace[e])'
    BY RecordsStay, Zenon DEF CustomerInv, CustomerTypeOK, Declared
  <1> QED
    BY <1>1, Zenon DEF CustomerInv, CustomerTypeOK, MaybeNarrative, Declared

\* A read or an edit of one console keeps the records and the other consoles.
LEMMA ConsoleKeepsInv ==
  ASSUME CustomerInv, UNCHANGED customerRow, NEW e \in Editors, NEW v \in View, Covered(v),
         workspace' = [workspace EXCEPT ![e] = v], typed' \in [Editors -> MaybeNarrative]
  PROVE  CustomerInv'
  <1>1. \A x \in Editors : Covered(workspace'[x])
    BY Zenon DEF CustomerInv
  <1>2. \A x \in Editors : Covered(workspace[x])'
    BY <1>1, Zenon DEF Covered, customerRow
  <1>3. workspace' \in [Editors -> View]
    BY Zenon DEF CustomerInv
  <1>4. \A x \in Editors : workspace'[x].read \in {"nothing", "customer", "all"}
    BY <1>3, Zenon DEF View
  <1>5. CustomerTypeOK'
    BY <1>4, Zenon DEF CustomerInv, CustomerTypeOK, customerRow, MaybeNarrative
  <1>6. ApprovalKeepsBasis'
    BY Zenon DEF CustomerInv, ApprovalKeepsBasis, customerRow
  <1> QED
    BY <1>2, <1>3, <1>5, <1>6, Zenon DEF CustomerInv

\* However profile forms go stale and queries interleave, a standing G1 approval
\* keeps the narrative and the destination it was given on, and no console counts
\* an evidence item that is not on record (customerUseCase.ts).
THEOREM CustomerSafe == CustomerSpec => []CustomerSafety
  <1>1. CustomerInit => CustomerInv
    <2> SUFFICES ASSUME CustomerInit PROVE CustomerInv
      OBVIOUS
    <2>1. destinations \in Declared
      BY CustomerAssumption, SMTT(20) DEF CustomerInit, Declared
    <2>2. CustomerTypeOK /\ ApprovalKeepsBasis
      BY <2>1, Zenon DEF CustomerInit, CustomerTypeOK, ApprovalKeepsBasis, Declared, EmptyWorkspace
    <2>3. EmptyWorkspace \in View
      BY CustomerAssumption, SMTT(20) DEF EmptyWorkspace, View, Declared, MaybeNarrative
    <2>4. Covered(EmptyWorkspace)
      BY SMTT(20) DEF EmptyWorkspace, Covered
    <2> QED
      BY <2>2, <2>3, <2>4, Zenon DEF CustomerInit, CustomerInv
  <1>2. CustomerInv /\ [CustomerNext]_customerVars => CustomerInv'
    <2> SUFFICES ASSUME CustomerInv, [CustomerNext]_customerVars PROVE CustomerInv'
      OBVIOUS
    <2>0. /\ CustomerTypeOK /\ ApprovalKeepsBasis
          /\ workspace \in [Editors -> View] /\ destinations \in Declared
      BY Zenon DEF CustomerInv, CustomerTypeOK, Declared
    <2>1. CASE CreatePostgresCustomer
      BY <2>0, <2>1, ServerKeepsInv, SMTT(20)
         DEF CreatePostgresCustomer, CustomerTypeOK, ApprovalKeepsBasis, MaybeNarrative, Declared
    <2>2. ASSUME NEW e \in Editors, UpdatePostgresCustomerProfile(e) PROVE CustomerInv'
      BY <2>0, <2>2, ServerKeepsInv, SMTT(20)
         DEF UpdatePostgresCustomerProfile, CustomerTypeOK, ApprovalKeepsBasis, MaybeNarrative, Declared
    <2>3. ASSUME NEW invoiced \in BOOLEAN, RecordCustomerDestinationCounterparty(invoiced) PROVE CustomerInv'
      BY <2>0, <2>3, ServerKeepsInv, CustomerAssumption, SMTT(20)
         DEF RecordCustomerDestinationCounterparty, CustomerTypeOK, ApprovalKeepsBasis, MaybeNarrative, Declared
    <2>4. ASSUME NEW type \in PackDocuments, PackDocumentRecorded(type) PROVE CustomerInv'
      BY <2>0, <2>4, ServerKeepsInv, SMTT(20)
         DEF PackDocumentRecorded, CustomerTypeOK, ApprovalKeepsBasis, MaybeNarrative, Declared
    <2>5. ASSUME NEW verdict \in {"approved", "blocked"}, DecideCustomerUseCaseGate(verdict) PROVE CustomerInv'
      BY <2>0, <2>5, ServerKeepsInv, SMTT(20)
         DEF DecideCustomerUseCaseGate, CustomerTypeOK, ApprovalKeepsBasis, MaybeNarrative, Declared
    <2>6. ASSUME NEW e \in Editors, ReadCustomerRow(e) PROVE CustomerInv'
      <3> DEFINE v == [workspace[e] EXCEPT !.read = "customer", !.narrative = narrative]
      <3>1. workspace[e] \in View /\ Covered(workspace[e]) /\ narrative \in MaybeNarrative
        BY <2>0, Zenon DEF CustomerInv, CustomerTypeOK, MaybeNarrative
      <3>4. v \in View
        BY <3>1, Zenon DEF View
      <3>5. Covered(v)
        BY <3>1, Zenon DEF View, Covered
      <3>2. workspace' = [workspace EXCEPT ![e] = v] /\ UNCHANGED customerRow
        BY <2>6, Zenon DEF ReadCustomerRow
      <3>3. typed' \in [Editors -> MaybeNarrative]
        BY <2>0, <2>6, Zenon DEF ReadCustomerRow, CustomerTypeOK, MaybeNarrative
      <3> HIDE DEF v
      <3> QED
        BY <3>2, <3>3, <3>4, <3>5, ConsoleKeepsInv, Zenon
    <2>7. ASSUME NEW e \in Editors, GetCustomerWorkspace(e) PROVE CustomerInv'
      <3> DEFINE v == [read |-> "all", narrative |-> workspace[e].narrative, destinations |-> destinations,
                       documents |-> packDocuments, gate |-> gateOne]
      <3>1. v \in View /\ Covered(v)
        BY <2>0, Zenon DEF View, CustomerInv, CustomerTypeOK, Covered
      <3>2. workspace' = [workspace EXCEPT ![e] = v] /\ UNCHANGED customerRow
        BY <2>7, Zenon DEF GetCustomerWorkspace
      <3>3. typed' \in [Editors -> MaybeNarrative]
        BY <2>0, <2>7, Zenon DEF GetCustomerWorkspace, CustomerTypeOK, MaybeNarrative, View
      <3> HIDE DEF v
      <3> QED
        BY <3>1, <3>2, <3>3, ConsoleKeepsInv, Zenon
    <2>8. ASSUME NEW e \in Editors, NEW text \in MaybeNarrative, EditNarrative(e, text) PROVE CustomerInv'
      <3>1. workspace' = [workspace EXCEPT ![e] = workspace[e]] /\ UNCHANGED customerRow
        BY <2>0, <2>8, Zenon DEF EditNarrative
      <3>2. typed' \in [Editors -> MaybeNarrative]
        BY <2>0, <2>8, Zenon DEF EditNarrative, CustomerTypeOK, MaybeNarrative
      <3>3. workspace[e] \in View /\ Covered(workspace[e])
        BY <2>0, Zenon DEF CustomerInv
      <3> QED
        BY <3>1, <3>2, <3>3, ConsoleKeepsInv, Zenon
    <2>9. CASE UNCHANGED customerVars
      BY <2>0, <2>9, ServerKeepsInv, SMTT(20)
         DEF customerVars, CustomerTypeOK, ApprovalKeepsBasis, MaybeNarrative, Declared
    <2> QED
      BY <2>1, <2>2, <2>3, <2>4, <2>5, <2>6, <2>7, <2>8, <2>9, Zenon DEF CustomerNext, MaybeNarrative
  <1>3. CustomerInv => CustomerSafety
    BY Zenon DEF CustomerInv, CustomerSafety, OverviewNeverOverstates, Covered, OverviewTab
  <1> QED
    BY <1>1, <1>2, <1>3, PTL DEF CustomerSpec

-----------------------------------------------------------------------------
\* The lifecycles beside role grants.

\* The phases after the n-th.
LaterPhases(n) == {Phases[m] : m \in (n + 1)..4}

\* The inductive invariant: evidence of a phase is stored only while the record is in a
\* later phase.
LifecycleInv ==
  /\ LifecycleTypeOK
  /\ \A n \in 1..3 : evidence[n] # NotRecorded => phase \in LaterPhases(n)

\* The four phases of a journey are different, and none is "absent".
LEMMA PhasesDiffer ==
  /\ \A m, n \in 1..4 : Phases[m] = Phases[n] => m = n
  /\ \A n \in 1..4 : Phases[n] # "absent" /\ Phases[n] \in PhaseSet
PROOF
<1>1. \A n \in 1..4 : n \in {1, 2, 3, 4}
  OBVIOUS
<1>2. /\ OperatorPhases[1] = "role_access_request" /\ OperatorPhases[2] = "lms_enrolment"
      /\ OperatorPhases[3] = "shadow_period" /\ OperatorPhases[4] = "steady_state"
      /\ EngagementPhases[1] = "engagement_letter" /\ EngagementPhases[2] = "access_provisioning"
      /\ EngagementPhases[3] = "audit_fieldwork" /\ EngagementPhases[4] = "annual_review"
  BY Zenon DEF OperatorPhases, EngagementPhases
<1>3. \A n \in 1..4 : Phases[n] \in PhaseSet
  BY Zenon DEF PhaseSet
<1>4. CASE journey = "operator"
  <2>1. \A n \in 1..4 : Phases[n] = OperatorPhases[n]
    BY <1>4, Zenon DEF Phases
  <2> QED BY <1>1, <1>2, <1>3, <2>1, SMTT(20)
<1>5. CASE journey # "operator"
  <2>1. \A n \in 1..4 : Phases[n] = EngagementPhases[n]
    BY <1>5, Zenon DEF Phases
  <2> QED BY <1>1, <1>2, <1>3, <2>1, SMTT(20)
<1> QED BY <1>4, <1>5, Zenon

\* Steps that leave the phase and its evidence alone.
LEMMA LifecycleFrame ==
  ASSUME LifecycleInv, UNCHANGED <<records, journey, phase, evidence>>, lapsed' \in BOOLEAN,
         shown' \in [Staff -> PhaseSet \cup {"absent"}]
  PROVE  LifecycleInv' /\ PhaseEvidenceOnce
PROOF
<1>1. Phases' = Phases /\ PhaseSet' = PhaseSet
  BY Zenon DEF Phases, PhaseSet
<1>2. \A n \in 1..3 : LaterPhases(n)' = LaterPhases(n)
  BY <1>1, Zenon DEF LaterPhases
<1> QED BY <1>1, <1>2, Zenon DEF LifecycleInv, LifecycleTypeOK, PhaseEvidenceOnce

\* The common body: the record leaves its phase with the evidence of that phase.
LEMMA AdvanceKeepsInv ==
  ASSUME LifecycleInv, NEW p \in Staff, NEW n \in 1..3, Advance(p, n),
         UNCHANGED <<records, journey, lapsed, shown>>
  PROVE  LifecycleInv' /\ PhaseEvidenceOnce
PROOF
<1>1. /\ phase = Phases[n] /\ phase' = Phases[n + 1] /\ evidence' = [evidence EXCEPT ![n] = p]
      /\ LifecycleTypeOK /\ evidence \in [1..3 -> Staff \cup {NotRecorded}]
  BY Zenon DEF Advance, LifecycleInv, LifecycleTypeOK
<1>2. Phases' = Phases /\ PhaseSet' = PhaseSet
  BY Zenon DEF Phases, PhaseSet
<1>3. n \in 1..4 /\ n + 1 \in 1..4
  OBVIOUS
<1>4. /\ evidence' \in [1..3 -> Staff \cup {NotRecorded}] /\ evidence'[n] = p
      /\ \A m \in 1..3 \ {n} : evidence'[m] = evidence[m]
  BY <1>1, Zenon
<1>5. LifecycleTypeOK'
  BY <1>1, <1>2, <1>3, <1>4, PhasesDiffer, Zenon DEF LifecycleTypeOK
<1>6. ASSUME NEW m \in 1..3, evidence[m] # NotRecorded PROVE m < n
  <2>1. PICK k \in (m + 1)..4 : Phases[n] = Phases[k]
    BY <1>1, <1>6, Zenon DEF LifecycleInv, LaterPhases
  <2> QED BY <1>3, <2>1, PhasesDiffer, SMTT(20)
<1>7. ASSUME NEW m \in 1..3, evidence'[m] # NotRecorded PROVE phase' \in LaterPhases(m)'
  <2>1. n + 1 \in (m + 1)..4
    BY <1>4, <1>6, <1>7, SMTT(20)
  <2> QED BY <1>1, <1>2, <2>1, Zenon DEF LaterPhases
<1>8. PhaseEvidenceOnce
  <2> SUFFICES ASSUME NEW m \in 1..3
               PROVE  /\ evidence[m] # NotRecorded => evidence'[m] = evidence[m]
                      /\ phase = Phases[m] => phase' = Phases[m + 1] /\ evidence'[m] # NotRecorded
    BY Zenon DEF PhaseEvidenceOnce
  <2>1. evidence[m] # NotRecorded => m # n
    BY <1>6, SMTT(20)
  <2>2. phase = Phases[m] => m = n
    <3>1. m \in 1..4
      OBVIOUS
    <3> QED BY <1>1, <1>3, <3>1, PhasesDiffer, Zenon
  <2>3. p # NotRecorded
    BY LifecycleAssumption, Zenon
  <2> QED BY <1>1, <1>4, <2>1, <2>2, <2>3, Zenon
<1> QED BY <1>5, <1>7, <1>8, Zenon DEF LifecycleInv

\* Starting a record.
LEMMA StartKeepsInv ==
  ASSUME LifecycleInv, NEW p \in Staff, StartOperatorOnboarding(p) \/ StartAuditorEngagement(p)
  PROVE  LifecycleInv' /\ PhaseEvidenceOnce
PROOF
<1>1. /\ UNCHANGED <<journey, lapsed, shown>> /\ phase' = Phases[1] /\ LifecycleTypeOK
      /\ evidence' = [n \in 1..3 |-> NotRecorded] \/ evidence' = evidence
      /\ records' \in 0..MaxRecords
  <2>1. /\ LifecycleTypeOK /\ records \in 0..MaxRecords /\ MaxRecords \in Nat
        /\ journey = "operator" => Phases[1] = OperatorPhases[1]
        /\ journey = "auditor" => Phases[1] = EngagementPhases[1]
    BY LifecycleAssumption, Zenon DEF LifecycleInv, LifecycleTypeOK, Phases
  <2>2. records < MaxRecords => records + 1 \in 0..MaxRecords
    BY <2>1, SMTT(20)
  <2> QED BY <2>1, <2>2, Zenon DEF StartOperatorOnboarding, StartAuditorEngagement
<1>2. Phases' = Phases /\ PhaseSet' = PhaseSet
  BY <1>1, Zenon DEF Phases, PhaseSet
<1>3. ASSUME NEW n \in 1..3, phase = "absent" PROVE evidence[n] = NotRecorded
  <2>1. "absent" \notin LaterPhases(n)
    BY PhasesDiffer, SMTT(20) DEF LaterPhases
  <2> QED BY <1>3, <2>1, Zenon DEF LifecycleInv
<1>4. \A n \in 1..3 : evidence'[n] = NotRecorded
  BY <1>3, Zenon DEF StartOperatorOnboarding, StartAuditorEngagement
<1>5. evidence' \in [1..3 -> Staff \cup {NotRecorded}]
  BY <1>1, Zenon DEF LifecycleTypeOK
<1>6. LifecycleTypeOK'
  BY <1>1, <1>2, <1>5, PhasesDiffer, SMTT(20) DEF LifecycleTypeOK
<1>7. PhaseEvidenceOnce
  <2>1. CASE StartOperatorOnboarding(p)
    <3>1. records' # records
      BY <1>1, <2>1, SMTT(20) DEF StartOperatorOnboarding, LifecycleTypeOK
    <3> QED BY <3>1, Zenon DEF PhaseEvidenceOnce
  <2>2. CASE StartAuditorEngagement(p)
    <3>1. phase = "absent" /\ evidence' = evidence
      BY <2>2, Zenon DEF StartAuditorEngagement
    <3> QED BY <3>1, PhasesDiffer, SMTT(20) DEF PhaseEvidenceOnce
  <2> QED BY <2>1, <2>2, Zenon
<1> QED BY <1>4, <1>6, <1>7, Zenon DEF LifecycleInv

\* For any staff and any roles: a phase is left once, for the next one, with its own
\* evidence stored, and stored evidence is not replaced, however stale the consoles are
\* from which the forms are submitted.
THEOREM LifecyclesSafe == LifecycleSpec => LifecycleSafety
PROOF
<1>1. LifecycleInit => LifecycleInv
  <2> SUFFICES ASSUME LifecycleInit PROVE LifecycleInv
    OBVIOUS
  <2>1. records \in 0..MaxRecords
    BY LifecycleAssumption, SMTT(20) DEF LifecycleInit
  <2> QED BY <2>1, Zenon DEF LifecycleInit, LifecycleInv, LifecycleTypeOK
<1>2. ASSUME LifecycleInv, [LifecycleNext]_lifecycleVars PROVE LifecycleInv' /\ PhaseEvidenceOnce
  <2> USE <1>2
  <2>1. lapsed \in BOOLEAN /\ shown \in [Staff -> PhaseSet \cup {"absent"}] /\ phase \in PhaseSet \cup {"absent"}
    BY Zenon DEF LifecycleInv, LifecycleTypeOK
  <2>2. ASSUME NEW p \in Staff, LifecycleSubmission(p) PROVE LifecycleInv' /\ PhaseEvidenceOnce
    <3>1. ASSUME NEW n \in 1..3, Advance(p, n), UNCHANGED <<records, journey, lapsed, shown>>
          PROVE  LifecycleInv' /\ PhaseEvidenceOnce
      BY <3>1, AdvanceKeepsInv, Zenon
    <3>2. CASE RecordSodMatrixReview(p) \/ RecordEngagementLetter(p)
      BY <3>1, <3>2, SMTT(20) DEF RecordSodMatrixReview, RecordEngagementLetter
    <3>3. CASE RecordLmsEnrolment(p) \/ RecordAccessProvisioning(p)
      BY <3>1, <3>3, SMTT(20) DEF RecordLmsEnrolment, RecordAccessProvisioning
    <3>4. CASE RecordShadowPeriodSupervision(p) \/ RecordAuditFieldwork(p)
      BY <3>1, <3>4, SMTT(20) DEF RecordShadowPeriodSupervision, RecordAuditFieldwork
    <3>5. CASE RecordOperatorRecertification(p) \/ RecordAnnualReview(p)
      BY <2>1, <3>5, LifecycleFrame, Zenon DEF RecordOperatorRecertification, RecordAnnualReview
    <3> QED BY <2>2, <3>2, <3>3, <3>4, <3>5, StartKeepsInv, Zenon DEF LifecycleSubmission
  <2>3. ASSUME NEW p \in Staff, Refetch(p) PROVE LifecycleInv' /\ PhaseEvidenceOnce
    <3>1. shown' \in [Staff -> PhaseSet \cup {"absent"}]
      BY <2>1, <2>3, Zenon DEF Refetch
    <3> QED BY <2>1, <2>3, <3>1, LifecycleFrame, Zenon DEF Refetch
  <2>4. CASE ReviewFallsDue
    BY <2>1, <2>4, LifecycleFrame, Zenon DEF ReviewFallsDue
  <2>5. CASE UNCHANGED lifecycleVars
    BY <2>1, <2>5, LifecycleFrame, Zenon DEF lifecycleVars
  <2> QED BY <2>2, <2>3, <2>4, <2>5, Zenon DEF LifecycleNext
<1>3. LifecycleInv /\ [LifecycleNext]_lifecycleVars => LifecycleInv'
  BY <1>2, Zenon
<1>4. LifecycleInv /\ LifecycleInv' /\ [LifecycleNext]_lifecycleVars
        => [LifecycleTypeOK' /\ PhaseEvidenceOnce]_lifecycleVars
  <2> SUFFICES ASSUME LifecycleInv, LifecycleInv', [LifecycleNext]_lifecycleVars
               PROVE  LifecycleTypeOK' /\ PhaseEvidenceOnce
    OBVIOUS
  <2> QED BY <1>2, Zenon DEF LifecycleInv
<1> QED BY <1>1, <1>3, <1>4, PTL DEF LifecycleSpec, LifecycleSafety
=============================================================================
