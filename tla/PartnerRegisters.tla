-------------------------- MODULE PartnerRegisters --------------------------
\* The five partner registers (liquidity providers, banking partners, payout
\* PSPs, stablecoin issuers, compliance vendors): the archetype of a
\* counterparty, its evidence pack, the register's own gate decisions, and the
\* workspace an operator works from.  A gate decision is filed under the cycle
\* of the counterparty's onboarding row, which the handler locks and reads
\* before it inserts; a workspace may be open while other operators act.
EXTENDS Naturals, Sequences, ConsoleRoles

CONSTANTS PackTypes,      \* evidence types of the register's pack
          Archetypes,     \* archetypes of the register
          NotSet, MaxCopies, MaxDecisions, MaxPartnerCycle

ASSUME RegisterAssumption == {MaxCopies, MaxDecisions, MaxPartnerCycle} \subseteq Nat \ {0}

VARIABLES register,   \* the register the counterparty is in
          archetype,  \* its archetype, or NotSet
          items,      \* evidence type |-> number of recorded items
          cycle,      \* cycle of its onboarding row, 0 before there is one
          gateTx,     \* NotSet, or the open gate transaction, holding the row lock
          filed,      \* the register's gate decisions in commit order
          desk        \* NotSet, or the open workspace: [started]

registerVars == <<register, archetype, items, cycle, gateTx, filed, desk>>

Registers == {"liquidity", "banking", "psp", "issuer", "vendor"}

GatesOf(reg) ==
  CASE reg = "liquidity" -> {"financial_soundness"}
    [] reg = "banking"   -> {"crypto_posture"}
    [] reg = "psp"       -> {"licence_rail_coverage", "settlement_cutoff_validation", "bounded_live", "failover_rail"}
    [] reg = "issuer"    -> {"licence_reserve_posture", "mint_redeem_technical_proof", "chain_readiness", "operating_posture"}
    [] reg = "vendor"    -> {"security_posture", "coverage_feasibility", "false_positive_ceiling", "annual_review"}

\* Roles the handler itself checks.
PspPermittedGateRoles(g) ==
  CASE g = "licence_rail_coverage"        -> {"compliance_officer", "admin"}
    [] g = "settlement_cutoff_validation" -> {"treasury_operator", "admin"}
    [] g = "bounded_live"                 -> {"compliance_officer", "admin"}
    [] g = "failover_rail"                -> {"admin"}

IssuerPermittedGateRoles(g) ==
  CASE g = "licence_reserve_posture"     -> {"compliance_officer", "treasury_operator", "admin"}
    [] g = "mint_redeem_technical_proof" -> {"treasury_operator", "admin"}
    [] g = "chain_readiness"             -> {"admin"}
    [] g = "operating_posture"           -> {"compliance_officer", "treasury_operator", "admin"}

VendorPermittedGateRoles(g) == {"compliance_officer", "admin"}

\* Roles of the procedure each gate decision arrives through.
GateProcedure(g) ==
  CASE g \in {"financial_soundness", "settlement_cutoff_validation", "mint_redeem_technical_proof"} -> TreasuryProcedure
    [] g \in {"failover_rail", "chain_readiness"}                  -> AdminProcedure
    [] g \in {"licence_reserve_posture", "operating_posture"}      -> ComplianceOrTreasuryProcedure
    [] g \in {"crypto_posture", "licence_rail_coverage", "bounded_live"} \cup GatesOf("vendor") -> ComplianceProcedure

HandlerRoles(g) == CASE g \in GatesOf("psp")    -> PspPermittedGateRoles(g)
                     [] g \in GatesOf("issuer") -> IssuerPermittedGateRoles(g)
                     [] g \in GatesOf("vendor") -> VendorPermittedGateRoles(g)
                     [] OTHER                   -> OperatorRole

RegisterInit ==
  /\ register \in Registers
  /\ archetype = NotSet /\ items = [e \in PackTypes |-> 0]
  /\ cycle = 0 /\ gateTx = NotSet /\ filed = <<>> /\ desk = NotSet

---------------------------------------------------------------------------
\* The handlers.  One set of operations per register over the same three steps.

SetArchetype(reg, role, a) ==
  /\ register = reg /\ role \in ComplianceProcedure
  /\ archetype' = a
  /\ UNCHANGED <<register, items, cycle, gateTx, filed, desk>>

RecordItem(reg, role, e) ==
  /\ register = reg /\ role \in ComplianceProcedure
  /\ items[e] < MaxCopies
  /\ items' = [items EXCEPT ![e] = @ + 1]
  /\ UNCHANGED <<register, archetype, cycle, gateTx, filed, desk>>

\* The gate handler locks the onboarding row, reads its cycle and inserts.
LockForGate(reg, g, role, d) ==
  /\ register = reg /\ g \in GatesOf(reg) /\ role \in GateProcedure(g)
  /\ cycle # 0 /\ gateTx = NotSet /\ Len(filed) < MaxDecisions
  /\ gateTx' = [gate |-> g, decision |-> d, cycle |-> cycle]
  /\ UNCHANGED <<register, archetype, items, cycle, filed, desk>>

GateCommits ==
  /\ gateTx # NotSet
  /\ filed' = Append(filed, gateTx) /\ gateTx' = NotSet
  /\ UNCHANGED <<register, archetype, items, cycle, desk>>

UpdateCounterpartyLpArchetype(role, a) == SetArchetype("liquidity", role, a)
UpdateCounterpartyBankArchetype(role, a) == SetArchetype("banking", role, a)
UpdateCounterpartyPspArchetype(role, a) == SetArchetype("psp", role, a)
UpdateCounterpartyStablecoinIssuerArchetype(role, a) == SetArchetype("issuer", role, a)
UpdateCounterpartyComplianceVendorArchetype(role, a) == SetArchetype("vendor", role, a)

RecordCounterpartyEvidenceItem(role, e) == RecordItem("liquidity", role, e)
RecordBankEvidenceItem(role, e) == RecordItem("banking", role, e)
RecordPspEvidenceItem(role, e) == RecordItem("psp", role, e)
RecordStablecoinIssuerEvidenceItem(role, e) == RecordItem("issuer", role, e)
RecordComplianceVendorEvidenceItem(role, e) == RecordItem("vendor", role, e)

DecideFinancialSoundnessGate(g, role, d) == LockForGate("liquidity", g, role, d)
DecideCryptoPostureGate(g, role, d) == LockForGate("banking", g, role, d)
DecidePspGate(g, role, d) == LockForGate("psp", g, role, d) /\ role \in PspPermittedGateRoles(g)
DecideStablecoinIssuerGate(g, role, d) == LockForGate("issuer", g, role, d) /\ role \in IssuerPermittedGateRoles(g)
DecideComplianceVendorGate(g, role, d) == LockForGate("vendor", g, role, d) /\ role \in VendorPermittedGateRoles(g)

\* The shared onboarding row is created once and recertified under the same lock.
OnboardingStarts == /\ cycle = 0 /\ cycle' = 1
                    /\ UNCHANGED <<register, archetype, items, gateTx, filed, desk>>

\* The recertification does not wait for the row lock.
RecertifiesUnlocked == /\ cycle \in 1..(MaxPartnerCycle - 1)
                       /\ cycle' = cycle + 1
                       /\ UNCHANGED <<register, archetype, items, gateTx, filed, desk>>

OnboardingRecertifies == /\ gateTx = NotSet /\ cycle \in 1..(MaxPartnerCycle - 1)
                         /\ cycle' = cycle + 1
                         /\ UNCHANGED <<register, archetype, items, gateTx, filed, desk>>

---------------------------------------------------------------------------
\* The workspaces: the requests each tab lets a role submit.

Req(p, x) == [proc |-> p, arg |-> x]
ArchetypeForm(canEdit) == IF canEdit THEN {Req("archetype", a) : a \in Archetypes} ELSE {}
EvidenceForm(canEdit) == IF canEdit THEN {Req("evidence", e) : e \in PackTypes} ELSE {}
CanEdit(role) == role \in {"admin", "compliance_officer"}
GateSection(g, canDecide) == IF canDecide THEN {Req("gate", g)} ELSE {}
Readers == {"admin", "compliance_officer", "auditor", "treasury_operator"}

LiquidityGatesTab(role, started) ==
  GateSection("financial_soundness", started /\ role \in {"admin", "treasury_operator"})
BankingGatesTab(role, started) ==
  GateSection("crypto_posture", started /\ role \in {"admin", "compliance_officer"})
PspGatesTab(role, started) ==
  IF ~started THEN {Req("start", "onboarding")}
  ELSE UNION {GateSection("licence_rail_coverage", role \in {"admin", "compliance_officer"}),
              GateSection("settlement_cutoff_validation", role \in {"admin", "treasury_operator"}),
              GateSection("bounded_live", role \in {"admin", "compliance_officer"}),
              GateSection("failover_rail", role = "admin")}
\* Chain readiness is offered to the treasury desk too.
IssuerGatesTabWide(role, started) ==
  IF ~started THEN {Req("start", "onboarding")}
  ELSE UNION {GateSection(g, role \in {"admin", "compliance_officer", "treasury_operator"}) : g \in GatesOf("issuer")}
IssuerGatesTab(role, started) ==
  IF ~started THEN {Req("start", "onboarding")}
  ELSE UNION {GateSection("licence_reserve_posture", role \in {"admin", "compliance_officer", "treasury_operator"}),
              GateSection("mint_redeem_technical_proof", role \in {"admin", "treasury_operator"}),
              GateSection("chain_readiness", role = "admin"),
              GateSection("operating_posture", role \in {"admin", "compliance_officer", "treasury_operator"})}
VendorGatesTab(role, started) ==
  IF ~started THEN {Req("start", "onboarding")}
  ELSE UNION {GateSection(g, role \in {"admin", "compliance_officer"}) : g \in GatesOf("vendor")}

\* The archetype and evidence tabs, of which every workspace has its own copy.
LiquidityTabs(canEdit) == ArchetypeForm(canEdit) \cup EvidenceForm(canEdit)
BankingTabs(canEdit) == ArchetypeForm(canEdit) \cup EvidenceForm(canEdit)
PspTabs(canEdit) == ArchetypeForm(canEdit) \cup EvidenceForm(canEdit)
IssuerTabs(canEdit) == ArchetypeForm(canEdit) \cup EvidenceForm(canEdit)
VendorTabs(canEdit) == ArchetypeForm(canEdit) \cup EvidenceForm(canEdit)

Detail(role, tabs, gates) == IF role \in Readers THEN tabs \cup gates ELSE {}
LiquidityProviderWorkspace(role, started) ==
  Detail(role, LiquidityTabs(CanEdit(role)), LiquidityGatesTab(role, started))
BankingPartnerWorkspace(role, started) ==
  Detail(role, BankingTabs(CanEdit(role)), BankingGatesTab(role, started))
PayoutPspWorkspace(role, started) ==
  Detail(role, PspTabs(CanEdit(role)), PspGatesTab(role, started))
StablecoinIssuerWorkspace(role, started) ==
  Detail(role, IssuerTabs(CanEdit(role)), IssuerGatesTab(role, started))
ComplianceVendorWorkspace(role, started) ==
  Detail(role, VendorTabs(CanEdit(role)), VendorGatesTab(role, started))

Workspace(role, started) ==
  CASE register = "liquidity" -> LiquidityProviderWorkspace(role, started)
    [] register = "banking"   -> BankingPartnerWorkspace(role, started)
    [] register = "psp"       -> PayoutPspWorkspace(role, started)
    [] register = "issuer"    -> StablecoinIssuerWorkspace(role, started)
    [] register = "vendor"    -> ComplianceVendorWorkspace(role, started)

\* The workspace queries, one per register; what is on screen stays while other
\* operators act.
OpenDesk(reg) == /\ register = reg /\ desk' = [started |-> cycle # 0]
                 /\ UNCHANGED <<register, archetype, items, cycle, gateTx, filed>>
GetLiquidityProviderWorkspace == OpenDesk("liquidity")
GetBankingPartnerWorkspace == OpenDesk("banking")
GetPayoutPspWorkspace == OpenDesk("psp")
GetStablecoinIssuerWorkspace == OpenDesk("issuer")
GetComplianceVendorWorkspace == OpenDesk("vendor")

Accepts(q, role) ==
  CASE q.proc \in {"archetype", "evidence"} -> role \in ComplianceProcedure
    [] q.proc = "gate"  -> cycle # 0 /\ role \in GateProcedure(q.arg) \cap HandlerRoles(q.arg)
    [] q.proc = "start" -> cycle = 0 /\ role \in AdminProcedure

RegisterNext ==
  \/ \E role \in OperatorRole, a \in Archetypes :
       \/ UpdateCounterpartyLpArchetype(role, a) \/ UpdateCounterpartyBankArchetype(role, a)
       \/ UpdateCounterpartyPspArchetype(role, a) \/ UpdateCounterpartyStablecoinIssuerArchetype(role, a)
       \/ UpdateCounterpartyComplianceVendorArchetype(role, a)
  \/ \E role \in OperatorRole, e \in PackTypes :
       \/ RecordCounterpartyEvidenceItem(role, e) \/ RecordBankEvidenceItem(role, e)
       \/ RecordPspEvidenceItem(role, e) \/ RecordStablecoinIssuerEvidenceItem(role, e)
       \/ RecordComplianceVendorEvidenceItem(role, e)
  \/ \E role \in OperatorRole, g \in GatesOf(register), d \in {"approved", "blocked"} :
       \/ DecideFinancialSoundnessGate(g, role, d) \/ DecideCryptoPostureGate(g, role, d)
       \/ DecidePspGate(g, role, d) \/ DecideStablecoinIssuerGate(g, role, d)
       \/ DecideComplianceVendorGate(g, role, d)
  \/ GateCommits \/ OnboardingStarts \/ OnboardingRecertifies
  \/ GetLiquidityProviderWorkspace \/ GetBankingPartnerWorkspace \/ GetPayoutPspWorkspace
  \/ GetStablecoinIssuerWorkspace \/ GetComplianceVendorWorkspace

RegisterSpec == RegisterInit /\ [][RegisterNext]_registerVars

---------------------------------------------------------------------------
\* The register, its decisions and the open desk have their types.
RegisterTypeOK ==
  /\ register \in Registers /\ archetype \in Archetypes \cup {NotSet}
  /\ items \in [PackTypes -> 0..MaxCopies] /\ cycle \in 0..MaxPartnerCycle
  /\ Len(filed) <= MaxDecisions
  /\ desk \in [started : BOOLEAN] \cup {NotSet}

\* Every form a workspace shows still works when it is submitted: whatever other
\* operators did since the workspace was loaded, the archetype, evidence and gate
\* requests it offers a role are accepted from that role; and the server accepts
\* no gate decision from a role the started workspace does not offer it to.  (The
\* start form is outside: three workspaces show it to every reader, and only an
\* administrator's first request is accepted.)
\* (PayoutPspWorkspace.tsx:203-319 and its four siblings; routers.ts:361-414)
WorkspaceMatchesServer ==
  \A role \in OperatorRole :
    /\ desk # NotSet =>
         \A q \in Workspace(role, desk.started) : q.proc # "start" => Accepts(q, role)
    /\ \A g \in GatesOf(register) :
         Accepts(Req("gate", g), role) => Req("gate", g) \in Workspace(role, TRUE)

\* A gate decision is filed under the cycle the counterparty is in at the moment
\* it commits: a recertification cannot slip between the handler's read of the
\* cycle and its insert (payoutPspEvidence.ts:101-125 and its four siblings;
\* counterpartyOnboarding.ts:219-252).
DecisionInCurrentCycle ==
  Len(filed') > Len(filed) => filed'[Len(filed')].cycle = cycle'

\* Every step files its gate decision in the cycle it commits in (payoutPspEvidence.ts
\* and its four siblings).
RegisterSafety ==
  [][/\ RegisterTypeOK'
     /\ DecisionInCurrentCycle]_registerVars
=============================================================================
