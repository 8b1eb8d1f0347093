-------------------------- MODULE OperationsProofs --------------------------
\* Proofs about running the control plane: who may sign in and do what, the alerts the
\* owner gets, and the readiness assessments and monitors.  Each section has the inductive
\* invariant of one component, the steps that keep it, and the theorem; the components
\* share no state.
EXTENDS OperatorAccess, OperationalAlerts, ReadinessRegisters, WellFoundedInduction, TLAPS

-----------------------------------------------------------------------------
(* Operators' access. *)

CallSteps == {"idle", "onboarding", "insert", "resolve", "change", "deactivate", "disable"}
GrantRow == [role : GrantedRoles, active : BOOLEAN]

\* A call has seen grants that exist, and one that will insert names a core role.
CallsOver(rows) ==
  {k \in [step : CallSteps, role : GrantedRoles \cup {"none"}, seen : SUBSET rows] :
     k.step \in {"insert", "change"} => k.role \in GrantedRoles}

AccessTypes ==
  /\ account \in {"none", "enabled", "disabled"}
  /\ grants \in Seq(GrantRow)
  /\ external \in {"none", "assigned", "suspended"}
  /\ access \in {"none", "open", "resolved"}
  /\ calls \in [AdminCalls -> CallsOver(DOMAIN grants)]
  /\ cutOff \in BOOLEAN

\* A subject who is cut off has no active grant and no assigned external role.
AccessInv == AccessTypes /\ (cutOff => Active = {} /\ external # "assigned")

\* A set of positions that is not empty has a first one.
LEMMA FirstPosition ==
  ASSUME NEW S \in SUBSET Nat, S # {}
  PROVE  \E i \in S : \A j \in S : i <= j
  <1>1. PICK i \in S : \A j \in S : ~ (<<j, i>> \in OpToRel(<, Nat))
    BY WFMin, NatLessThanWellFounded, Zenon
  <1>2. ASSUME NEW j \in S PROVE i <= j
    <2>1. <<j, i>> \notin {ss \in Nat \X Nat : ss[1] < ss[2]}
      BY <1>1, Zenon DEF OpToRel
    <2>2. ~ (j < i)
      BY <2>1, Zenon
    <2> QED
      BY <2>2, SMTT(20)
  <1> QED
    BY <1>2, Zenon

\* A sequence over S is a function into S from its positions, and conversely.
LEMMA SequenceIsFunction ==
  ASSUME NEW S
  PROVE  /\ \A s \in Seq(S) : Len(s) \in Nat /\ DOMAIN s = 1 .. Len(s) /\ s \in [1 .. Len(s) -> S]
         /\ \A n \in Nat : \A f \in [1 .. n -> S] : f \in Seq(S)
  OBVIOUS

\* What is appended to a sequence leaves its positions in place.
LEMMA AppendIsLonger ==
  ASSUME NEW S, NEW s \in Seq(S), NEW x \in S
  PROVE  Append(s, x) \in Seq(S) /\ DOMAIN s \subseteq DOMAIN Append(s, x)
  OBVIOUS

\* The records a call goes through.
LEMMA CallRecords ==
  ASSUME NEW rows
  PROVE  /\ NoCall \in CallsOver(rows)
         /\ [NoCall EXCEPT !.step = "resolve"] \in CallsOver(rows)
         /\ [NoCall EXCEPT !.step = "disable"] \in CallsOver(rows)
         /\ [step |-> "resolve", role |-> "none", seen |-> {}] \in CallsOver(rows)
         /\ \A seen \in SUBSET rows : [step |-> "deactivate", role |-> "none", seen |-> seen] \in CallsOver(rows)
         /\ \A r \in GrantedRoles : \A step \in {"onboarding", "insert", "change"} : \A seen \in SUBSET rows :
              [step |-> step, role |-> r, seen |-> seen] \in CallsOver(rows)
  BY Zenon DEF CallsOver, CallSteps, NoCall

\* Grants are never deleted, so what a call has seen stays there.
LEMMA CallsStay ==
  ASSUME NEW rows, NEW more, rows \subseteq more
  PROVE  CallsOver(rows) \subseteq CallsOver(more)
  BY Zenon DEF CallsOver

\* Revoking some grants leaves the others active.
LEMMA RevokedRows ==
  ASSUME grants \in Seq(GrantRow), NEW rows \in SUBSET DOMAIN grants
  PROVE  /\ Revoke(rows) \in Seq(GrantRow)
         /\ DOMAIN Revoke(rows) = DOMAIN grants
         /\ {i \in DOMAIN Revoke(rows) : Revoke(rows)[i].active} = Active \ rows
  <1>1. /\ Len(grants) \in Nat /\ DOMAIN grants = 1 .. Len(grants)
        /\ grants \in [1 .. Len(grants) -> GrantRow]
    BY SequenceIsFunction, Zenon
  <1>2. ASSUME NEW i \in DOMAIN grants
        PROVE  /\ Revoke(rows)[i] \in GrantRow
               /\ Revoke(rows)[i].active <=> grants[i].active /\ i \notin rows
    <2>1. grants[i] \in GrantRow
      BY <1>1, Zenon
    <2>2. CASE i \in rows
      <3>1. Revoke(rows)[i] = [grants[i] EXCEPT !.active = FALSE]
        BY <2>2, Zenon DEF Revoke
      <3> QED
        BY <2>1, <2>2, <3>1, Zenon DEF GrantRow
    <2>3. CASE i \notin rows
      BY <2>1, <2>3, Zenon DEF Revoke
    <2> QED
      BY <2>2, <2>3, Zenon
  <1>3. DOMAIN Revoke(rows) = DOMAIN grants
    BY Zenon DEF Revoke
  <1>4. Revoke(rows) \in [1 .. Len(grants) -> GrantRow]
    BY <1>1, <1>2, <1>3, Zenon DEF Revoke
  <1>5. Revoke(rows) \in Seq(GrantRow)
    BY <1>1, <1>4, SequenceIsFunction, Zenon
  <1>6. {i \in DOMAIN Revoke(rows) : Revoke(rows)[i].active} = Active \ rows
    BY <1>2, <1>3, Zenon DEF Active
  <1> QED
    BY <1>3, <1>5, <1>6, Zenon

\* A step of a call that leaves grants and external roles alone.
LEMMA CallMoves ==
  ASSUME AccessInv, UNCHANGED <<grants, external>>, cutOff' \in BOOLEAN, cutOff' => cutOff,
         account' \in {"none", "enabled", "disabled"}, access' \in {"none", "open", "resolved"},
         NEW c \in AdminCalls, NEW k \in CallsOver(DOMAIN grants), calls' = [calls EXCEPT ![c] = k]
  PROVE  AccessInv'
  <1>1. calls' \in [AdminCalls -> CallsOver(DOMAIN grants')]
    BY Zenon DEF AccessInv, AccessTypes
  <1>2. Active' = Active
    BY Zenon DEF Active
  <1>3. AccessTypes'
    BY <1>1, Zenon DEF AccessInv, AccessTypes
  <1>4. cutOff' => Active' = {} /\ external' # "assigned"
    BY <1>2, Zenon DEF AccessInv
  <1> QED
    BY <1>3, <1>4, Zenon DEF AccessInv

\* The steps of the subject and the calls' steps that leave the grants alone.
LEMMA QuietStepKeepsInv ==
  ASSUME AccessInv, NEW c \in AdminCalls,
         \/ \E r \in GrantedRoles : OnboardOperator(c, r) \/ GrantLookup(c, r) \/ ChangeBegins(c, r)
         \/ ResolveOperatorAccessRequest(c) \/ DeactivateBegins(c)
         \/ SetKeycloakAccountEnabled(c) \/ CallFails(c)
  PROVE  AccessInv'
  <1>0. UNCHANGED <<grants, external>>
    BY Zenon DEF OnboardOperator, GrantLookup, ChangeBegins, ResolveOperatorAccessRequest,
                 DeactivateBegins, SetKeycloakAccountEnabled, CallFails
  <1>1. cutOff' \in BOOLEAN /\ (cutOff' => cutOff)
    <2>1. cutOff' = cutOff \/ cutOff' = FALSE
      BY Zenon DEF OnboardOperator, GrantLookup, ChangeBegins, ResolveOperatorAccessRequest, Begins,
                   DeactivateBegins, SetKeycloakAccountEnabled, CallFails
    <2>2. cutOff \in BOOLEAN
      BY Zenon DEF AccessInv, AccessTypes
    <2>3. CASE cutOff' = cutOff
      BY <2>2, <2>3, Zenon
    <2>4. CASE cutOff' = FALSE
      BY <2>4, Zenon
    <2> QED
      BY <2>1, <2>3, <2>4, Zenon
  <1>2. account' \in {"none", "enabled", "disabled"} /\ access' \in {"none", "open", "resolved"}
    BY Zenon DEF OnboardOperator, GrantLookup, ChangeBegins, ResolveOperatorAccessRequest, Begins,
           DeactivateBegins, SetKeycloakAccountEnabled, CallFails, AccessInv, AccessTypes
  <1>3. Active \subseteq DOMAIN grants
    BY Zenon DEF Active
  <1>4. \E k \in CallsOver(DOMAIN grants) : calls' = [calls EXCEPT ![c] = k]
    BY <1>3, CallRecords, Zenon
       DEF OnboardOperator, GrantLookup, ChangeBegins, ResolveOperatorAccessRequest, Begins, Ends, Resolves,
           DeactivateBegins, SetKeycloakAccountEnabled, CallFails
  <1> QED
    BY <1>0, <1>1, <1>2, <1>4, CallMoves, Zenon

\* A step of a call that adds grants or an external role: it ends a cut-off.
LEMMA RoleMoves ==
  ASSUME AccessInv, ~cutOff', cutOff' \in BOOLEAN, UNCHANGED <<account, access>>,
         external' \in {"none", "assigned", "suspended"},
         grants' \in Seq(GrantRow), DOMAIN grants \subseteq DOMAIN grants',
         NEW c \in AdminCalls, NEW k \in CallsOver(DOMAIN grants'), calls' = [calls EXCEPT ![c] = k]
  PROVE  AccessInv'
  <1>1. calls' \in [AdminCalls -> CallsOver(DOMAIN grants')]
    BY CallsStay, Zenon DEF AccessInv, AccessTypes
  <1>2. AccessTypes'
    BY <1>1, Zenon DEF AccessInv, AccessTypes
  <1> QED
    BY <1>2, Zenon DEF AccessInv

\* Steps that give the subject a role end a cut-off.
LEMMA RoleStepKeepsInv ==
  ASSUME AccessInv, NEW c \in AdminCalls,
         GrantOperatingRole(c) \/ AssignExternalStakeholder(c) \/ ChangeOperatorRole(c)
  PROVE  AccessInv'
  <1>t. /\ grants \in Seq(GrantRow) /\ external \in {"none", "assigned", "suspended"}
        /\ calls[c] \in CallsOver(DOMAIN grants)
    BY Zenon DEF AccessInv, AccessTypes
  <1>c. cutOff' = FALSE /\ UNCHANGED <<account, access>>
    BY Zenon DEF GrantOperatingRole, AssignExternalStakeholder, ChangeOperatorRole, Begins
  <1>k. calls[c].step \in {"insert", "change"} => [role |-> calls[c].role, active |-> TRUE] \in GrantRow
    BY <1>t, Zenon DEF CallsOver, GrantRow
  <1>1. CASE GrantOperatingRole(c)
    <2>1. grants' \in Seq(GrantRow) /\ DOMAIN grants \subseteq DOMAIN grants'
      BY <1>1, <1>t, <1>k, AppendIsLonger, Zenon DEF GrantOperatingRole
    <2>2. /\ calls' = [calls EXCEPT ![c] = [NoCall EXCEPT !.step = "resolve"]]
          /\ external' = external
      BY <1>1, Zenon DEF GrantOperatingRole, Resolves
    <2> QED
      BY <1>t, <1>c, <2>1, <2>2, CallRecords, RoleMoves, Zenon
  <1>2. CASE AssignExternalStakeholder(c)
    <2>1. /\ calls' = [calls EXCEPT ![c] = [step |-> "resolve", role |-> "none", seen |-> {}]]
          /\ external' = "assigned" /\ grants' = grants
      BY <1>2, Zenon DEF AssignExternalStakeholder, Begins
    <2> QED
      BY <1>t, <1>c, <2>1, CallRecords, RoleMoves, Zenon
  <1>3. CASE ChangeOperatorRole(c)
    <2> DEFINE locked == calls[c].seen \cap Active
               others == {i \in locked : grants[i].role # calls[c].role}
               added == [role |-> calls[c].role, active |-> TRUE]
    <2>1. others \in SUBSET DOMAIN grants
      BY Zenon DEF Active
    <2>2. \/ grants' = grants
          \/ grants' = Revoke(others)
          \/ grants' = Append(Revoke(others), added)
      BY <1>3, Zenon DEF ChangeOperatorRole
    <2>3. added \in GrantRow
      BY <1>3, <1>k, Zenon DEF ChangeOperatorRole
    <2>4. calls' = [calls EXCEPT ![c] = NoCall] /\ external' = external
      BY <1>3, Zenon DEF ChangeOperatorRole, Ends
    <2> HIDE DEF others, added
    <2>5. Revoke(others) \in Seq(GrantRow) /\ DOMAIN Revoke(others) = DOMAIN grants
      BY <1>t, <2>1, RevokedRows, Zenon
    <2>6. /\ Append(Revoke(others), added) \in Seq(GrantRow)
          /\ DOMAIN Revoke(others) \subseteq DOMAIN Append(Revoke(others), added)
      BY <2>3, <2>5, AppendIsLonger, Zenon
    <2>7. grants' \in Seq(GrantRow) /\ DOMAIN grants \subseteq DOMAIN grants'
      BY <1>t, <2>2, <2>5, <2>6, Zenon
    <2> QED
      BY <1>t, <1>c, <2>4, <2>7, CallRecords, RoleMoves, Zenon
  <1> QED
    BY <1>1, <1>2, <1>3, Zenon

\* The transaction of a deactivation: nothing is left active when the cut-off is
\* recorded.
LEMMA DeactivationKeepsInv ==
  ASSUME AccessInv, NEW c \in AdminCalls, DeactivateOperator(c)
  PROVE  AccessInv'
  <1>t. AccessTypes
    BY Zenon DEF AccessInv
  <1> DEFINE locked == calls[c].seen \cap Active
  <1>1. CASE Collide(locked)
    <2>1. /\ calls' = [calls EXCEPT ![c] = NoCall]
          /\ UNCHANGED <<grants, external, cutOff, account, access>>
      BY <1>1, Zenon DEF DeactivateOperator, Ends
    <2>2. cutOff' \in BOOLEAN /\ (cutOff' => cutOff) /\ account' \in {"none", "enabled", "disabled"}
          /\ access' \in {"none", "open", "resolved"}
      BY <1>t, <2>1, Zenon DEF AccessTypes
    <2> QED
      BY <2>1, <2>2, CallRecords, CallMoves, Zenon
  <1>2. CASE ~Collide(locked)
    <2>1. locked \in SUBSET DOMAIN grants
      BY Zenon DEF Active
    <2>2. /\ grants' = Revoke(locked)
          /\ external' = IF external = "assigned" THEN "suspended" ELSE external
          /\ calls' = [calls EXCEPT ![c] = [NoCall EXCEPT !.step = "disable"]]
          /\ cutOff' \in BOOLEAN /\ (cutOff' => Active \subseteq locked)
          /\ UNCHANGED <<account, access>>
      BY <1>2, Zenon DEF DeactivateOperator
    <2> HIDE DEF locked
    <2>3. grants' \in Seq(GrantRow) /\ DOMAIN grants' = DOMAIN grants
      BY <1>t, <2>1, <2>2, RevokedRows, Zenon DEF AccessTypes
    <2>4. Active' = Active \ locked
      BY <1>t, <2>1, <2>2, RevokedRows, Zenon DEF Active, AccessTypes
    <2>5. calls' \in [AdminCalls -> CallsOver(DOMAIN grants')]
      BY <1>t, <2>2, <2>3, CallRecords, Zenon DEF AccessTypes
    <2>6. AccessTypes'
      BY <1>t, <2>2, <2>3, <2>5, Zenon DEF AccessTypes
    <2>7. cutOff' => Active' = {} /\ external' # "assigned"
      BY <2>2, <2>4, Zenon
    <2> QED
      BY <2>6, <2>7, Zenon DEF AccessInv
  <1> QED
    BY <1>1, <1>2, Zenon

\* Once a deactivation has committed alone, no request of the subject resolves to
\* a role until a later call gives one; a deactivation that stopped half-way can
\* be finished from the console, and whoever holds a role is shown with one
\* (operatorDirectory.ts, operatorIdentity.ts).
THEOREM AccessSafe == AccessSpec => []AccessSafety
  <1>1. OperatorAccessInit => AccessInv
    <2> SUFFICES ASSUME OperatorAccessInit PROVE AccessInv
      OBVIOUS
    <2>1. grants \in Seq(GrantRow)
      BY SMTT(20) DEF OperatorAccessInit
    <2>2. calls \in [AdminCalls -> CallsOver(DOMAIN grants)]
      BY CallRecords, Zenon DEF OperatorAccessInit
    <2>3. AccessTypes
      BY <2>1, <2>2, Zenon DEF OperatorAccessInit, AccessTypes
    <2> QED
      BY <2>3, Zenon DEF OperatorAccessInit, AccessInv
  <1>2. AccessInv /\ [AccessNext]_accessVars => AccessInv'
    <2> SUFFICES ASSUME AccessInv, [AccessNext]_accessVars PROVE AccessInv'
      OBVIOUS
    <2>1. CASE UNCHANGED accessVars
      BY <2>1, Zenon DEF accessVars, AccessInv, AccessTypes, Active
    <2>2. CASE SubjectSteps
      <3>1. UNCHANGED <<account, grants, external, calls, cutOff>> /\ access' \in {access, "open"}
        BY <2>2, Zenon DEF SubjectSteps, CreateContext, RecordOperatorAccessAttempt, AttemptLost
      <3>2. AccessTypes'
        BY <3>1, Zenon DEF AccessInv, AccessTypes
      <3>3. Active' = Active
        BY <3>1, Zenon DEF Active
      <3> QED
        BY <3>1, <3>2, <3>3, Zenon DEF AccessInv
    <2>3. CASE AdminSteps
      BY <2>3, QuietStepKeepsInv, RoleStepKeepsInv, DeactivationKeepsInv, Zenon DEF AdminSteps
    <2> QED
      BY <2>1, <2>2, <2>3, Zenon DEF AccessNext
  <1>3. AccessInv => AccessSafety
    <2> SUFFICES ASSUME AccessInv PROVE AccessSafety
      OBVIOUS
    <2>1. AccessTypeOK
      BY Zenon DEF AccessInv, AccessTypes, AccessTypeOK, CallSteps, CallsOver, GrantRow
    <2>2. DeactivationCutsOff
      BY Zenon DEF AccessInv, DeactivationCutsOff, ResolvePostgresOperatingRole, ActiveRoles
    <2>3. HalfDeactivatedCanBeFinished
      BY Zenon DEF HalfDeactivatedCanBeFinished, OperatorsWorkspace, RowActions
    <2>4. DirectoryShowsHolders
      <3>1. ASSUME ResolvePostgresOperatingRole # "none", external = "none" PROVE DirectoryRole # "none"
        <4>1. Active # {}
          BY <3>1, Zenon DEF ResolvePostgresOperatingRole, ActiveRoles
        <4>2. DOMAIN grants \subseteq Nat /\ \A n \in DOMAIN grants : grants[n] \in GrantRow
          BY SequenceIsFunction, SMTT(20) DEF AccessInv, AccessTypes
        <4>3. Active \in SUBSET DOMAIN grants
          BY Zenon DEF Active
        <4> DEFINE i == CHOOSE k \in Active : \A j \in Active : k <= j
        <4>4. i \in Active
          <5>1. \E k \in Active : \A j \in Active : k <= j
            BY <4>1, <4>2, <4>3, FirstPosition, Zenon
          <5> QED
            BY <5>1, Zenon
        <4>5. DirectoryRole = grants[i].role
          BY <3>1, <4>1, Zenon DEF DirectoryRole
        <4> HIDE DEF i
        <4>6. grants[i].role \in GrantedRoles
          BY <4>2, <4>3, <4>4, Zenon DEF GrantRow
        <4> QED
          BY <4>5, <4>6, AccessAssumption, Zenon DEF AuditorProcedure
      <3> QED
        BY <3>1, Zenon DEF DirectoryShowsHolders, DirectoryRole
    <2> QED
      BY <2>1, <2>2, <2>3, <2>4, Zenon DEF AccessSafety
  <1> QED
    BY <1>1, <1>2, <1>3, PTL DEF AccessSpec

-----------------------------------------------------------------------------
-----------------------------------------------------------------------------
(* Operational alerts. *)

World == [buffer : BOOLEAN, fresh : BOOLEAN, amount : 0..MaxAmount, failed : BOOLEAN,
          case : {"young", "aged", "disposed"}, near : BOOLEAN, reminded : BOOLEAN]

Running(e) == evaluation[e] # NotRunning

AlertTypes ==
  /\ AlertTypeOK
  /\ world \in World
  /\ evaluation \in [Evaluators -> Transactions \cup {NotRunning}]

\* What stops the next notice about p: a delivery row, or the reminder's date; in
\* the transaction that is running, not yet committed.
Suppressed(p) ==
  IF kind = "deadline"
  THEN world.reminded \/ (world.near /\ \E e \in Evaluators : Running(e) /\ p \notin evaluation[e].todo)
  ELSE \/ \E r \in deliveries : r.payload = p
       \/ \E e \in Evaluators : Running(e) /\ \E r \in evaluation[e].rows : r.payload = p

\* The evaluations of a kind exclude one another; rows tell the truth before
\* they are committed, and a notice without a rollback behind it is suppressed.
AlertInv ==
  /\ AlertTypes
  /\ \A e, f \in Evaluators : Running(e) /\ Running(f) => e = f
  /\ \A e \in Evaluators : Running(e) /\ kind = "deadline" /\ evaluation[e].todo # {} =>
       world.near /\ ~world.reminded
  /\ AcceptedMeansReceived
  /\ \A e \in Evaluators : Running(e) =>
       \A r \in evaluation[e].rows : r.state = "accepted" => mailbox[r.payload] > 0
  /\ \A p \in Payloads : \/ mailbox[p] <= rolledBack
                         \/ mailbox[p] = 1 + rolledBack /\ Suppressed(p)

\* What an evaluation finds are payloads; a reminder is found only when it is due.
LEMMA FindingsArePayloads ==
  ASSUME AlertTypes
  PROVE  /\ Findings \in SUBSET Payloads
         /\ kind = "deadline" /\ Findings # {} => world.near /\ ~world.reminded
  <1>1. kind \in Kinds /\ world \in World
    BY Zenon DEF AlertTypes, AlertTypeOK
  <1>2. LiquidityBreaches \in SUBSET Payloads
    <2>1. world.amount \in 0..MaxAmount
      BY <1>1, Zenon DEF World
    <2>2. Band(world.amount) \in SUBSET Bands
      BY Zenon DEF Band, Bands
    <2>3. ASSUME NEW b \in Bands PROVE <<b, world.amount>> \in Payloads
      BY <2>1, Zenon DEF Payloads
    <2> QED
      BY <2>2, <2>3, Zenon DEF LiquidityBreaches
  <1>3. FailedOrders \in SUBSET Payloads /\ AgedCases \in SUBSET Payloads /\ DueReminders \in SUBSET Payloads
    BY Zenon DEF FailedOrders, AgedCases, DueReminders, Payloads
  <1>4. Findings \in SUBSET Payloads
    BY <1>1, <1>2, <1>3, Zenon DEF Findings, Kinds
  <1>5. kind = "deadline" => Findings = DueReminders
    BY Zenon DEF Findings
  <1> QED
    BY <1>4, <1>5, Zenon DEF DueReminders

\* A running evaluation is a transaction.
LEMMA RunningIsTransaction ==
  ASSUME AlertTypes, NEW e \in Evaluators, Running(e)
  PROVE  /\ evaluation[e] \in Transactions
         /\ evaluation[e].todo \in SUBSET Payloads /\ evaluation[e].rows \in SUBSET Delivery
         /\ evaluation[e] = [todo |-> evaluation[e].todo, rows |-> evaluation[e].rows]
  BY Zenon DEF AlertTypes, Running, Transactions

\* A step that sets the transaction of one evaluation, all others at rest.
LEMMA TransactionSet ==
  ASSUME AlertTypes, NEW e \in Evaluators,
         \A f \in Evaluators \ {e} : ~Running(f),
         NEW t \in SUBSET Payloads, NEW w \in SUBSET Delivery,
         evaluation' = [evaluation EXCEPT ![e] = [todo |-> t, rows |-> w]]
  PROVE  /\ evaluation' \in [Evaluators -> Transactions \cup {NotRunning}]
         /\ Running(e)' /\ evaluation'[e].todo = t /\ evaluation'[e].rows = w
         /\ \A f \in Evaluators \ {e} : ~Running(f)'
  <1>1. [todo |-> t, rows |-> w] \in Transactions
    BY Zenon DEF Transactions
  <1>2. evaluation'[e] = [todo |-> t, rows |-> w] /\ \A f \in Evaluators \ {e} : evaluation'[f] = evaluation[f]
    BY Zenon DEF AlertTypes
  <1> QED
    BY <1>1, <1>2, NotRunningAssumption, Zenon DEF AlertTypes, Running

\* A step that ends the transaction of one evaluation, all others at rest.
LEMMA TransactionOver ==
  ASSUME AlertTypes, NEW e \in Evaluators,
         \A f \in Evaluators \ {e} : ~Running(f),
         evaluation' = [evaluation EXCEPT ![e] = NotRunning]
  PROVE  /\ evaluation' \in [Evaluators -> Transactions \cup {NotRunning}]
         /\ \A f \in Evaluators : ~Running(f)'
  BY Zenon DEF AlertTypes, Running

\* The locks are taken and the findings derived.
LEMMA EvaluateKeepsInv ==
  ASSUME AlertInv, NEW e \in Evaluators, Evaluate(e)
  PROVE  AlertInv'
  <1>1. AlertTypes /\ \A f \in Evaluators : ~Running(f)
    BY Zenon DEF AlertInv, Evaluate, Running
  <1>2. /\ evaluation' = [evaluation EXCEPT ![e] = [todo |-> Findings, rows |-> {}]]
        /\ UNCHANGED <<kind, world, subscribed, deliveries, mailbox, rolledBack>>
    BY Zenon DEF Evaluate
  <1>3. Findings \in SUBSET Payloads /\ (kind = "deadline" /\ Findings # {} => world.near /\ ~world.reminded)
    BY <1>1, FindingsArePayloads, Zenon
  <1> HIDE DEF Findings
  <1>4. /\ evaluation' \in [Evaluators -> Transactions \cup {NotRunning}]
        /\ Running(e)' /\ evaluation'[e].todo = Findings /\ evaluation'[e].rows = {}
        /\ \A f \in Evaluators \ {e} : ~Running(f)'
    <2>1. {} \in SUBSET Delivery
      OBVIOUS
    <2> QED
      BY <1>1, <1>2, <1>3, <2>1, TransactionSet, Zenon
  <1>5. AlertTypes'
    BY <1>1, <1>2, <1>4, Zenon DEF AlertTypes, AlertTypeOK
  <1>6. AcceptedMeansReceived'
    BY <1>2, Zenon DEF AlertInv, AcceptedMeansReceived
  <1>7. ASSUME NEW p \in Payloads, Suppressed(p) PROVE Suppressed(p)'
    BY <1>1, <1>2, <1>7, Zenon DEF Suppressed
  <1> QED
    BY <1>1, <1>2, <1>3, <1>4, <1>5, <1>6, <1>7, Zenon DEF AlertInv

\* A notice goes out and its row is written: nothing suppressed it.
LEMMA NotifyKeepsInv ==
  ASSUME AlertInv, NEW e \in Evaluators, NEW p \in Payloads,
         NEW got \in BOOLEAN, NEW reported \in BOOLEAN,
         NotifyPostgresAlertPolicies(e, p, got, reported)
  PROVE  AlertInv'
  <1> DEFINE row == [payload |-> p, state |-> IF reported THEN "accepted" ELSE "unavailable"]
             t == evaluation[e].todo \ {p}
             w == evaluation[e].rows \cup {row}
  <1>1. /\ AlertTypes /\ Running(e) /\ p \in evaluation[e].todo
        /\ \A f \in Evaluators \ {e} : ~Running(f)
    BY Zenon DEF AlertInv, NotifyPostgresAlertPolicies, Running
  <1>2. /\ evaluation[e].todo \in SUBSET Payloads /\ evaluation[e].rows \in SUBSET Delivery
        /\ evaluation[e] = [todo |-> evaluation[e].todo, rows |-> evaluation[e].rows]
    BY <1>1, RunningIsTransaction, Zenon
  <1>3. evaluation' = [evaluation EXCEPT ![e] = [todo |-> t, rows |-> w]]
    <2>1. evaluation' = [evaluation EXCEPT ![e].todo = t, ![e].rows = w]
      BY Zenon DEF NotifyPostgresAlertPolicies, DeliverAlert
    <2>2. /\ evaluation \in [Evaluators -> Transactions \cup {NotRunning}]
          /\ evaluation[e] \in Transactions
      BY <1>1, RunningIsTransaction, Zenon DEF AlertTypes
    <2> HIDE DEF t, w
    <2>3. evaluation'[e] = [todo |-> t, rows |-> w]
      BY <2>1, <2>2, Zenon DEF Transactions
    <2>4. \A f \in Evaluators \ {e} : evaluation'[f] = evaluation[f]
      BY <2>1, <2>2, Zenon
    <2>5. evaluation' = [f \in Evaluators |-> evaluation'[f]]
      BY <2>1, <2>2, Zenon
    <2> QED
      BY <2>2, <2>3, <2>4, <2>5, Zenon
  <1>4. row \in Delivery /\ row.payload = p /\ (row.state = "accepted" => got)
    BY Zenon DEF Delivery, NotifyPostgresAlertPolicies, DeliverAlert
  <1>5. t \in SUBSET Payloads /\ w \in SUBSET Delivery
    BY <1>2, <1>4, Zenon
  <1>6. /\ UNCHANGED <<kind, world, subscribed, deliveries, rolledBack>>
        /\ mailbox' = [mailbox EXCEPT ![p] = IF got THEN @ + 1 ELSE @]
        /\ mailbox[p] < MaxNotices
    BY Zenon DEF NotifyPostgresAlertPolicies, DeliverAlert
  <1>7. ~Suppressed(p)
    BY <1>1, Zenon DEF Suppressed, AlertInv, NotifyPostgresAlertPolicies, AlreadyDelivered
  <1>m. /\ mailbox \in [Payloads -> 0..MaxNotices] /\ rolledBack \in Nat
        /\ deliveries \subseteq Delivery
    BY <1>1, AlertAssumption, SMTT(20) DEF AlertTypes, AlertTypeOK
  <1> HIDE DEF row, t, w
  <1>8. /\ evaluation' \in [Evaluators -> Transactions \cup {NotRunning}]
        /\ Running(e)' /\ evaluation'[e].todo = t /\ evaluation'[e].rows = w
        /\ \A f \in Evaluators \ {e} : ~Running(f)'
    BY <1>1, <1>3, <1>5, TransactionSet, Zenon
  <1>9. /\ mailbox' \in [Payloads -> 0..MaxNotices]
        /\ \A q \in Payloads : mailbox'[q] >= mailbox[q]
        /\ \A q \in Payloads \ {p} : mailbox'[q] = mailbox[q]
        /\ mailbox'[p] <= mailbox[p] + 1 /\ (got => mailbox'[p] > 0)
    BY <1>6, <1>m, AlertAssumption, SMTT(20)
  <1>10. AlertTypes'
    BY <1>1, <1>6, <1>8, <1>9, Zenon DEF AlertTypes, AlertTypeOK
  <1>11. AcceptedMeansReceived'
    BY <1>6, <1>9, <1>m, Zenon DEF AlertInv, AcceptedMeansReceived, Delivery
  <1>12. \A r \in w : r.state = "accepted" => mailbox'[r.payload] > 0
    <2>1. ASSUME NEW r \in evaluation[e].rows, r.state = "accepted" PROVE mailbox'[r.payload] > 0
      <3>1. r.payload \in Payloads
        BY <1>2, Zenon DEF Delivery
      <3>2. mailbox[r.payload] > 0
        BY <1>1, <2>1, Zenon DEF AlertInv
      <3> QED
        BY <3>1, <3>2, <1>9, <1>m, SMTT(20)
    <2>2. row.state = "accepted" => mailbox'[row.payload] > 0
      BY <1>4, <1>9, Zenon
    <2> QED
      BY <2>1, <2>2, Zenon DEF w
  <1>13. Suppressed(p)'
    <2>1. CASE kind = "deadline"
      <3>1. world.near
        BY <1>1, <2>1, Zenon DEF AlertInv
      <3>2. p \notin t
        BY Zenon DEF t
      <3> QED
        BY <1>6, <1>8, <2>1, <3>1, <3>2, Zenon DEF Suppressed
    <2>2. CASE kind # "deadline"
      <3>1. row \in w
        BY Zenon DEF w
      <3> QED
        BY <1>4, <1>6, <1>8, <2>2, <3>1, Zenon DEF Suppressed
    <2> QED
      BY <2>1, <2>2, Zenon
  <1>14. ASSUME NEW q \in Payloads, Suppressed(q) PROVE Suppressed(q)'
    <2>1. t \subseteq evaluation[e].todo /\ evaluation[e].rows \subseteq w
      BY Zenon DEF t, w
    <2> QED
      BY <1>1, <1>6, <1>8, <1>14, <2>1, Zenon DEF Suppressed
  <1>15. ASSUME NEW q \in Payloads
         PROVE  mailbox'[q] <= rolledBack' \/ (mailbox'[q] = 1 + rolledBack' /\ Suppressed(q)')
    <2>1. CASE q = p
      <3>1. mailbox[p] <= rolledBack
        BY <1>7, Zenon DEF AlertInv
      <3> QED
        BY <1>6, <1>9, <1>13, <1>m, <2>1, <3>1, SMTT(20)
    <2>2. CASE q # p
      BY <1>6, <1>9, <1>14, <2>2, Zenon DEF AlertInv
    <2> QED
      BY <2>1, <2>2, Zenon
  <1>16. kind = "deadline" /\ t # {} => world.near /\ ~world.reminded
    BY <1>1, Zenon DEF AlertInv, t
  <1> QED
    BY <1>6, <1>8, <1>10, <1>11, <1>12, <1>15, <1>16, Zenon DEF AlertInv

\* A finding that is passed over was suppressed, or nobody subscribed.
LEMMA SkipKeepsInv ==
  ASSUME AlertInv, NEW e \in Evaluators, NEW p \in Payloads, SkipFinding(e, p)
  PROVE  AlertInv'
  <1> DEFINE t == evaluation[e].todo \ {p}
             w == evaluation[e].rows
  <1>1. /\ AlertTypes /\ Running(e) /\ p \in evaluation[e].todo
        /\ \A f \in Evaluators \ {e} : ~Running(f)
    BY Zenon DEF AlertInv, SkipFinding, Running
  <1>2. /\ evaluation[e].todo \in SUBSET Payloads /\ evaluation[e].rows \in SUBSET Delivery
        /\ evaluation[e] = [todo |-> evaluation[e].todo, rows |-> evaluation[e].rows]
    BY <1>1, RunningIsTransaction, Zenon
  <1>3. /\ evaluation' = [evaluation EXCEPT ![e] = [todo |-> t, rows |-> w]]
        /\ UNCHANGED <<kind, world, subscribed, deliveries, mailbox, rolledBack>>
    <2>1. /\ evaluation' = [evaluation EXCEPT ![e].todo = t]
          /\ UNCHANGED <<kind, world, subscribed, deliveries, mailbox, rolledBack>>
      BY Zenon DEF SkipFinding
    <2>2. /\ evaluation \in [Evaluators -> Transactions \cup {NotRunning}]
          /\ evaluation[e] \in Transactions
      BY <1>1, RunningIsTransaction, Zenon DEF AlertTypes
    <2> HIDE DEF t
    <2>3. evaluation'[e] = [todo |-> t, rows |-> w]
      BY <2>1, <2>2, Zenon DEF Transactions
    <2>4. \A f \in Evaluators \ {e} : evaluation'[f] = evaluation[f]
      BY <2>1, <2>2, Zenon
    <2>5. evaluation' = [f \in Evaluators |-> evaluation'[f]]
      BY <2>1, <2>2, Zenon
    <2> QED
      BY <2>1, <2>2, <2>3, <2>4, <2>5, Zenon
  <1>4. t \in SUBSET Payloads /\ w \in SUBSET Delivery /\ t \subseteq evaluation[e].todo
    BY <1>2, Zenon
  <1> HIDE DEF t, w
  <1>5. /\ evaluation' \in [Evaluators -> Transactions \cup {NotRunning}]
        /\ Running(e)' /\ evaluation'[e].todo = t /\ evaluation'[e].rows = w
        /\ \A f \in Evaluators \ {e} : ~Running(f)'
    BY <1>1, <1>3, <1>4, TransactionSet, Zenon
  <1>6. AlertTypes'
    BY <1>1, <1>3, <1>5, Zenon DEF AlertTypes, AlertTypeOK
  <1>7. AcceptedMeansReceived'
    BY <1>3, Zenon DEF AlertInv, AcceptedMeansReceived
  <1>8. ASSUME NEW q \in Payloads, Suppressed(q) PROVE Suppressed(q)'
    BY <1>1, <1>3, <1>4, <1>5, <1>8, Zenon DEF Suppressed, w
  <1>9. kind = "deadline" /\ t # {} => world.near /\ ~world.reminded
    BY <1>1, <1>4, Zenon DEF AlertInv
  <1>10. \A r \in w : r.state = "accepted" => mailbox[r.payload] > 0
    BY <1>1, Zenon DEF AlertInv, w
  <1> QED
    BY <1>3, <1>5, <1>6, <1>7, <1>8, <1>9, <1>10, Zenon DEF AlertInv

\* The commit makes the rows of the transaction permanent, and a rollback counts
\* for every notice whose row it takes back.
LEMMA EndKeepsInv ==
  ASSUME AlertInv, NEW e \in Evaluators, CommitEvaluation(e) \/ RollbackEvaluation(e)
  PROVE  AlertInv'
  <1>1. /\ AlertTypes /\ Running(e)
        /\ \A f \in Evaluators \ {e} : ~Running(f)
    BY Zenon DEF AlertInv, CommitEvaluation, RollbackEvaluation, Running
  <1>2. evaluation' = [evaluation EXCEPT ![e] = NotRunning] /\ UNCHANGED <<kind, subscribed, mailbox>>
    BY Zenon DEF CommitEvaluation, RollbackEvaluation
  <1>3. /\ evaluation' \in [Evaluators -> Transactions \cup {NotRunning}]
        /\ \A f \in Evaluators : ~Running(f)'
    BY <1>1, <1>2, TransactionOver, Zenon
  <1>4. evaluation[e].rows \in SUBSET Delivery
    BY <1>1, RunningIsTransaction, Zenon
  <1>5. /\ mailbox \in [Payloads -> 0..MaxNotices] /\ rolledBack \in 0..MaxRollbacks
        /\ deliveries \subseteq Delivery /\ world \in World
    BY <1>1, Zenon DEF AlertTypes, AlertTypeOK
  <1>6. CASE CommitEvaluation(e)
    <2>1. /\ deliveries' = deliveries \cup evaluation[e].rows /\ rolledBack' = rolledBack
          /\ world' = IF kind = "deadline" /\ world.near THEN [world EXCEPT !.reminded = TRUE] ELSE world
      BY <1>6, Zenon DEF CommitEvaluation
    <2>2. world' \in World /\ (kind = "deadline" => world'.reminded = (world.near \/ world.reminded))
      BY <1>5, <2>1, Zenon DEF World
    <2>3. AlertTypes'
      BY <1>1, <1>2, <1>3, <1>4, <2>1, <2>2, Zenon DEF AlertTypes, AlertTypeOK
    <2>4. AcceptedMeansReceived'
      BY <1>1, <1>2, <2>1, Zenon DEF AlertInv, AcceptedMeansReceived
    <2>5. ASSUME NEW p \in Payloads, Suppressed(p) PROVE Suppressed(p)'
      BY <1>1, <1>2, <2>1, <2>2, <2>5, Zenon DEF Suppressed
    <2> QED
      BY <1>2, <1>3, <2>1, <2>3, <2>4, <2>5, Zenon DEF AlertInv
  <1>7. CASE RollbackEvaluation(e)
    <2>1. rolledBack' = rolledBack + 1 /\ rolledBack < MaxRollbacks /\ UNCHANGED <<world, deliveries>>
      BY <1>7, Zenon DEF RollbackEvaluation
    <2>2. AlertTypes'
      BY <1>1, <1>2, <1>3, <1>5, <2>1, AlertAssumption, SMTT(20) DEF AlertTypes, AlertTypeOK
    <2>3. AcceptedMeansReceived'
      BY <1>2, <2>1, Zenon DEF AlertInv, AcceptedMeansReceived
    <2>4. \A p \in Payloads : mailbox'[p] <= rolledBack'
      BY <1>2, <1>5, <2>1, SMTT(20) DEF AlertInv
    <2> QED
      BY <1>3, <2>2, <2>3, <2>4, Zenon DEF AlertInv
  <1> QED
    BY <1>6, <1>7, Zenon

\* The registers move only while no evaluation of the kind runs, except for the
\* liquidity positions; the next window starts with an empty record.
LEMMA OutsideKeepsAlertInv ==
  ASSUME AlertInv, CreatePostgresAlertPolicy \/ RegistersChange \/ WindowPasses
  PROVE  AlertInv'
  <1>1. AlertTypes /\ world \in World
    BY Zenon DEF AlertInv, AlertTypes
  <1>2. CASE CreatePostgresAlertPolicy
    <2>1. subscribed' = TRUE /\ UNCHANGED <<kind, world, deliveries, evaluation, mailbox, rolledBack>>
      BY <1>2, Zenon DEF CreatePostgresAlertPolicy
    <2>2. AlertTypes'
      BY <1>1, <2>1, Zenon DEF AlertTypes, AlertTypeOK
    <2> QED
      BY <2>1, <2>2, Zenon DEF AlertInv, AcceptedMeansReceived, Suppressed, Running
  <1>3. CASE RegistersChange
    <2>1. /\ Quiet \/ kind # "deadline"
          /\ UNCHANGED <<kind, subscribed, deliveries, evaluation, mailbox, rolledBack>>
      BY <1>3, Zenon DEF RegistersChange, WorldMoves
    <2>2. world' \in World /\ world'.reminded = world.reminded /\ (world.near => world'.near)
      BY <1>1, <1>3, Zenon DEF RegistersChange, WorldMoves, World
    <2>3. AlertTypes'
      BY <1>1, <2>1, <2>2, Zenon DEF AlertTypes, AlertTypeOK
    <2>4. ASSUME NEW p \in Payloads, Suppressed(p) PROVE Suppressed(p)'
      BY <2>1, <2>2, <2>4, Zenon DEF Suppressed, Running
    <2> QED
      BY <2>1, <2>2, <2>3, <2>4, Zenon DEF AlertInv, AcceptedMeansReceived, Running, Quiet
  <1>4. CASE WindowPasses
    <2>1. /\ Quiet /\ deliveries' = {} /\ rolledBack' = 0 /\ mailbox' = [p \in Payloads |-> 0]
          /\ world' = [world EXCEPT !.reminded = FALSE] /\ UNCHANGED <<kind, subscribed, evaluation>>
      BY <1>4, Zenon DEF WindowPasses
    <2>2. world' \in World
      BY <1>1, <2>1, Zenon DEF World
    <2>3. AlertTypes'
      BY <1>1, <2>1, <2>2, AlertAssumption, SMTT(20) DEF AlertTypes, AlertTypeOK
    <2> QED
      BY <2>1, <2>3, SMTT(20) DEF AlertInv, AcceptedMeansReceived, Running, Quiet
  <1> QED
    BY <1>2, <1>3, <1>4, Zenon

\* Whatever is lost or rolled back, and however evaluations are repeated, a row
\* in state accepted is about a notice the owner has, and the owner gets a
\* finding once in a window, plus once for each rollback (operationalAlerts.ts).
THEOREM AlertsSafe == AlertSpec => []AlertSafety
  <1>1. AlertInit => AlertInv
    <2> SUFFICES ASSUME AlertInit PROVE AlertInv
      OBVIOUS
    <2>1. world \in World
      BY AlertAssumption, SMTT(20) DEF AlertInit, World
    <2>2. subscribed \in BOOLEAN /\ kind \in Kinds
      BY Zenon DEF AlertInit
    <2>3. /\ rolledBack \in 0..MaxRollbacks /\ deliveries \subseteq Delivery
          /\ mailbox \in [Payloads -> 0..MaxNotices]
      BY AlertAssumption, SMTT(20) DEF AlertInit
    <2>4. evaluation \in [Evaluators -> Transactions \cup {NotRunning}]
      BY Zenon DEF AlertInit
    <2>5. AlertTypes
      BY <2>1, <2>2, <2>3, <2>4, Zenon DEF AlertTypes, AlertTypeOK
    <2> QED
      BY <2>5, SMTT(20) DEF AlertInit, AlertInv, AcceptedMeansReceived, Running
  <1>2. AlertInv /\ [AlertNext]_alertVars => AlertInv'
    <2> SUFFICES ASSUME AlertInv, [AlertNext]_alertVars PROVE AlertInv'
      OBVIOUS
    <2>1. CASE UNCHANGED alertVars
      BY <2>1, Zenon DEF alertVars, AlertInv, AlertTypes, AlertTypeOK, AcceptedMeansReceived, Suppressed, Running
    <2>2. CASE AlertNext
      BY <2>2, EvaluateKeepsInv, NotifyKeepsInv, SkipKeepsInv, EndKeepsInv, OutsideKeepsAlertInv, Zenon
         DEF AlertNext
    <2> QED
      BY <2>1, <2>2, Zenon
  <1>3. AlertInv => AlertSafety
    <2> SUFFICES ASSUME AlertInv PROVE AlertSafety
      OBVIOUS
    <2>1. AlertTypeOK /\ AcceptedMeansReceived
      BY Zenon DEF AlertInv, AlertTypes
    <2>2. DuplicatesOnlyAfterRollback
      BY <2>1, AlertAssumption, SMTT(20) DEF AlertInv, AlertTypeOK, DuplicatesOnlyAfterRollback
    <2> QED
      BY <2>1, <2>2, Zenon DEF AlertSafety
  <1> QED
    BY <1>1, <1>2, <1>3, PTL DEF AlertSpec

-----------------------------------------------------------------------------
-----------------------------------------------------------------------------
(* The regulatory registers. *)

\* What an open assessment has read is still recorded; a CBN assessment, open or
\* recorded, is about a dossier whose track no longer changes.
AssessmentInv ==
  /\ ReadinessTypeOK
  /\ reading # NoReading => reading[1] \subseteq recorded
  /\ book = "cbn" /\ (reading # NoReading \/ assessed # {}) => dossier # "none"
  /\ \A x \in assessed :
       /\ x.outcome = "complete" => Missing(recorded) = {} /\ (book = "cbn" => planned)
       /\ x.missing = {} /\ x.outcome = "incomplete" => book = "cbn"

\* Evidence, a plan or a profile more keeps the invariant.
LEMMA RecordingKeepsInv ==
  ASSUME AssessmentInv, UNCHANGED <<book, reading, assessed>>, ReadinessTypeOK',
         dossier' = dossier \/ dossier = "none", recorded \subseteq recorded', planned => planned'
  PROVE  AssessmentInv'
  <1>1. assessed # {} => RequiredCategories' = RequiredCategories
    BY Zenon DEF AssessmentInv, RequiredCategories
  <1>2. \A x \in assessed : Missing(recorded) = {} => Missing(recorded)' = {}
    BY <1>1, Zenon DEF Missing
  <1>3. book = "cbn" /\ (reading # NoReading \/ assessed # {}) => dossier' # "none"
    BY Zenon DEF AssessmentInv
  <1> QED
    BY <1>2, <1>3, Zenon DEF AssessmentInv

\* The two statements of an assessment keep the invariant: what the first read is
\* still there when the second decides.
LEMMA AssessKeepsInv ==
  ASSUME AssessmentInv, NEW b, Assess(b), UNCHANGED book, b = "cbn" => dossier # "none"
  PROVE  AssessmentInv'
  <1> USE DEF AssessmentInv, Assess, ReadinessTypeOK
  <1>0. /\ RequiredCategories' = RequiredCategories
        /\ \A S : Missing(S)' = RequiredCategories \ S
        /\ \A S : Missing(S) = RequiredCategories \ S
    BY Zenon DEF RequiredCategories, Missing
  <1>1. CASE reading = NoReading
    BY <1>0, <1>1, SMTT(20)
  <1>2. CASE reading # NoReading
    <2> DEFINE new == [missing |-> Missing(reading[1]), outcome |-> Outcome(reading[1], planned)]
    <2>1. assessed' = assessed \cup {new} /\ reading' = NoReading
      BY <1>2, Zenon
    <2>2. /\ new.outcome = "complete" => Missing(recorded) = {} /\ (book = "cbn" => planned)
          /\ new.missing = {} /\ new.outcome = "incomplete" => book = "cbn"
      BY <1>0, <1>2, Zenon DEF Outcome
    <2> HIDE DEF new
    <2> QED
      BY <1>0, <2>1, <2>2, Zenon
  <1> QED
    BY <1>1, <1>2, Zenon

\* An assessment recorded complete stays true of its register, although it read the
\* evidence and the plan in two statements while others recorded
\* (assessCbnSandboxEvidenceCompleteness, assessVaspTravelRuleRoute).
THEOREM AssessmentSafe == ReadinessSpec => []AssessmentSafety
  <1>1. ReadinessInit => AssessmentInv
    BY Zenon DEF ReadinessInit, AssessmentInv, ReadinessTypeOK, Tracks
  <1>2. AssessmentInv /\ [ReadinessNext]_readinessVars => AssessmentInv'
    <2> SUFFICES ASSUME AssessmentInv, [ReadinessNext]_readinessVars PROVE AssessmentInv'
      OBVIOUS
    <2>1. ASSUME UNCHANGED book, \E t \in Tracks : CreateCbnSandboxDossier(t) PROVE AssessmentInv'
      BY <2>1, RecordingKeepsInv, SMTT(20) DEF CreateCbnSandboxDossier, AssessmentInv, ReadinessTypeOK
    <2>2. ASSUME UNCHANGED book, CreateCbnSandboxTestPlan PROVE AssessmentInv'
      BY <2>2, RecordingKeepsInv, Zenon DEF CreateCbnSandboxTestPlan, AssessmentInv, ReadinessTypeOK
    <2>3. ASSUME UNCHANGED book, NEW b \in Books, RecordProfile(b) PROVE AssessmentInv'
      BY <2>3, RecordingKeepsInv, Zenon DEF RecordProfile, AssessmentInv, ReadinessTypeOK
    <2>4. ASSUME UNCHANGED book, NEW b, NEW c \in SharedCategories \cup VaspCategories, RecordInBook(b, c)
          PROVE  AssessmentInv'
      BY <2>4, RecordingKeepsInv, Zenon DEF RecordInBook, AssessmentInv, ReadinessTypeOK
    <2>5. CASE UNCHANGED readinessVars
      BY <2>5, RecordingKeepsInv, Zenon DEF readinessVars, AssessmentInv, ReadinessTypeOK
    <2> QED
      BY <2>1, <2>2, <2>3, <2>4, <2>5, AssessKeepsInv, Zenon
         DEF ReadinessNext, ReadinessStep, Books,
             CreateVaspRegulatoryProfile, CreateVaspOffshoreCounterpartyProfile, CreateImtoReadinessProfile,
             RecordCbnSandboxEvidence, RecordVaspSupervisoryEvidence, RecordVaspTravelRuleEvidence,
             RecordVaspOffshoreCounterpartyEvidence, RecordImtoReadinessEvidence,
             AssessCbnSandboxEvidenceCompleteness, AssessVaspTravelRuleRoute,
             AssessVaspOffshoreCounterpartyProfile, AssessImtoReadiness
  <1>3. AssessmentInv => AssessmentSafety
    BY Zenon DEF AssessmentInv, AssessmentSafety, AssessmentNeverOverstates, GetCbnSandboxReadiness, Outcome
  <1> QED
    BY <1>1, <1>2, <1>3, PTL DEF ReadinessSpec

-----------------------------------------------------------------------------
-----------------------------------------------------------------------------
(* The segregation-of-duties monitor. *)

Exceptions == (Areas \X {"self_verification", "invalid_state"}) \cup {<<"dossier", "invalid_dossier_total">>}
Round == [pc : {"idle", "query", "record", "raise", "notify"}, found : SUBSET Exceptions]

MonitorTypes ==
  /\ item \in [Areas -> AssuranceRow]
  /\ edited \in BOOLEAN
  /\ leader \in Replicas \cup {NobodyYet}
  /\ round \in [Replicas -> Round]
  /\ runs \subseteq {"clean", "exceptions_detected", "indeterminate"}

\* A row as the handlers leave it: the people it names fit its status.
WrittenByHandlers(r) ==
  /\ r.by = NobodyYet <=> r.status \in {"absent", "open"}
  /\ r.verifier # NobodyYet => r.status \in {"externally_verified"} /\ r.verifier # r.by
  /\ r.status = "externally_verified" => r.verifier # NobodyYet
  /\ r.rejected <=> r.status = "rejected"

\* The register is initialised in one transaction.
AllOrNone == \A a, b \in Areas : item[a].status = "absent" => item[b].status = "absent"

\* A round about to notify created the alert row, which nobody has notified of and
\* no other round is about to.
NoticeInv ==
  /\ \A r \in Replicas : round[r].pc = "notify" =>
       round[r].found \in raised /\ round[r].found \notin DOMAIN notices
  /\ \A r, q \in Replicas :
       round[r].pc = "notify" /\ round[q].pc = "notify" /\ round[r].found = round[q].found => r = q
  /\ \A d \in DOMAIN notices : notices[d] = 1 /\ d \in raised

MonitorInv ==
  /\ MonitorTypes
  /\ ~edited => AllOrNone /\ \A a \in Areas : WrittenByHandlers(item[a])
  /\ NoticeInv

\* Rows that only the handlers wrote give the monitor nothing to report.
LEMMA NoExceptionFound ==
  ASSUME MonitorTypes, AllOrNone, \A a \in Areas : WrittenByHandlers(item[a])
  PROVE  QueryViolations = {}
  <1>1. \A a \in Areas : ~SelfVerified(item[a]) /\ ~InvalidState(item[a])
    BY Zenon DEF WrittenByHandlers, SelfVerified, InvalidState
  <1>2. ~InvalidTotal
    BY Zenon DEF AllOrNone, InvalidTotal
  <1> QED
    BY <1>1, <1>2, Zenon DEF QueryViolations

\* A handler that writes one row the way it must keeps the invariant.
LEMMA RowKeepsInv ==
  ASSUME MonitorInv, UNCHANGED registerOnly, NEW a \in Areas, NEW r \in AssuranceRow,
         item' = [item EXCEPT ![a] = r], edited' \in BOOLEAN, edited => edited',
         ~edited' => WrittenByHandlers(r) /\ item[a].status # "absent" /\ r.status # "absent"
  PROVE  MonitorInv'
  <1>1. MonitorTypes'
    BY Zenon DEF MonitorInv, MonitorTypes, registerOnly
  <1>2. ASSUME ~edited' PROVE AllOrNone' /\ \A x \in Areas : WrittenByHandlers(item'[x])
    BY <1>2, Zenon DEF MonitorInv, MonitorTypes, AllOrNone
  <1>3. \A x \in Areas : WrittenByHandlers(item'[x]) => WrittenByHandlers(item[x])'
    BY Zenon DEF WrittenByHandlers
  <1>4. NoticeInv'
    BY Zenon DEF MonitorInv, NoticeInv, registerOnly
  <1> QED
    BY <1>1, <1>2, <1>3, <1>4, Zenon DEF MonitorInv

\* The operations of the register keep the invariant.
LEMMA RegisterKeepsInv ==
  ASSUME MonitorInv, NEW a \in Areas,
         \/ \E who \in Submitters : RecordReadinessAssuranceEvidence(a, who) \/ VerifyReadinessAssuranceEvidence(a, who)
         \/ RejectReadinessAssuranceEvidence(a) \/ RowEditedElsewhere(a)
  PROVE  MonitorInv'
  <1>0. item \in [Areas -> AssuranceRow] /\ item[a] \in AssuranceRow /\ edited \in BOOLEAN
    BY Zenon DEF MonitorInv, MonitorTypes
  <1>w. ~edited => WrittenByHandlers(item[a])
    BY Zenon DEF MonitorInv
  <1>1. ASSUME NEW who \in Submitters, RecordReadinessAssuranceEvidence(a, who) PROVE MonitorInv'
    <2> DEFINE r == [status |-> "evidence_recorded", by |-> who, verifier |-> NobodyYet, rejected |-> FALSE]
    <2>1. r \in AssuranceRow /\ WrittenByHandlers(r) /\ r.status # "absent"
      BY MonitorAssumption, Zenon DEF AssuranceRow, AssuranceStatus, WrittenByHandlers
    <2>2. item' = [item EXCEPT ![a] = r] /\ edited' = edited /\ item[a].status # "absent" /\ UNCHANGED registerOnly
      BY <1>1, Zenon DEF RecordReadinessAssuranceEvidence, AwaitsEvidence
    <2> HIDE DEF r
    <2> QED
      BY <1>0, <2>1, <2>2, RowKeepsInv, Zenon
  <1>2. ASSUME NEW who \in Submitters, VerifyReadinessAssuranceEvidence(a, who) PROVE MonitorInv'
    <2> DEFINE r == [item[a] EXCEPT !.status = "externally_verified", !.verifier = who, !.rejected = FALSE]
    <2>1. r \in AssuranceRow
      BY <1>0, Zenon DEF AssuranceRow, AssuranceStatus
    <2>2. /\ r.status = "externally_verified" /\ r.verifier = who /\ r.rejected = FALSE /\ r.by = item[a].by
      BY <1>0, Zenon DEF AssuranceRow
    <2>3. ~edited => WrittenByHandlers(r)
      BY <1>2, <1>w, <2>2, MonitorAssumption, Zenon DEF WrittenByHandlers, VerifyReadinessAssuranceEvidence, VerifiableBy
    <2>4. item' = [item EXCEPT ![a] = r] /\ edited' = edited /\ item[a].status # "absent" /\ UNCHANGED registerOnly
      BY <1>2, Zenon DEF VerifyReadinessAssuranceEvidence, VerifiableBy
    <2> HIDE DEF r
    <2> QED
      BY <1>0, <2>1, <2>2, <2>3, <2>4, RowKeepsInv, Zenon
  <1>3. CASE RejectReadinessAssuranceEvidence(a)
    <2> DEFINE r == [item[a] EXCEPT !.status = "rejected", !.rejected = TRUE]
    <2>1. r \in AssuranceRow
      BY <1>0, Zenon DEF AssuranceRow, AssuranceStatus
    <2>2. /\ r.status = "rejected" /\ r.verifier = item[a].verifier /\ r.rejected = TRUE /\ r.by = item[a].by
      BY <1>0, Zenon DEF AssuranceRow
    <2>3. ~edited => WrittenByHandlers(r)
      BY <1>3, <1>w, <2>2, Zenon DEF WrittenByHandlers, RejectReadinessAssuranceEvidence
    <2>4. item' = [item EXCEPT ![a] = r] /\ edited' = edited /\ item[a].status # "absent" /\ UNCHANGED registerOnly
      BY <1>3, Zenon DEF RejectReadinessAssuranceEvidence
    <2> HIDE DEF r
    <2> QED
      BY <1>0, <2>1, <2>2, <2>3, <2>4, RowKeepsInv, Zenon
  <1>4. CASE RowEditedElsewhere(a)
    <2> DEFINE r == [item[a] EXCEPT !.status = "externally_verified", !.verifier = item[a].by, !.rejected = FALSE]
    <2>1. r \in AssuranceRow
      BY <1>0, Zenon DEF AssuranceRow, AssuranceStatus
    <2>2. item' = [item EXCEPT ![a] = r] /\ edited' = TRUE /\ UNCHANGED registerOnly
      BY <1>4, Zenon DEF RowEditedElsewhere
    <2> HIDE DEF r
    <2> QED
      BY <1>0, <2>1, <2>2, RowKeepsInv, Zenon
  <1> QED
    BY <1>1, <1>2, <1>3, <1>4, Zenon

\* A step of a round that does not come to notify keeps the invariant.
LEMMA QuietRoundKeepsInv ==
  ASSUME MonitorInv, UNCHANGED <<item, edited, policyOn, notices, raised>>,
         leader' \in Replicas \cup {NobodyYet}, runs' \subseteq {"clean", "exceptions_detected", "indeterminate"},
         NEW r \in Replicas, NEW k \in Round, k.pc # "notify" \/ k = round[r], round' = [round EXCEPT ![r] = k]
  PROVE  MonitorInv'
  <1>1. round \in [Replicas -> Round] /\ round' \in [Replicas -> Round]
    BY Zenon DEF MonitorInv, MonitorTypes
  <1>2. MonitorTypes'
    BY <1>1, Zenon DEF MonitorInv, MonitorTypes
  <1>3. \A q \in Replicas : round'[q].pc = "notify" => round'[q] = round[q]
    BY <1>1, Zenon
  <1>4. NoticeInv'
    BY <1>3, SMTT(20) DEF MonitorInv, NoticeInv
  <1> QED
    BY <1>2, <1>4, Zenon DEF MonitorInv, AllOrNone, WrittenByHandlers

\* The steps of a round keep the invariant: only the insert that created the alert
\* row goes on to notify.
LEMMA RoundKeepsInv ==
  ASSUME MonitorInv, NEW r \in Replicas,
         RunSegregationOfDutiesMonitorRound(r) \/ FailRound(r) \/ ReplicaStops(r)
  PROVE  MonitorInv'
  <1>0. /\ MonitorTypes /\ NoticeInv /\ round \in [Replicas -> Round] /\ round[r] \in Round
        /\ leader \in Replicas \cup {NobodyYet} /\ Released(r) \in Replicas \cup {NobodyYet}
        /\ runs \subseteq {"clean", "exceptions_detected", "indeterminate"}
    BY Zenon DEF MonitorInv, MonitorTypes, Released
  <1>1. Idle \in Round /\ Idle.pc # "notify"
    BY Zenon DEF Idle, Round
  <1> DEFINE At(pc) == [round[r] EXCEPT !.pc = pc]
  <1>3. \A pc \in {"query", "raise", "notify"} :
          At(pc) \in Round /\ At(pc).pc = pc /\ At(pc).found = round[r].found
    BY <1>0, Zenon DEF Round
  <1>4. /\ \A pc : [round EXCEPT ![r].pc = pc] = [round EXCEPT ![r] = At(pc)]
        /\ "query" # "notify" /\ "raise" # "notify" /\ "record" # "notify"
    BY Zenon
  <1> HIDE DEF At
  <1>5. CASE AcquireLeader(r)
    BY <1>0, <1>3, <1>4, <1>5, QuietRoundKeepsInv, Zenon DEF AcquireLeader
  <1>6. CASE RunQuery(r)
    <2>1. QueryViolations \in SUBSET Exceptions
      BY SMTT(20) DEF QueryViolations, Exceptions
    <2> DEFINE k == [round[r] EXCEPT !.pc = "record", !.found = QueryViolations]
    <2>2. k \in Round /\ k.pc = "record"
      BY <1>0, <2>1, Zenon DEF Round
    <2>3. round' = [round EXCEPT ![r] = k]
      BY <1>6, Zenon DEF RunQuery
    <2> HIDE DEF k
    <2> QED
      BY <1>0, <1>4, <1>6, <2>2, <2>3, QuietRoundKeepsInv, Zenon DEF RunQuery
  <1>7. CASE RecordEvaluation(r)
    <2>1. /\ runs' \subseteq {"clean", "exceptions_detected", "indeterminate"}
          /\ leader' \in Replicas \cup {NobodyYet}
      BY <1>0, <1>7, Zenon DEF RecordEvaluation
    <2>2. round' = [round EXCEPT ![r] = Idle] \/ round' = [round EXCEPT ![r] = At("raise")]
      BY <1>4, <1>7, Zenon DEF RecordEvaluation
    <2>3. UNCHANGED <<item, edited, policyOn, notices, raised>>
      BY <1>7, Zenon DEF RecordEvaluation
    <2> QED
      BY <1>1, <1>3, <1>4, <2>1, <2>2, <2>3, QuietRoundKeepsInv, Zenon
  <1>8. CASE FailRound(r)
    BY <1>0, <1>1, <1>8, QuietRoundKeepsInv, Zenon DEF FailRound
  <1>9. CASE ReplicaStops(r)
    <2>1. round' = [round EXCEPT ![r] = round[r]] \/ round' = [round EXCEPT ![r] = Idle]
      BY <1>0, <1>9, Zenon DEF ReplicaStops
    <2> QED
      BY <1>0, <1>1, <1>9, <2>1, QuietRoundKeepsInv, Zenon DEF ReplicaStops
  <1>10. CASE RaiseExceptionAlert(r)
    <2>1. CASE policyOn /\ round[r].found \notin raised
      <3>1. /\ round' = [round EXCEPT ![r] = At("notify")]
            /\ raised' = raised \cup {round[r].found} /\ leader' = leader
            /\ UNCHANGED <<item, edited, policyOn, runs, notices, faults>>
        BY <1>4, <1>10, <2>1, Zenon DEF RaiseExceptionAlert
      <3>2. round' \in [Replicas -> Round]
        BY <1>0, <1>3, <3>1, Zenon
      <3>3. MonitorTypes'
        BY <1>0, <3>1, <3>2, Zenon DEF MonitorTypes
      <3>4. NoticeInv'
        BY <1>0, <1>3, <2>1, <3>1, ZenonT(40) DEF NoticeInv
      <3> QED
        BY <3>1, <3>3, <3>4, Zenon DEF MonitorInv, AllOrNone, WrittenByHandlers
    <2>2. CASE ~(policyOn /\ round[r].found \notin raised)
      BY <1>0, <1>1, <1>10, <2>2, QuietRoundKeepsInv, Zenon DEF RaiseExceptionAlert
    <2> QED
      BY <2>1, <2>2, Zenon
  <1>11. CASE DeliverExceptionAlert(r)
    <2>1. /\ round[r].pc = "notify" /\ round' = [round EXCEPT ![r] = Idle] /\ leader' = Released(r)
          /\ round[r].found \notin DOMAIN notices /\ round[r].found \in raised
          /\ UNCHANGED <<item, edited, policyOn, runs, raised, faults>>
      BY <1>0, <1>11, Zenon DEF DeliverExceptionAlert, NoticeInv
    <2>2. notices' = [x \in DOMAIN notices \cup {round[r].found} |-> IF x = round[r].found THEN 1 ELSE notices[x]]
      BY <1>11, <2>1, SMTT(20) DEF DeliverExceptionAlert
    <2>3. MonitorTypes'
      BY <1>0, <1>1, <2>1, Zenon DEF MonitorTypes
    <2>4. NoticeInv'
      BY <1>0, <1>1, <2>1, <2>2, Zenon DEF NoticeInv
    <2> QED
      BY <2>1, <2>3, <2>4, Zenon DEF MonitorInv, AllOrNone, WrittenByHandlers
  <1> QED
    BY <1>5, <1>6, <1>7, <1>8, <1>9, <1>10, <1>11, Zenon DEF RunSegregationOfDutiesMonitorRound

\* The handlers of the assurance register never write what the monitor reports, and
\* a set of exceptions is notified at most once, although a lost lock session lets
\* two replicas evaluate at a time (vaspReadinessAssurance.ts,
\* segregationOfDutiesMonitor.ts).
THEOREM MonitorSafe == MonitorSpec => []MonitorSafety
  <1>1. MonitorInit => MonitorInv
    <2> SUFFICES ASSUME MonitorInit PROVE MonitorInv
      OBVIOUS
    <2>1. MonitorTypes
      <3>1. [status |-> "absent", by |-> NobodyYet, verifier |-> NobodyYet, rejected |-> FALSE] \in AssuranceRow
        BY Zenon DEF AssuranceRow, AssuranceStatus
      <3>2. Idle \in Round
        BY Zenon DEF Idle, Round
      <3> QED
        BY <3>1, <3>2, Zenon DEF MonitorInit, MonitorTypes
    <2>2. AllOrNone /\ \A a \in Areas : WrittenByHandlers(item[a])
      BY Zenon DEF MonitorInit, AllOrNone, WrittenByHandlers
    <2>3. NoticeInv
      BY Zenon DEF MonitorInit, NoticeInv, Idle
    <2> QED
      BY <2>1, <2>2, <2>3, Zenon DEF MonitorInv
  <1>2. MonitorInv /\ [MonitorNext]_monitorVars => MonitorInv'
    <2> SUFFICES ASSUME MonitorInv, [MonitorNext]_monitorVars PROVE MonitorInv'
      OBVIOUS
    <2>1. CASE InitialiseReadinessAssurance
      BY <2>1, SMTT(20) DEF InitialiseReadinessAssurance, registerOnly, MonitorInv, MonitorTypes, NoticeInv, AllOrNone,
           WrittenByHandlers, AssuranceRow, AssuranceStatus
    <2>2. CASE PolicyEnabled \/ UNCHANGED monitorVars
      <3>1. UNCHANGED <<item, edited, leader, round, runs, raised, notices>>
        BY <2>2, Zenon DEF PolicyEnabled, monitorVars
      <3> QED
        BY <3>1, Zenon DEF MonitorInv, MonitorTypes, NoticeInv, AllOrNone, WrittenByHandlers
    <2> QED
      BY <2>1, <2>2, RegisterKeepsInv, RoundKeepsInv, Zenon DEF MonitorNext
  <1>3. MonitorInv => MonitorSafety
    BY NoExceptionFound, SMTT(20) DEF MonitorInv, MonitorSafety, MonitorTypes, MonitorTypeOK, HandlersLeaveNoException,
         NoticeInv, NotifiedOnce
  <1> QED
    BY <1>1, <1>2, <1>3, PTL DEF MonitorSpec
=============================================================================
