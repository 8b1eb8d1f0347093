--------------------------- MODULE OperatorAccess ---------------------------
(***************************************************************************)
(* How one person comes to hold, and loses, an operating role: the         *)
(* identity-provider account, the core grants (user_role_assignments, one  *)
(* row per grant, revoked and never deleted), the external assignment      *)
(* (operator_role_assignments, one row per subject), the queue of people   *)
(* waiting on a role (operator_access_requests), and the administrators'   *)
(* calls that change them.  Every query of these files is keyed by the     *)
(* subject, so one subject stands for all of them.                         *)
(*                                                                         *)
(* A call that reads the active grants FOR UPDATE and writes afterwards    *)
(* is two steps: rows that a concurrent call revoked are skipped when the  *)
(* lock is granted, and rows inserted since the read are not seen.         *)
(***************************************************************************)
EXTENDS ConsoleRoles, Naturals, Sequences, FiniteSets

CONSTANTS
  AdminCalls,      \* administrators' requests that may be in progress at once
  GrantedRoles,    \* the core roles that calls of an instance ask for
  MaxGrants        \* bound: rows ever inserted into user_role_assignments

ASSUME AccessAssumption == GrantedRoles \subseteq AuditorProcedure /\ MaxGrants \in Nat

VARIABLES
  account,    \* identity provider: "none", "enabled" or "disabled"
  grants,     \* user_role_assignments of the subject, oldest first
  external,   \* operator_role_assignments: "none", "assigned" or "suspended"
  access,     \* operator_access_requests: "none", "open" or "resolved"
  calls,      \* administrators' calls in progress
  attempt,    \* an access attempt was sent and its write is outstanding
  cutOff      \* deactivated, with no other role call since its first read

accessVars == <<account, grants, external, access, calls, attempt,
                cutOff>>

(* legacyOperatingRoles in the order of role::text. *)
LegacyOperatingRoles ==
  <<"admin", "auditor", "compliance_officer", "treasury_operator">>

NoCall == [step |-> "idle", role |-> "none", seen |-> {}]

Active == {i \in DOMAIN grants : grants[i].active}

ActiveRoles == {grants[i].role : i \in Active}

(* resolvePostgresOperatingRole: an assigned external role first, then the *)
(* alphabetically first active core role.                                  *)
ResolvePostgresOperatingRole ==
  IF external = "assigned" THEN "provider_contact"
  ELSE IF ActiveRoles = {} THEN "none"
  ELSE LegacyOperatingRoles[CHOOSE n \in 1..4 :
         /\ LegacyOperatingRoles[n] \in ActiveRoles
         /\ \A k \in 1..(n - 1) : LegacyOperatingRoles[k] \notin ActiveRoles]

OperatorAccessInit ==
  /\ account \in {"none", "enabled"}
  /\ grants = <<>>
  /\ external = "none"
  /\ access = "none"
  /\ calls = [c \in AdminCalls |-> NoCall]
  /\ attempt = FALSE
  /\ cutOff = FALSE

(* createContext: the role is resolved on every request; a person without *)
(* one is answered as pending and an attempt is sent without waiting.  The *)
(* session cookie outlives the disabling of the account.                   *)
CreateContext ==
  /\ account # "none"
  /\ attempt' = (attempt \/ ResolvePostgresOperatingRole = "none")
  /\ UNCHANGED <<account, grants, external, access, calls, cutOff>>

(* Plausible bug: the write only refreshes a request that exists.          *)
RecordAttemptUpdateOnly ==
  /\ attempt
  /\ attempt' = FALSE
  /\ UNCHANGED <<account, grants, external, access, calls, cutOff>>

(* recordOperatorAccessAttempt: inserts, or refreshes an unresolved        *)
(* request; a resolved one is left as it is.                               *)
RecordOperatorAccessAttempt ==
  /\ attempt
  /\ attempt' = FALSE
  /\ access' = IF access = "none" THEN "open" ELSE access
  /\ UNCHANGED <<account, grants, external, calls, cutOff>>

(* The attempt's write fails; its error is swallowed.                      *)
AttemptLost ==
  /\ attempt
  /\ attempt' = FALSE
  /\ UNCHANGED <<account, grants, external, access, calls, cutOff>>

(* A call that adds a role starts.                                         *)
Begins(c, step, r) ==
  /\ calls[c] = NoCall
  /\ calls' = [calls EXCEPT ![c] = [step |-> step, role |-> r, seen |-> {}]]
  /\ cutOff' = FALSE

Ends(c) == calls' = [calls EXCEPT ![c] = NoCall]

(* The queue is resolved next; the call needs nothing else.                *)
Resolves(c) == calls' = [calls EXCEPT ![c] = [NoCall EXCEPT !.step = "resolve"]]

(* onboardOperator, first part: createOperatorAccount, refused with 409    *)
(* when the account exists; the customer record follows.                   *)
OnboardOperator(c, r) ==
  /\ account = "none"
  /\ account' = "enabled"
  /\ Begins(c, "onboarding", r)
  /\ UNCHANGED <<grants, external, access, attempt>>

(* grantOperatingRole, the read: an active grant of the same role is       *)
(* reused, otherwise an insert follows.                                    *)
GrantLookup(c, r) ==
  /\ \/ calls[c] = NoCall
     \/ calls[c].step = "onboarding" /\ calls[c].role = r
  /\ IF r \in ActiveRoles THEN Resolves(c)
     ELSE calls' = [calls EXCEPT ![c] = [step |-> "insert", role |-> r, seen |-> {}]]
  /\ cutOff' = FALSE
  /\ UNCHANGED <<account, grants, external, access, attempt>>

(* grantOperatingRole, the insert and the commit.                          *)
GrantOperatingRole(c) ==
  /\ calls[c].step = "insert"
  /\ Len(grants) < MaxGrants
  /\ grants' = Append(grants, [role |-> calls[c].role, active |-> TRUE])
  /\ Resolves(c)
  /\ cutOff' = FALSE
  /\ UNCHANGED <<account, external, access, attempt>>

(* assignExternalStakeholder: one transaction, then the queue.             *)
AssignExternalStakeholder(c) ==
  /\ Begins(c, "resolve", "none")
  /\ external' = "assigned"
  /\ UNCHANGED <<account, grants, access, attempt>>

(* resolveOperatorAccessRequest: outside the grant's transaction.          *)
ResolveOperatorAccessRequest(c) ==
  /\ calls[c].step = "resolve"
  /\ access' = IF access = "open" THEN "resolved" ELSE access
  /\ Ends(c)
  /\ UNCHANGED <<account, grants, external, attempt, cutOff>>

(* UNIQUE (user_subject, role, revoked_at): one transaction revokes all    *)
(* its rows at one now(), so two of the same role collide.                 *)
Collide(rows) == \E i, j \in rows : i # j /\ grants[i].role = grants[j].role

Revoke(rows) == [i \in DOMAIN grants |->
                   IF i \in rows THEN [grants[i] EXCEPT !.active = FALSE] ELSE grants[i]]

ChangeBegins(c, r) ==
  /\ calls[c] = NoCall
  /\ calls' = [calls EXCEPT ![c] = [step |-> "change", role |-> r, seen |-> Active]]
  /\ cutOff' = FALSE
  /\ UNCHANGED <<account, grants, external, access, attempt>>

(* changeOperatorRole: revokes the other core grants it saw, inserts the   *)
(* new one unless it saw it; external assignments are not touched.         *)
ChangeOperatorRole(c) ==
  LET locked == calls[c].seen \cap Active
      others == {i \in locked : grants[i].role # calls[c].role}
      kept   == \E i \in locked : grants[i].role = calls[c].role
      left   == Revoke(others)
  IN /\ calls[c].step = "change"
     /\ Ends(c)
     /\ IF Collide(others) THEN UNCHANGED grants
        ELSE /\ kept \/ Len(grants) < MaxGrants
             /\ grants' = IF kept THEN left
                          ELSE Append(left, [role |-> calls[c].role, active |-> TRUE])
     /\ cutOff' = FALSE
     /\ UNCHANGED <<account, external, access, attempt>>

(* Self-deactivation is refused before this step; cutOff is armed only when *)
(* no other call is in progress.                                           *)
DeactivateBegins(c) ==
  /\ calls[c] = NoCall
  /\ account # "none"
  /\ calls' = [calls EXCEPT ![c] = [step |-> "deactivate", role |-> "none", seen |-> Active]]
  /\ cutOff' = FALSE
  /\ UNCHANGED <<account, grants, external, access, attempt>>

(* Plausible bug: only the core grants are revoked.                        *)
DeactivateCoreOnly(c) ==
  LET locked == calls[c].seen \cap Active
  IN /\ calls[c].step = "deactivate"
     /\ ~Collide(locked)
     /\ grants' = Revoke(locked)
     /\ calls' = [calls EXCEPT ![c] = [NoCall EXCEPT !.step = "disable"]]
     /\ cutOff' = (\A d \in AdminCalls \ {c} : calls[d] = NoCall)
     /\ UNCHANGED <<account, external, access, attempt>>

(* deactivateOperator, its transaction: revokes the grants it locked and   *)
(* suspends the external assignment, or rolls back.                        *)
DeactivateOperator(c) ==
  LET locked == calls[c].seen \cap Active
  IN /\ calls[c].step = "deactivate"
     /\ IF Collide(locked)
        THEN /\ Ends(c)
             /\ UNCHANGED <<grants, external, cutOff>>
        ELSE /\ grants' = Revoke(locked)
             /\ external' = IF external = "assigned" THEN "suspended" ELSE external
             /\ calls' = [calls EXCEPT ![c] = [NoCall EXCEPT !.step = "disable"]]
             /\ cutOff' = (/\ Active \subseteq locked
                           /\ \A d \in AdminCalls \ {c} : calls[d] = NoCall)
     /\ UNCHANGED <<account, access, attempt>>

(* setKeycloakAccountEnabled(false), after the commit.                     *)
SetKeycloakAccountEnabled(c) ==
  /\ calls[c].step = "disable"
  /\ account' = "disabled"
  /\ Ends(c)
  /\ UNCHANGED <<grants, external, access, attempt, cutOff>>

(* The process stops, or a statement or the identity provider fails: an    *)
(* open transaction is rolled back, a committed one stays.                 *)
CallFails(c) ==
  /\ calls[c] # NoCall
  /\ Ends(c)
  /\ UNCHANGED <<account, grants, external, access, attempt, cutOff>>

SubjectSteps == CreateContext \/ RecordOperatorAccessAttempt \/ AttemptLost

AdminSteps ==
  \E c \in AdminCalls :
    \/ \E r \in GrantedRoles : OnboardOperator(c, r) \/ GrantLookup(c, r) \/ ChangeBegins(c, r)
    \/ GrantOperatingRole(c)
    \/ AssignExternalStakeholder(c)
    \/ ResolveOperatorAccessRequest(c)
    \/ ChangeOperatorRole(c)
    \/ DeactivateBegins(c)
    \/ DeactivateOperator(c)
    \/ SetKeycloakAccountEnabled(c)
    \/ CallFails(c)

AccessNext == SubjectSteps \/ AdminSteps

(* The person keeps coming back and loads a page, and the attempt's       *)
(* write does not fail for ever.                                           *)
AccessFairness ==
  /\ WF_accessVars(CreateContext)
  /\ SF_accessVars(RecordOperatorAccessAttempt)

AccessSpec == OperatorAccessInit /\ [][AccessNext]_accessVars /\ AccessFairness

-----------------------------------------------------------------------------
(* The console.                                                            *)

(* listOperators: any external row, a suspended one included, replaces the *)
(* core role; among core grants the oldest is set last.                    *)
DirectoryRole ==
  IF external # "none" THEN "provider_contact"
  ELSE IF Active = {} THEN "none"
  ELSE grants[CHOOSE i \in Active : \A j \in Active : i <= j].role

RowActions(self) ==
  {"change"} \cup (IF account = "enabled" /\ ~self THEN {"deactivate"} ELSE {})

(* OperatorsWorkspace: administrators only; rows are the provider's        *)
(* accounts.                                                               *)
OperatorsWorkspace(role, self) ==
  IF role = "admin" /\ account # "none" THEN RowActions(self) ELSE {}

(* OnboardOperatorPanel and the queue's grant form, administrators only.   *)
OperatorOnboardingControls(role) ==
  IF role # "admin" THEN {}
  ELSE {"onboard"} \cup (IF access = "open" THEN {"grant", "assign"} ELSE {})

-----------------------------------------------------------------------------
(* Types of the rows, of the calls and of the queue.                       *)
AccessTypeOK ==
  /\ account \in {"none", "enabled", "disabled"}
  /\ grants \in Seq([role : GrantedRoles, active : BOOLEAN])
  /\ external \in {"none", "assigned", "suspended"}
  /\ access \in {"none", "open", "resolved"}
  /\ \A c \in AdminCalls :
       /\ calls[c].step \in {"idle", "onboarding", "insert", "resolve", "change",
                             "deactivate", "disable"}
       /\ calls[c].seen \subseteq DOMAIN grants

(* deactivateOperator "cuts off an operator's access": once its            *)
(* transaction has committed with no other role call in progress, no       *)
(* request resolves to a role until some later call gives one, whatever    *)
(* became of the identity-provider account and of the session cookie.      *)
DeactivationCutsOff == cutOff => ResolvePostgresOperatingRole = "none"

(* A deactivation whose roles went and whose account could not be disabled *)
(* can be finished from the console: the directory row still offers it.    *)
HalfDeactivatedCanBeFinished ==
  cutOff /\ account = "enabled" => "deactivate" \in OperatorsWorkspace("admin", FALSE)

(* Whoever the resolver gives a role is shown with one in the directory,   *)
(* from which administrators take roles away.                              *)
DirectoryShowsHolders == ResolvePostgresOperatingRole # "none" => DirectoryRole # "none"

(* operatorOnboarding.ts: a person whose onboarding failed after the       *)
(* account was created reaches the queue of people waiting once they sign  *)
(* in, unless a role reaches them first.                                   *)
NewcomerReachesQueue ==
  (account = "enabled" /\ access = "none")
     ~> (\/ "grant" \in OperatorOnboardingControls("admin")
         \/ ResolvePostgresOperatingRole # "none" \/ account = "disabled")

\* Deactivation cuts off, and one that stopped half-way can be finished from the
\* console, which shows everybody who holds a role (operatorDirectory.ts, OperatorsWorkspace.tsx).
AccessSafety ==
  /\ AccessTypeOK
  /\ DeactivationCutsOff
  /\ HalfDeactivatedCanBeFinished /\ DirectoryShowsHolders
=============================================================================
