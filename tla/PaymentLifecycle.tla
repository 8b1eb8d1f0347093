-------------------------- MODULE PaymentLifecycle --------------------------
\* Payment orders and their legs after drafting: the internal preparation
\* states an operator moves them through, and the licence authorisations a leg
\* depends on. Adding a leg holds the order's row lock between its read and its
\* insert; moving a leg holds only the leg's row lock (FOR UPDATE OF l) and reads
\* the order without locking it. Both transactions are two steps here.
EXTENDS Naturals, FiniteSets, ConsoleRoles

CONSTANTS Orders, Seqs, Counterparties,
          NoTxn            \* no open transaction on the row

VARIABLES ostat,     \* order |-> payment_orders.status
          decided,   \* orders with a policy_decision_id
          leg,       \* order |-> sequence number |-> payment_legs.status or "none"
          addLeg,    \* order |-> sequence number an open createPaymentLeg will insert, or NoTxn
          moveLeg,   \* order |-> sequence number |-> status an open transition will write, or NoTxn
          auth       \* counterparty |-> [status, current] of its licence authorisation

lifeVars == <<ostat, decided, leg, addLeg, moveLeg, auth>>

\* The internal states; no handler writes executing, partially_completed,
\* completed or failed.
InternalStatus == {"draft", "pending_policy_decision", "manual_review", "blocked", "approved", "cancelled"}

ASSUME LifeAssumption == NoTxn \notin InternalStatus

AuthStatus == {"pending_review", "verified", "expired", "suspended", "rejected"}

InternalOrderTransitions(s) ==
  CASE s = "draft"                   -> {"pending_policy_decision", "cancelled"}
    [] s = "pending_policy_decision" -> {"blocked", "manual_review", "approved", "cancelled"}
    [] s = "manual_review"           -> {"blocked", "approved", "cancelled"}
    [] s = "blocked"                 -> {"manual_review", "cancelled"}
    [] s = "approved"                -> {"cancelled"}
    [] OTHER                         -> {}

InternalLegTransitions(s) ==
  CASE s = "draft"                   -> {"pending_policy_decision", "cancelled"}
    [] s = "pending_policy_decision" -> {"blocked", "manual_review", "approved", "cancelled"}
    [] s = "manual_review"           -> {"blocked", "approved", "cancelled"}
    [] s = "blocked"                 -> {"manual_review", "cancelled"}
    [] s = "approved"                -> {"cancelled"}
    [] OTHER                         -> {}

AllowedAuthTransitions(s) ==
  CASE s = "pending_review" -> {"verified", "rejected", "suspended"}
    [] s = "verified"       -> {"expired", "suspended"}
    [] s = "suspended"      -> {"pending_review", "rejected"}
    [] s \in {"expired", "rejected"} -> {"pending_review"}
    [] OTHER                -> {}

LifeInit ==
  /\ ostat = [o \in Orders |-> "draft"]
  /\ decided = {}
  /\ leg = [o \in Orders |-> [s \in Seqs |-> "none"]]
  /\ addLeg = [o \in Orders |-> NoTxn]
  /\ moveLeg = [o \in Orders |-> [s \in Seqs |-> NoTxn]]
  /\ auth = [c \in Counterparties |-> [status |-> "none", current |-> FALSE]]

----------------------------------------------------------------------------
\* An administrator records an authorisation in any state, inside its validity
\* window or not.
CreateCounterpartyAuthorization(c, s, now) ==
  /\ auth[c].status = "none"
  /\ auth' = [auth EXCEPT ![c] = [status |-> s, current |-> now]]
  /\ UNCHANGED <<ostat, decided, leg, addLeg, moveLeg>>

TransitionCounterpartyAuthorization(c, s) ==
  /\ s \in AllowedAuthTransitions(auth[c].status)
  /\ auth' = [auth EXCEPT ![c].status = s]
  /\ UNCHANGED <<ostat, decided, leg, addLeg, moveLeg>>

\* The date passes valid_to.
AuthorizationLapses(c) ==
  /\ auth[c].current
  /\ auth' = [auth EXCEPT ![c].current = FALSE]
  /\ UNCHANGED <<ostat, decided, leg, addLeg, moveLeg>>

Authorised(c) == auth[c].status = "verified" /\ auth[c].current

----------------------------------------------------------------------------
\* createPostgresPaymentLeg up to its insert: the order row is locked and draft,
\* the counterparty has a verified, current authorisation.
CreateLegBegin(o, s, c) ==
  /\ addLeg[o] = NoTxn
  /\ ostat[o] = "draft"
  /\ Authorised(c)
  /\ addLeg' = [addLeg EXCEPT ![o] = s]
  /\ UNCHANGED <<ostat, decided, leg, moveLeg, auth>>

\* The insert and the commit; a sequence number in use is refused by the unique
\* constraint and rolls back.
CreateLegEnd(o) ==
  /\ addLeg[o] # NoTxn
  /\ leg' = [leg EXCEPT ![o][addLeg[o]] = IF @ = "none" THEN "draft" ELSE @]
  /\ addLeg' = [addLeg EXCEPT ![o] = NoTxn]
  /\ UNCHANGED <<ostat, decided, moveLeg, auth>>

\* Rollback: the connection is lost or a statement fails.
CreateLegAbort(o) ==
  /\ addLeg[o] # NoTxn
  /\ addLeg' = [addLeg EXCEPT ![o] = NoTxn]
  /\ UNCHANGED <<ostat, decided, leg, moveLeg, auth>>

\* The order is read without FOR UPDATE.
TransitionOrderUnlocked(o, t) ==
  /\ t \in InternalOrderTransitions(ostat[o])
  /\ t = "approved" => o \in decided
  /\ ostat' = [ostat EXCEPT ![o] = t]
  /\ UNCHANGED <<decided, leg, addLeg, moveLeg, auth>>

\* The order waits for the row lock an open leg insert holds.
TransitionPaymentOrder(o, t) ==
  /\ addLeg[o] = NoTxn
  /\ t \in InternalOrderTransitions(ostat[o])
  /\ t = "approved" => o \in decided
  /\ ostat' = [ostat EXCEPT ![o] = t]
  /\ UNCHANGED <<decided, leg, addLeg, moveLeg, auth>>

\* A policy decision is attached to the order from outside the control plane.
PolicyDecisionRecorded(o) ==
  /\ o \notin decided
  /\ addLeg[o] = NoTxn
  /\ decided' = decided \cup {o}
  /\ UNCHANGED <<ostat, leg, addLeg, moveLeg, auth>>

\* transitionPostgresPaymentLeg up to its update.
TransitionLegBegin(o, s, t) ==
  /\ moveLeg[o][s] = NoTxn
  /\ t \in InternalLegTransitions(leg[o][s])
  /\ t = "approved" => ostat[o] = "approved"
  /\ moveLeg' = [moveLeg EXCEPT ![o][s] = t]
  /\ UNCHANGED <<ostat, decided, leg, addLeg, auth>>

TransitionLegEnd(o, s) ==
  /\ moveLeg[o][s] # NoTxn
  /\ leg' = [leg EXCEPT ![o][s] = moveLeg[o][s]]
  /\ moveLeg' = [moveLeg EXCEPT ![o][s] = NoTxn]
  /\ UNCHANGED <<ostat, decided, addLeg, auth>>

TransitionLegAbort(o, s) ==
  /\ moveLeg[o][s] # NoTxn
  /\ moveLeg' = [moveLeg EXCEPT ![o][s] = NoTxn]
  /\ UNCHANGED <<ostat, decided, leg, addLeg, auth>>

LifeNext ==
  \/ \E c \in Counterparties, s \in AuthStatus, now \in BOOLEAN : CreateCounterpartyAuthorization(c, s, now)
  \/ \E c \in Counterparties, s \in AuthStatus : TransitionCounterpartyAuthorization(c, s)
  \/ \E c \in Counterparties : AuthorizationLapses(c)
  \/ \E o \in Orders :
       \/ CreateLegEnd(o) \/ CreateLegAbort(o) \/ PolicyDecisionRecorded(o)
       \/ \E s \in Seqs, c \in Counterparties : CreateLegBegin(o, s, c)
       \/ \E t \in InternalStatus : TransitionPaymentOrder(o, t)
       \/ \E s \in Seqs : \/ TransitionLegEnd(o, s) \/ TransitionLegAbort(o, s)
                          \/ \E t \in InternalStatus : TransitionLegBegin(o, s, t)

LifeSpec == LifeInit /\ [][LifeNext]_lifeVars

----------------------------------------------------------------------------
\* The console.  A component is the set of requests it lets a role send.
CanOperatePayments(role) == role \in {"treasury_operator", "admin"}

\* The console keeps its own copy of the server's table.
InternalPaymentTransitions(s) ==
  CASE s = "draft"                   -> {"pending_policy_decision", "cancelled"}
    [] s = "pending_policy_decision" -> {"blocked", "manual_review", "approved", "cancelled"}
    [] s = "manual_review"           -> {"blocked", "approved", "cancelled"}
    [] s = "blocked"                 -> {"manual_review", "cancelled"}
    [] s = "approved"                -> {"cancelled"}
    [] OTHER                         -> {}

PaymentOrderLedger(role) ==
  {m \in Orders \X InternalStatus :
     CanOperatePayments(role) /\ m[2] \in InternalPaymentTransitions(ostat[m[1]])}

\* Approval is offered whatever the state of the order.
PaymentLegLedger(role) ==
  {m \in Orders \X Seqs \X InternalStatus :
     CanOperatePayments(role) /\ m[3] \in InternalPaymentTransitions(leg[m[1]][m[2]])}

\* Draft orders and every registered counterparty, authorised or not.
PaymentLegForm(role) ==
  {m \in Orders \X Counterparties : CanOperatePayments(role) /\ ostat[m[1]] = "draft"}

----------------------------------------------------------------------------
\* The order, leg and authorisation rows and the open transactions have their types.
LifeTypeOK ==
  /\ ostat \in [Orders -> InternalStatus]
  /\ decided \subseteq Orders
  /\ leg \in [Orders -> [Seqs -> InternalStatus \cup {"none"}]]
  /\ addLeg \in [Orders -> Seqs \cup {NoTxn}]
  /\ moveLeg \in [Orders -> [Seqs -> InternalStatus \cup {NoTxn}]]
  /\ auth \in [Counterparties -> [status : AuthStatus \cup {"none"}, current : BOOLEAN]]

\* An approved leg belongs to an order that was approved on a recorded policy
\* decision: the order is approved, or was and has been cancelled since. It
\* holds although the leg's transaction reads the order without locking it
\* (transitionPostgresPaymentLeg), because approval is left only for
\* cancellation.
ApprovedLegHadApprovedOrder ==
  \A o \in Orders, s \in Seqs :
    leg[o][s] = "approved" => ostat[o] \in {"approved", "cancelled"} /\ o \in decided

\* A leg joins an order only while the order is still in draft: the row lock of
\* createPostgresPaymentLeg keeps the order in draft until the insert commits.
LegsJoinDraftsOnly ==
  \A o \in Orders, s \in Seqs :
    leg[o][s] = "none" /\ leg'[o][s] # "none" => ostat[o] = "draft" /\ ostat'[o] = "draft"

\* A console that shows the current rows offers a treasury role everything the
\* server accepts, and what it offers beyond that is only approval ahead of the
\* policy decision or of the order (PaymentOrderLedger, PaymentLegLedger,
\* PaymentLegForm against their handlers).
LedgersMatchServer ==
  \A role \in OperatorRole :
    /\ \A o \in Orders, t \in InternalStatus :
         <<o, t>> \in PaymentOrderLedger(role) <=>
           role \in TreasuryProcedure /\ t \in InternalOrderTransitions(ostat[o])
    /\ \A o \in Orders, s \in Seqs, t \in InternalStatus :
         <<o, s, t>> \in PaymentLegLedger(role) <=>
           role \in TreasuryProcedure /\ t \in InternalLegTransitions(leg[o][s])
    /\ \A o \in Orders, c \in Counterparties :
         role \in TreasuryProcedure /\ ostat[o] = "draft" /\ Authorised(c) => <<o, c>> \in PaymentLegForm(role)

\* Every step leaves the legs in agreement with their order, though orders and legs
\* are locked separately (createPostgresPaymentLeg, transitionPostgresPaymentLeg).
LegsFollowOrder ==
  [][/\ LifeTypeOK' /\ ApprovedLegHadApprovedOrder'
     /\ LegsJoinDraftsOnly]_lifeVars
============================================================================
