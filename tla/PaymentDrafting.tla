-------------------------- MODULE PaymentDrafting --------------------------
\* Rate locks, beneficiary screening and the drafting of payment orders: the
\* first half of the control plane's payment workflow. An order spends exactly
\* one live rate lock and derives its target amount from the locked rate.
\* Each handler is one PostgreSQL transaction that locks the rows it decides on
\* (rate_locks FOR UPDATE, beneficiaries FOR KEY SHARE or FOR UPDATE), so it is
\* one action here. An order is known by its idempotency key, which is unique.
EXTENDS Naturals, Sequences, FiniteSets, ConsoleRoles

CONSTANTS Locks, OrderKeys,          \* rate_locks and idempotency keys
          Customers, Owner,     \* customers, and the one the beneficiary belongs to
          Amounts,              \* accepted source amounts; 0 is the text "0.0"
          LockedRate, Scale,    \* rate of each lock in units of 1/Scale of the last decimal
          Results,              \* screening answers [at, state] the provider may give
          NoOrder

LockStatus == {"none", "locked", "expired", "cancelled"}
ScreeningState == {"not_run", "clear", "potential_match", "confirmed_match", "source_unavailable"}
Order == [amount : Nat, target : Nat, lock : Locks]

ASSUME DraftingAssumption ==
  /\ LockedRate \in [Locks -> Nat \ {0}]
  /\ Scale \in Nat \ {0}
  /\ Amounts \subseteq Nat
  /\ Owner \in Customers
  /\ Results \subseteq [at : Nat, state : ScreeningState]
  /\ NoOrder \notin OrderKeys \cup Order

VARIABLES lock,      \* lock |-> [status, order]: the row and its payment_order_id
          elapsed,   \* locks whose expires_at has passed
          order,     \* key |-> NoOrder or [amount, target, lock]
          checks,    \* aml_screening_checks of the beneficiary, oldest first
          screening, \* beneficiaries.screening_state
          provider   \* is the sanctions integration active

draftVars == <<lock, elapsed, order, checks, screening, provider>>

DraftInit ==
  /\ lock = [l \in Locks |-> [status |-> "none", order |-> NoOrder]]
  /\ elapsed = {}
  /\ order = [k \in OrderKeys |-> NoOrder]
  /\ checks = <<>>
  /\ screening = "not_run"
  /\ provider = FALSE

\* The product is truncated instead of rounded.
TargetAmountFloor(l, a) == (a * LockedRate[l]) \div Scale

\* round(source_amount * locked_rate, 8): half away from zero at the last decimal.
TargetAmount(l, a) == (2 * a * LockedRate[l] + Scale) \div (2 * Scale)

\* A lock is created from a recorded observation with an expiry in the future;
\* its rate is copied from the observation.
CreateRateLock(l) ==
  /\ lock[l].status = "none"
  /\ lock' = [lock EXCEPT ![l].status = "locked"]
  /\ UNCHANGED <<elapsed, order, checks, screening, provider>>

\* Time passes the expiry of a lock.
ElapseLock(l) ==
  /\ lock[l].status = "locked" /\ l \notin elapsed
  /\ elapsed' = elapsed \cup {l}
  /\ UNCHANGED <<lock, order, checks, screening, provider>>

\* Every locked row past its expiry expires, spent or not.
Expired(table) == [l \in Locks |-> IF table[l].status = "locked" /\ l \in elapsed
                                   THEN [table[l] EXCEPT !.status = "expired"]
                                   ELSE table[l]]

ExpireRateLocks ==
  /\ lock' = Expired(lock)
  /\ UNCHANGED <<elapsed, order, checks, screening, provider>>

\* The same update ends the evaluation of the regulatory deadlines.
ExpireWithDeadlines ==
  /\ lock' = Expired(lock)
  /\ UNCHANGED <<elapsed, order, checks, screening, provider>>

\* The scheduled job runs both evaluations, one transaction after the other; the
\* second finds what elapsed in between.
ReminderJobExpiry == ExpireRateLocks \/ ExpireWithDeadlines

\* The cancellation the router calls (postgres.ts): any locked row, spent or not.
\* The one in paymentWorkflow.ts, which refuses a spent lock, has no caller.
CancelRateLock(l) ==
  /\ lock[l].status = "locked"
  /\ lock' = [lock EXCEPT ![l].status = "cancelled"]
  /\ UNCHANGED <<elapsed, order, checks, screening, provider>>

----------------------------------------------------------------------------
\* Screening results are recorded while the sanctions integration is active.
\* A result older than the newest one recorded is refused.
RecordBeneficiaryScreening(r) ==
  /\ provider
  /\ \A i \in DOMAIN checks : checks[i] # r
  /\ \A i \in DOMAIN checks : r.at >= checks[i].at
  /\ checks' = Append(checks, r)
  /\ screening' = r.state
  /\ UNCHANGED <<lock, elapsed, order, provider>>

\* Activation and suspension of the integration, modelled in Integrations.
ScreeningProviderChanges ==
  /\ provider' = ~provider
  /\ UNCHANGED <<lock, elapsed, order, checks, screening>>

Live(l) == lock[l].status = "locked" /\ l \notin elapsed
Unspent(l) == lock[l].order = NoOrder
BeneficiaryScreeningClear == screening = "clear"

\* What the handler requires before it inserts: a live unspent lock, a clear
\* beneficiary of the customer and a target that does not round to zero.
Draftable(c, l, a) ==
  /\ Live(l) /\ Unspent(l)
  /\ c = Owner
  /\ BeneficiaryScreeningClear
  /\ TargetAmount(l, a) > 0

\* The lock is not marked spent.
DraftPaymentOrderUnspent(k, c, l, a) ==
  /\ Draftable(c, l, a)
  /\ order[k] = NoOrder
  /\ order' = [order EXCEPT ![k] = [amount |-> a, target |-> TargetAmount(l, a), lock |-> l]]
  /\ UNCHANGED <<lock, elapsed, checks, screening, provider>>

\* ON CONFLICT DO NOTHING: a key in use writes nothing.  It is answered as a
\* replay unless another lock is bound to the order, and one always is: the lock
\* of this request is unspent, so it is not the order's own.
DraftPaymentOrder(k, c, l, a) ==
  /\ Draftable(c, l, a)
  /\ order[k] = NoOrder
  /\ order' = [order EXCEPT ![k] = [amount |-> a, target |-> TargetAmount(l, a), lock |-> l]]
  /\ lock' = [lock EXCEPT ![l].order = k]
  /\ UNCHANGED <<elapsed, checks, screening, provider>>

DraftNext ==
  \/ \E l \in Locks : CreateRateLock(l) \/ ElapseLock(l) \/ CancelRateLock(l)
  \/ ReminderJobExpiry
  \/ \E r \in Results : RecordBeneficiaryScreening(r)
  \/ ScreeningProviderChanges
  \/ \E k \in OrderKeys, c \in Customers, l \in Locks, a \in Amounts : DraftPaymentOrder(k, c, l, a)

DraftSpec == DraftInit /\ [][DraftNext]_draftVars

----------------------------------------------------------------------------
\* The console.  A component is the set of requests it lets a role send.
LiveRateLocks == {l \in Locks : Live(l)}

\* Every customer, whoever the beneficiary belongs to, and every live lock,
\* spent or not; no form without a live lock.
PaymentOrderForm(role) ==
  IF role \in {"treasury_operator", "admin"} THEN Customers \X LiveRateLocks ELSE {}

\* The state of the lock is not looked at.
RateLockTableByExpiry(role) ==
  IF role \in {"treasury_operator", "admin"}
  THEN {l \in Locks : lock[l].status # "none" /\ l \notin elapsed} ELSE {}

IsCancellableRateLock(l) == lock[l].status = "locked" /\ l \notin elapsed

\* The locks a role may cancel.
RateLockTable(role) ==
  IF role \in {"treasury_operator", "admin"} THEN {l \in Locks : IsCancellableRateLock(l)} ELSE {}

\* May the role create a lock, and may it run the expiry?
RateLockForm(role) == role \in {"treasury_operator", "admin"}
RateLockExpiryControl(role) == role \in {"treasury_operator", "admin"}

----------------------------------------------------------------------------
\* The rows of rate_locks, payment_orders and beneficiaries have their types.
DraftTypeOK ==
  /\ lock \in [Locks -> [status : LockStatus, order : OrderKeys \cup {NoOrder}]]
  /\ elapsed \subseteq Locks
  /\ order \in [OrderKeys -> Order \cup {NoOrder}]
  /\ checks \in Seq(Results)
  /\ screening \in ScreeningState
  /\ provider \in BOOLEAN

\* A lock backs at most one order and an order is backed by exactly the lock it
\* was priced with: the binding written when the lock is consumed
\* (createPostgresPaymentOrder) and the order agree both ways, and the target
\* is a positive amount at the locked rate.
LockBacksOneOrder ==
  /\ \A k \in OrderKeys : order[k] # NoOrder =>
       /\ lock[order[k].lock].order = k
       /\ order[k].target = TargetAmount(order[k].lock, order[k].amount)
       /\ order[k].target > 0
  /\ \A l \in Locks : lock[l].order # NoOrder =>
       /\ order[lock[l].order] # NoOrder
       /\ order[lock[l].order].lock = l
       /\ lock[l].status # "none"

\* The beneficiary's screening state is the state of its newest result by the
\* provider's time, however the results were delivered: a late older answer
\* never replaces a newer one (recordPostgresBeneficiaryScreening).
ScreeningFollowsNewest ==
  checks # <<>> =>
    \E i \in DOMAIN checks :
      /\ screening = checks[i].state
      /\ \A j \in DOMAIN checks : \/ checks[j].at < checks[i].at
                                  \/ checks[j].at = checks[i].at /\ j <= i

\* Expired and cancelled locks stay so, a spent lock keeps its order, and a
\* drafted order keeps the lock and the amounts it was drafted with, whatever
\* retries, cancellations and expiry runs follow.
SpentStaysSpent ==
  [][/\ \A l \in Locks :
          /\ lock[l].status \in {"expired", "cancelled"} => lock'[l].status = lock[l].status
          /\ lock[l].order # NoOrder => lock'[l].order = lock[l].order
     /\ \A k \in OrderKeys : order[k] # NoOrder => order'[k] = order[k]]_draftVars

\* A lock past its expiry does not stay locked, as the reminder job keeps being
\* invoked.
ElapsedLockResolves ==
  \A l \in Locks : (l \in elapsed) ~> (lock[l].status # "locked")

\* A console that shows the current rows withholds no draft the server would
\* accept, offers only cancellations the server accepts, and opens the lock forms
\* to the roles of the procedures behind them (PaymentOrderForm, RateLockTable,
\* RateLockForm, RateLockExpiryControl).
LockFormsMatchServer ==
  \A role \in OperatorRole :
    /\ \A c \in Customers, l \in Locks, a \in Amounts :
         role \in TreasuryProcedure /\ Draftable(c, l, a) => <<c, l>> \in PaymentOrderForm(role)
    /\ \A l \in RateLockTable(role) : role \in TreasuryProcedure /\ lock[l].status = "locked"
    /\ RateLockForm(role) <=> role \in TreasuryProcedure
    /\ RateLockExpiryControl(role) <=> role \in TreasuryProcedure

\* What a consumer of quotes is promised, abstracted from rows and jobs.
QuoteState(l) ==
  IF lock[l].status = "none" THEN "unseen"
  ELSE IF Live(l) /\ Unspent(l) THEN "open" ELSE "closed"

Quotes == INSTANCE QuoteContract WITH
            quote <- [l \in Locks |-> QuoteState(l)],
            sold  <- order

\* Drafting implements the quote contract: a quote is sold at most once, only
\* while it is open, at the nearest amount to its rate, and a sale is final.
ImplementsQuotes == Quotes!QuoteSpec

\* Locks, orders and screening agree in every state that racing requests, late answers
\* and the jobs leave behind (paymentWorkflow.ts, postgres.ts).
DraftingSafety ==
  /\ DraftTypeOK
  /\ LockBacksOneOrder
  /\ ScreeningFollowsNewest
============================================================================
