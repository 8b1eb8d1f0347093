-------------------------- MODULE OperationalAlerts --------------------------
\* The four alert evaluations (liquidity buffers, failed payments, aged
\* compliance cases, regulatory deadlines).  An evaluation locks the rows it
\* derives its findings from, notifies the owner from inside the transaction,
\* and writes the delivery rows that suppress the next run; the notification is
\* an outside effect, so a transaction that rolls back after it leaves no row.
\* Evaluations of one kind share their lock and no other state with the other
\* kinds, so a behaviour is about one kind, chosen initially.
EXTENDS Naturals, FiniteSets

CONSTANTS Evaluators, RedFloor, AmberFloor, MaxAmount,
          MaxNotices, MaxRollbacks, NotRunning

ASSUME AlertAssumption ==
  /\ RedFloor \in Nat /\ AmberFloor \in Nat /\ RedFloor <= AmberFloor
  /\ MaxAmount \in Nat /\ MaxNotices \in Nat /\ MaxRollbacks \in Nat

VARIABLES kind,        \* which evaluation this behaviour is about
          world,       \* what the evaluation reads
          subscribed,  \* an enabled alert policy of the kind exists
          deliveries,  \* committed notification_deliveries of the window
          evaluation,  \* evaluator |-> NotRunning, or its transaction
          mailbox,     \* payload |-> notices the owner received in the window
          rolledBack   \* transactions of the window that rolled back

alertVars == <<kind, world, subscribed, deliveries, evaluation, mailbox, rolledBack>>

Kinds == {"liquidity", "payment", "case", "deadline"}
Bands == {"red", "amber"}

\* A payload names what the text of the notice is about; equal text, equal payload.
Payloads == Bands \X (0..MaxAmount) \cup {<<"order failed">>, <<"case waits">>, <<"deadline near">>}

\* A delivery row, and the transaction of an evaluation that is running.
Delivery == [payload : Payloads, state : {"accepted", "unavailable"}]
Transactions == [todo : SUBSET Payloads, rows : SUBSET Delivery]

ASSUME NotRunningAssumption == NotRunning \notin Transactions

Band(amount) == IF amount < RedFloor THEN {"red"} ELSE IF amount < AmberFloor THEN {"amber"} ELSE {}

LiquidityBreaches ==
  IF world.buffer /\ world.fresh
  THEN {<<b, world.amount>> : b \in Band(world.amount)}
  ELSE {}
FailedOrders == IF world.failed THEN {<<"order failed">>} ELSE {}
AgedCases == IF world.case = "aged" THEN {<<"case waits">>} ELSE {}
DueReminders == IF world.near /\ ~world.reminded THEN {<<"deadline near">>} ELSE {}

Findings == CASE kind = "liquidity" -> LiquidityBreaches
              [] kind = "payment"   -> FailedOrders
              [] kind = "case"      -> AgedCases
              [] kind = "deadline"  -> DueReminders

AlertInit ==
  /\ kind \in Kinds
  /\ world = [buffer |-> FALSE, fresh |-> FALSE, amount |-> MaxAmount, failed |-> FALSE,
              case |-> "young", near |-> FALSE, reminded |-> FALSE]
  /\ subscribed = FALSE /\ deliveries = {} /\ rolledBack = 0
  /\ evaluation = [e \in Evaluators |-> NotRunning]
  /\ mailbox = [p \in Payloads |-> 0]

---------------------------------------------------------------------------
\* The rows are read without being locked.
EvaluateUnlocked(e) ==
  /\ evaluation[e] = NotRunning
  /\ evaluation' = [evaluation EXCEPT ![e] = [todo |-> Findings, rows |-> {}]]
  /\ UNCHANGED <<kind, world, subscribed, deliveries, mailbox, rolledBack>>

\* Begin: lock the rows of the kind and derive the findings.
Evaluate(e) ==
  /\ \A f \in Evaluators : evaluation[f] = NotRunning
  /\ evaluation' = [evaluation EXCEPT ![e] = [todo |-> Findings, rows |-> {}]]
  /\ UNCHANGED <<kind, world, subscribed, deliveries, mailbox, rolledBack>>

\* Suppression looks at rows, whatever delivery state they record; a reminder is
\* suppressed by last_reminded_at, which the findings already took into account.
AlreadyDelivered(e, p) == kind # "deadline" /\ p \in {r.payload : r \in deliveries \cup evaluation[e].rows}

\* notifyOwner answers whether the attempt was accepted; an answer that is lost
\* reads as unavailable although the owner has the notice.
DeliverAlert(e, p, received, reported) ==
  /\ subscribed /\ (reported => received) /\ mailbox[p] < MaxNotices
  /\ mailbox' = [mailbox EXCEPT ![p] = IF received THEN @ + 1 ELSE @]
  /\ evaluation' = [evaluation EXCEPT ![e].todo = @ \ {p},
       ![e].rows = @ \cup {[payload |-> p, state |-> IF reported THEN "accepted" ELSE "unavailable"]}]
  /\ UNCHANGED <<kind, world, subscribed, deliveries, rolledBack>>

NotifyPostgresAlertPolicies(e, p, received, reported) ==
  /\ evaluation[e] # NotRunning /\ p \in evaluation[e].todo
  /\ ~AlreadyDelivered(e, p)
  /\ DeliverAlert(e, p, received, reported)

\* Suppressed as a duplicate, or no enabled policy to deliver against.
SkipFinding(e, p) ==
  /\ evaluation[e] # NotRunning /\ p \in evaluation[e].todo
  /\ AlreadyDelivered(e, p) \/ ~subscribed
  /\ evaluation' = [evaluation EXCEPT ![e].todo = @ \ {p}]
  /\ UNCHANGED <<kind, world, subscribed, deliveries, mailbox, rolledBack>>

CommitEvaluation(e) ==
  /\ evaluation[e] # NotRunning /\ evaluation[e].todo = {}
  /\ deliveries' = deliveries \cup evaluation[e].rows
  /\ world' = IF kind = "deadline" /\ world.near THEN [world EXCEPT !.reminded = TRUE] ELSE world
  /\ evaluation' = [evaluation EXCEPT ![e] = NotRunning]
  /\ UNCHANGED <<kind, subscribed, mailbox, rolledBack>>

\* An exception or a crash before the commit: the rows are gone, the notices are not.
RollbackEvaluation(e) ==
  /\ evaluation[e] # NotRunning /\ rolledBack < MaxRollbacks
  /\ rolledBack' = rolledBack + 1
  /\ evaluation' = [evaluation EXCEPT ![e] = NotRunning]
  /\ UNCHANGED <<kind, world, subscribed, deliveries, mailbox>>

---------------------------------------------------------------------------
\* The registers the evaluations read, and the clock.

CreatePostgresAlertPolicy == ~subscribed /\ subscribed' = TRUE
                             /\ UNCHANGED <<kind, world, deliveries, evaluation, mailbox, rolledBack>>

Quiet == \A e \in Evaluators : evaluation[e] = NotRunning

\* A row lock of the running evaluation holds its own rows in place, except for
\* the liquidity positions, which are read and not locked.
WorldMoves(w) == /\ Quiet \/ kind = "liquidity"
                 /\ world' = w /\ world' # world
                 /\ UNCHANGED <<kind, subscribed, deliveries, evaluation, mailbox, rolledBack>>

RegistersChange ==
  \/ kind = "liquidity" /\ \/ WorldMoves([world EXCEPT !.buffer = TRUE])
                           \/ \E a \in 0..MaxAmount : WorldMoves([world EXCEPT !.fresh = TRUE, !.amount = a])
                           \/ WorldMoves([world EXCEPT !.fresh = FALSE])
  \/ kind = "payment" /\ WorldMoves([world EXCEPT !.failed = TRUE])
  \/ kind = "case" /\ \/ world.case = "young" /\ WorldMoves([world EXCEPT !.case = "aged"])
                      \/ WorldMoves([world EXCEPT !.case = "disposed"])
  \/ kind = "deadline" /\ WorldMoves([world EXCEPT !.near = TRUE])

\* The suppression window (the calendar day, for reminders) passes.
WindowPasses == /\ Quiet
                /\ deliveries' = {} /\ rolledBack' = 0
                /\ mailbox' = [p \in Payloads |-> 0]
                /\ world' = [world EXCEPT !.reminded = FALSE]
                /\ UNCHANGED <<kind, subscribed, evaluation>>

AlertNext ==
  \/ \E e \in Evaluators :
       \/ Evaluate(e) \/ CommitEvaluation(e) \/ RollbackEvaluation(e)
       \/ \E p \in Payloads : \/ SkipFinding(e, p)
                              \/ \E received, reported \in BOOLEAN : NotifyPostgresAlertPolicies(e, p, received, reported)
  \/ CreatePostgresAlertPolicy \/ RegistersChange \/ WindowPasses

AlertSpec == AlertInit /\ [][AlertNext]_alertVars

---------------------------------------------------------------------------
\* The conditions, the deliveries and the evaluations have their types.
AlertTypeOK ==
  /\ kind \in Kinds /\ subscribed \in BOOLEAN /\ rolledBack \in 0..MaxRollbacks
  /\ deliveries \subseteq Delivery
  /\ mailbox \in [Payloads -> 0..MaxNotices]

\* A delivery row never claims more than happened: a row in state accepted is
\* about a notice the owner really received, through every rollback and every
\* lost answer (operationalAlerts.ts:59-93, postgres.ts:1414-1449).
AcceptedMeansReceived ==
  \A r \in deliveries : r.state = "accepted" => mailbox[r.payload] > 0

\* Concurrent and repeated evaluations of a window notify the owner of a finding
\* at most once, plus at most once for each evaluation that rolled back
\* (operationalAlerts.ts:5-9, 95-112, 303-361; postgres.ts:1451-1483).
DuplicatesOnlyAfterRollback ==
  \A p \in Payloads : mailbox[p] <= 1 + rolledBack

\* Delivery rows and received notices agree up to the rollbacks that happened
\* (operationalAlerts.ts).
AlertSafety ==
  /\ AlertTypeOK
  /\ AcceptedMeansReceived
  /\ DuplicatesOnlyAfterRollback
=============================================================================
