--------------------------- MODULE EvidenceOutbox ---------------------------
(***************************************************************************)
(* The control-evidence outbox: triggers on the onboarding tables leave a  *)
(* row per control event, and scheduled drains post the pending rows to    *)
(* the lakehouse catalog, oldest first, one transaction per row.  A drain  *)
(* holds its row's lock from the selection to the commit, so the post to   *)
(* the catalog happens inside the transaction; a drain that dies, or whose *)
(* commit fails, leaves the row pending and the catalog possibly written.  *)
(* Rows are numbered by created_at; they may become visible in any order.  *)
(***************************************************************************)
EXTENDS Naturals, FiniteSets

CONSTANTS
  Evidence,   \* rows, numbered in creation order
  Poison,     \* rows the catalog refuses whenever they are posted
  Drains,     \* concurrent drain invocations
  Batch,      \* rows one invocation attempts (25 in the code)
  MaxDeaths   \* bound: drains that die or whose commit fails

ASSUME OutboxAssumption == Evidence \subseteq Nat \ {0} /\ Poison \subseteq Evidence /\ Batch \in Nat \ {0}

VARIABLES
  outbox,    \* row |-> "none", "pending" or "delivered"
  drain,     \* drain |-> [step, row, attempted]
  received,  \* row |-> times the catalog stored it: 0, 1, or 2 for more
  lost,      \* rows the catalog stored in a post that was not recorded
  deaths     \* drains that died so far

outboxVars == <<outbox, drain, received, lost, deaths>>

NoDrain == [step |-> "idle", row |-> 0, attempted |-> {}]

OutboxInit ==
  /\ outbox = [e \in Evidence |-> "none"]
  /\ drain = [d \in Drains |-> NoDrain]
  /\ received = [e \in Evidence |-> 0]
  /\ lost = {}
  /\ deaths = 0

(* The triggers: one row per control event, in the transaction that makes  *)
(* the change.                                                             *)
EnqueueEvidence(e) ==
  /\ outbox[e] = "none"
  /\ outbox' = [outbox EXCEPT ![e] = "pending"]
  /\ UNCHANGED <<drain, received, lost, deaths>>

LakehouseControlEvidenceDrain(d) ==
  /\ drain[d].step = "idle"
  /\ drain' = [drain EXCEPT ![d] = [NoDrain EXCEPT !.step = "next"]]
  /\ UNCHANGED <<outbox, received, lost, deaths>>

Locked == {drain[d].row : d \in {x \in Drains : drain[x].step \in {"posting", "ok", "error"}}}

(* The row a drain's SELECT ... FOR UPDATE SKIP LOCKED LIMIT 1 returns.    *)
Candidates(attempted) == {e \in Evidence : outbox[e] = "pending" /\ e \notin attempted} \ Locked
Oldest(rows) == {e \in rows : \A other \in rows : e <= other}

Takes(d, e) ==
  drain' = [drain EXCEPT ![d] =
              [step |-> "posting", row |-> e, attempted |-> drain[d].attempted \cup {e}]]

(* Plausible bug: the row is read without a lock.                          *)
SelectRowUnlocked(d) ==
  /\ drain[d].step = "next"
  /\ Cardinality(drain[d].attempted) < Batch
  /\ \E e \in Oldest({x \in Evidence : outbox[x] = "pending" /\ x \notin drain[d].attempted}) : Takes(d, e)
  /\ UNCHANGED <<outbox, received, lost, deaths>>

(* Plausible bug: the rows this invocation attempted are not left out.     *)
SelectRowAgain(d) ==
  /\ drain[d].step = "next"
  /\ Cardinality(drain[d].attempted) < Batch
  /\ \E e \in Oldest(Candidates({})) : Takes(d, e)
  /\ UNCHANGED <<outbox, received, lost, deaths>>

SelectRow(d) ==
  /\ drain[d].step = "next"
  /\ Cardinality(drain[d].attempted) < Batch
  /\ \E e \in Oldest(Candidates(drain[d].attempted)) : Takes(d, e)
  /\ UNCHANGED <<outbox, received, lost, deaths>>

(* No row left for this invocation, or its batch is spent.                 *)
DrainEnds(d) ==
  /\ drain[d].step = "next"
  /\ Cardinality(drain[d].attempted) = Batch \/ Candidates(drain[d].attempted) = {}
  /\ drain' = [drain EXCEPT ![d] = NoDrain]
  /\ UNCHANGED <<outbox, received, lost, deaths>>

Stores(e) == received' = [received EXCEPT ![e] = IF @ = 0 THEN 1 ELSE 2]

(* The post, bounded by a timeout: stored and answered, stored but the     *)
(* answer late, or refused.                                                *)
PostAnswered(d) ==
  /\ drain[d].step = "posting" /\ drain[d].row \notin Poison
  /\ Stores(drain[d].row)
  /\ drain' = [drain EXCEPT ![d].step = "ok"]
  /\ UNCHANGED <<outbox, lost, deaths>>

PostTimesOut(d) ==
  /\ drain[d].step = "posting" /\ drain[d].row \notin Poison
  /\ Stores(drain[d].row)
  /\ lost' = lost \cup {drain[d].row}
  /\ drain' = [drain EXCEPT ![d].step = "error"]
  /\ UNCHANGED <<outbox, deaths>>

PostRefused(d) ==
  /\ drain[d].step = "posting"
  /\ drain' = [drain EXCEPT ![d].step = "error"]
  /\ UNCHANGED <<outbox, received, lost, deaths>>

(* The attempt is recorded and the transaction commits.                    *)
RecordAttempt(d) ==
  /\ drain[d].step \in {"ok", "error"}
  /\ outbox' = IF drain[d].step = "ok"
               THEN [outbox EXCEPT ![drain[d].row] = "delivered"] ELSE outbox
  /\ drain' = [drain EXCEPT ![d].step = "next", ![d].row = 0]
  /\ UNCHANGED <<received, lost, deaths>>

(* The process dies or the transaction fails: rolled back, lock released.  *)
DrainDies(d) ==
  /\ drain[d].step # "idle" /\ deaths < MaxDeaths
  /\ deaths' = deaths + 1
  /\ lost' = IF drain[d].step = "ok" THEN lost \cup {drain[d].row} ELSE lost
  /\ drain' = [drain EXCEPT ![d] = NoDrain]
  /\ UNCHANGED <<outbox, received>>

DrainLakehouseControlEvidence(d) ==
  \/ SelectRow(d)
  \/ DrainEnds(d)
  \/ PostAnswered(d)
  \/ PostTimesOut(d)
  \/ PostRefused(d)
  \/ RecordAttempt(d)

OutboxNext ==
  \/ \E e \in Evidence : EnqueueEvidence(e)
  \/ \E d \in Drains : \/ LakehouseControlEvidenceDrain(d)
                       \/ DrainLakehouseControlEvidence(d)
                       \/ DrainDies(d)

(* The schedule keeps starting drains, a drain keeps stepping, and a       *)
(* catalog that is posted the same good row again and again stores it in   *)
(* time at some point.                                                     *)
OutboxFairness ==
  /\ \A d \in Drains : /\ WF_outboxVars(LakehouseControlEvidenceDrain(d))
                       /\ WF_outboxVars(DrainLakehouseControlEvidence(d))
  /\ \A e \in Evidence : SF_outboxVars(\E d \in Drains : drain[d].row = e /\ PostAnswered(d))

OutboxSpec == OutboxInit /\ [][OutboxNext]_outboxVars /\ OutboxFairness

-----------------------------------------------------------------------------
(* The rows and drains have their shape; a drain holds a row exactly while *)
(* it posts it (lakehouseControlEvidence.ts).                              *)
OutboxTypeOK ==
  /\ outbox \in [Evidence -> {"none", "pending", "delivered"}]
  /\ \A d \in Drains : /\ drain[d].attempted \in SUBSET Evidence
                       /\ drain[d].step \in {"posting", "ok", "error"} <=> drain[d].row \in Evidence
  /\ received \in [Evidence -> 0..2]
  /\ lost \in SUBSET Evidence

(* A row marked delivered is in the catalog, whichever drains timed out,   *)
(* died or overlapped (drainLakehouseControlEvidence).                     *)
DeliveredMeansReceived == \A e \in Evidence : outbox[e] = "delivered" => received[e] > 0

(* The catalog stores a row twice only when an earlier store went          *)
(* unrecorded: overlapping drains never post one row both                  *)
(* (FOR UPDATE SKIP LOCKED in drainLakehouseControlEvidence).              *)
RepeatsOnlyAfterLoss == \A e \in Evidence : received[e] = 2 => e \in lost

(* A good row is delivered in the end even behind rows the catalog always  *)
(* refuses, as long as a batch has room for more than those (attemptedIds  *)
(* in drainLakehouseControlEvidence).                                      *)
RefusedRowsDoNotBlock ==
  Cardinality(Poison) < Batch =>
    \A e \in Evidence \ Poison : outbox[e] = "pending" ~> outbox[e] = "delivered"

\* Outbox rows and the catalog agree up to the answers that were lost
\* (lakehouseControlEvidence.ts).
OutboxSafety ==
  /\ OutboxTypeOK
  /\ DeliveredMeansReceived
  /\ RepeatsOnlyAfterLoss
=============================================================================
