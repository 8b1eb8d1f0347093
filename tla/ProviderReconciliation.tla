----------------------- MODULE ProviderReconciliation -----------------------
(***************************************************************************)
(* Rail failover together with the reconciliation of its unknown outcomes: *)
(* ReconciliationWorkers that ask the primary rail about one key, and      *)
(* FailClosedBatchReconcilers that ask the Idem shadow ledger about the    *)
(* keys they have claimed.                                                 *)
(*                                                                         *)
(* Idem answers from books of its own, which this model does not relate to *)
(* those of the providers: an item is reported any way it can be.          *)
(***************************************************************************)
EXTENDS RailFailover

CONSTANTS Workers,      \* runs of ReconciliationWorker
          Batches,      \* runs of FailClosedBatchReconciler
          MaxAttempts,  \* ReconciliationWorker.MaxAttempts
          MaxFaults     \* bound on crashes and on leases outlived by their holder

ASSUME ReconciliationAssumption == MaxAttempts \in Nat \ {0} /\ MaxFaults \in Nat

VARIABLES worker,  \* [Workers -> WorkerStates]
          batch,   \* [Batches -> BatchStates]
          faults

reconVars == <<worker, batch, faults>>
vars == <<queue, decisions, books, wire, memory, call, submitted, restarts, worker, batch, faults>>

Idle == [phase |-> "idle", key |-> "none", attempt |-> 0, decision |-> "none"]
WorkerStates == [phase : {"idle", "query", "decide", "reschedule"}, key : Keys \cup {"none"},
                 attempt : Nat, decision : Terminal \cup {"none"}]

\* A batch holds the attempts it has claimed and, once Idem has answered, the
\* decision for each key it has not recorded yet.
Unclaimed == [k \in Keys |-> 0]
BatchStates == [phase : {"claim", "record", "done"}, attempt : [Keys -> Nat],
                todo : [Keys -> Terminal \cup {"awaiting", "none"}]]

Init ==
  /\ UnknownInit /\ RailInit
  /\ worker = [w \in Workers |-> Idle]
  /\ batch = [b \in Batches |-> [phase |-> "claim", attempt |-> Unclaimed, todo |-> [k \in Keys |-> "none"]]]
  /\ faults = 0

-----------------------------------------------------------------------------
(* One worker, one key: Claim, a read-only query, then a decision or a retry. *)

ClaimFor(w, k) ==
  /\ worker[w].phase = "idle"
  /\ Claim(k)
  /\ worker' = [worker EXCEPT ![w] =
       IF queue'[k].attempts >= MaxAttempts
         THEN [phase |-> "decide", key |-> k, attempt |-> queue'[k].attempts, decision |-> "quarantined"]
         ELSE [phase |-> "query", key |-> k, attempt |-> queue'[k].attempts, decision |-> "none"]]

DecisionOn(answer) ==
  CASE answer = "accepted" -> "provider_accepted"
    [] answer = "noEffect" -> "confirmed_non_submission"
    [] OTHER               -> "quarantined"

\* provider.Query, which may fail; the provider is the row's primary rail.
Query(w) ==
  /\ worker[w].phase = "query"
  /\ \E answer \in Normalized(books["primary"][worker[w].key]) \cup {"error"} :
       LET inconclusive == answer \in {"error", "unknown"}
       IN worker' = [worker EXCEPT
            ![w].phase = IF inconclusive THEN "reschedule" ELSE "decide",
            ![w].decision = IF inconclusive THEN "none" ELSE DecisionOn(answer)]
  /\ UNCHANGED unknownVars

Decide(w) ==
  LET s == worker[w]
  IN /\ s.phase = "decide"
     /\ RecordDecision([key |-> s.key, attempt |-> s.attempt, decision |-> s.decision, source |-> "provider"])
     /\ worker' = [worker EXCEPT ![w] = Idle]

Retry(w) ==
  /\ worker[w].phase = "reschedule"
  /\ Reschedule(worker[w].key, worker[w].attempt)
  /\ worker' = [worker EXCEPT ![w] = Idle]

WorkerStep(w) ==
  /\ (\E k \in Keys : ClaimFor(w, k)) \/ Query(w) \/ Decide(w) \/ Retry(w)
  /\ UNCHANGED <<batch, faults>>

\* A worker stops, or its store or its context fails, between two steps.
WorkerCrash(w) ==
  /\ worker[w].phase # "idle" /\ faults < MaxFaults
  /\ faults' = faults + 1
  /\ worker' = [worker EXCEPT ![w] = Idle]
  /\ UNCHANGED <<batch, unknownVars>>

-----------------------------------------------------------------------------
(* One batch: the claimed states, one request to Idem, then the decisions in *)
(* order until one of them cannot be recorded.                               *)

ClaimInto(b, k) ==
  /\ batch[b].phase = "claim" /\ batch[b].attempt[k] = 0
  /\ Claim(k)
  /\ batch' = [batch EXCEPT ![b].attempt[k] = queue'[k].attempts]

\* A failed request, a response of another run and a partial response leave every
\* item awaiting evidence; otherwise each item has its own answer.
Ask(b) ==
  LET claimed == {k \in Keys : batch[b].attempt[k] > 0}
      answers == [claimed -> {"provider_accepted", "confirmed_non_submission", "awaiting"}]
  IN /\ batch[b].phase = "claim" /\ claimed # {}
     /\ \E answer \in answers :
          batch' = [batch EXCEPT ![b].phase = "record",
                                 ![b].todo = [k \in Keys |-> IF k \in claimed THEN answer[k] ELSE "none"]]
     /\ UNCHANGED unknownVars

RecordItem(b, k) ==
  LET d == [key |-> k, attempt |-> batch[b].attempt[k], decision |-> batch[b].todo[k], source |-> "idem"]
      rest == [batch[b].todo EXCEPT ![k] = "none"]
  IN /\ batch[b].phase = "record" /\ batch[b].todo[k] # "none"
     /\ RecordDecision(d)
     /\ batch' = [batch EXCEPT ![b].todo = rest,
                               ![b].phase = IF Recordable(d) /\ \E j \in Keys : rest[j] # "none"
                                              THEN "record" ELSE "done"]

BatchStep(b) ==
  /\ (\E k \in Keys : ClaimInto(b, k) \/ RecordItem(b, k)) \/ Ask(b)
  /\ UNCHANGED <<worker, faults>>

BatchCrash(b) ==
  /\ batch[b].phase # "done" /\ faults < MaxFaults
  /\ faults' = faults + 1
  /\ batch' = [batch EXCEPT ![b].phase = "done"]
  /\ UNCHANGED <<worker, unknownVars>>

-----------------------------------------------------------------------------
(* Time. A lease nobody works under runs out; one that is still worked under *)
(* may, when the worker is slow.                                             *)

WorkedUnder(k) ==
  \/ \E w \in Workers : worker[w].phase # "idle" /\ worker[w].key = k /\ worker[w].attempt = queue[k].attempts
  \/ \E b \in Batches : batch[b].phase # "done" /\ batch[b].attempt[k] = queue[k].attempts

Expire(k) ==
  /\ LeaseExpires(k)
  /\ \/ ~WorkedUnder(k) /\ UNCHANGED faults
     \/ WorkedUnder(k) /\ faults < MaxFaults /\ faults' = faults + 1
  /\ UNCHANGED <<worker, batch>>

Due(k) == BecomesDue(k) /\ UNCHANGED reconVars

Reconcile ==
  /\ \/ \E w \in Workers : WorkerStep(w) \/ WorkerCrash(w)
     \/ \E b \in Batches : BatchStep(b) \/ BatchCrash(b)
     \/ \E k \in Keys : Expire(k) \/ Due(k)
  /\ UNCHANGED <<railVars, execVars>>

Next == (RailNext /\ UNCHANGED reconVars) \/ Reconcile

Spec == Init /\ [][Next]_vars

\* A row that is due is claimed sooner or later, a worker or batch that does not
\* crash goes on, and time passes.
FairSpec ==
  /\ Spec
  /\ \A w \in Workers : WF_vars(WorkerStep(w) /\ UNCHANGED <<railVars, execVars>>)
  /\ \A b \in Batches : WF_vars(BatchStep(b) /\ UNCHANGED <<railVars, execVars>>)
  /\ \A k \in Keys : WF_vars((Expire(k) \/ Due(k)) /\ UNCHANGED <<railVars, execVars>>)

-----------------------------------------------------------------------------
\* The calls, the queue rows and the reconciliation attempts have their types.
TypeOK ==
  /\ UnknownTypeOK
  /\ books \in [Rails -> [Keys -> Books]]
  /\ wire \subseteq Rails \X Keys
  /\ memory \in [Processes -> [Keys -> Memory]]
  /\ call \in [Calls -> [phase : Phases, of : Deliveries \cup {NoDelivery}, reply : Replies]]
  /\ submitted \in [Processes -> [Keys -> Nat]]
  /\ restarts \in 0 .. MaxRestarts
  /\ worker \in [Workers -> WorkerStates]
  /\ batch \in [Batches -> BatchStates]
  /\ faults \in 0 .. MaxFaults

\* A payment is never open or made on both rails: the fallback is taken only
\* after the primary provider has said that there was and will be no effect, also
\* when the request is repeated in another process or after a restart.
NeverPaidTwice ==
  \A k \in Keys : ~(books["primary"][k] \in {"open", "paid"} /\ books["secondary"][k] \in {"open", "paid"})

\* A process submits a key to the primary rail once in its life, however many
\* requests race and whatever the outcome: "Memoizing an error prevents a caller
\* that races after an UNKNOWN or transport failure from issuing a second write".
SubmittedOncePerProcess ==
  \A p \in Processes, k \in Keys : submitted[p][k] <= 1

\* A caller is told that a rail accepted only if the rail did so.
AcceptedMeansBooked ==
  \A c \in Calls : call[c].reply \in Rails => books[call[c].reply][call[c].of.key] # "none"

\* A decision of a ReconciliationWorker is what the primary provider holds: an
\* accepted payment is in its books, a non-submission is final.
DecisionsMatchPrimary ==
  \A d \in decisions :
    d.source = "provider" =>
      /\ d.decision = "provider_accepted" => books["primary"][d.key] # "none"
      /\ d.decision = "confirmed_non_submission" => books["primary"][d.key] = "refused"

\* The decisions of a row that no batch left awaiting: one, by the holder of the
\* last lease. Whoever lost the lease meanwhile records nothing.
DecidedByLeaseHolder ==
  \A k \in Keys :
    LET all == {d \in decisions : d.key = k}
    IN /\ queue[k].resolved <=> all # {}
       /\ (\A d \in all : d.decision # "awaiting") =>
            \A d, e \in all : d = e /\ d.attempt = queue[k].attempts

\* Every queued outcome is decided in the end: attempts are counted at the claim,
\* so inconclusive queries and lost leases end in quarantine.
EveryUnknownDecided ==
  \A k \in Keys : queue[k].present ~> queue[k].resolved

\* A decision of confirmed non-submission means that no rail made the payment.
NonSubmissionMeansNoPayment ==
  \A d \in decisions :
    d.decision = "confirmed_non_submission" /\ d.source = "provider" =>
      \A r \in Rails : books[r][d.key] \notin {"open", "paid"}

\* A payment is carried out once, answered as it is booked, and decided as the primary
\* rail knows it, by whoever holds the row (failover.go, reconciliation worker).
RailSafety ==
  /\ TypeOK
  /\ NeverPaidTwice /\ SubmittedOncePerProcess
  /\ AcceptedMeansBooked
  /\ DecisionsMatchPrimary /\ DecidedByLeaseHolder
=============================================================================
