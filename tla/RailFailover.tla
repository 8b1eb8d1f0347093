---------------------------- MODULE RailFailover ----------------------------
(***************************************************************************)
(* Paying out over a primary rail with a fallback, and the durable record  *)
(* of the outcomes nobody could classify.                                  *)
(*                                                                         *)
(* First the store: PostgresUnknownStateStore with its queue table and its *)
(* append-only decision table.  Each operation is one PostgreSQL           *)
(* transaction.  A claim draws a fresh lease token and counts an attempt,  *)
(* so a token is the attempt it was drawn for.  The clocks of the workers  *)
(* are abstracted to whether a row is due and whether its lease has run    *)
(* out.                                                                    *)
(*                                                                         *)
(* Then the execution handler, the multirail Coordinator of each           *)
(* payment-engine process, and the two providers' books.  A request is its *)
(* idempotency key and its payload digest.  What the coordinator knows     *)
(* lives in the memory of its process.  A provider keys its books by the   *)
(* idempotency key: it carries out a submission once and answers a         *)
(* repeated one from its books.                                            *)
(***************************************************************************)
EXTENDS Naturals, FiniteSets

CONSTANTS Keys,      \* idempotency keys; a key is also its intent's ID
          Digests    \* payload digests

VARIABLES queue,     \* [Keys -> Rows]: table provider_unknown_reconciliation
          decisions  \* table provider_reconciliation_decision

unknownVars == <<queue, decisions>>

Terminal == {"provider_accepted", "confirmed_non_submission", "quarantined"}
Decisions == [key : Keys, attempt : Nat, decision : Terminal \cup {"awaiting"},
              source : {"provider", "idem"}]

Rows == [present : BOOLEAN, digest : Digests \cup {"none"}, attempts : Nat, due : BOOLEAN,
         lease : {"none", "held", "expired"}, resolved : BOOLEAN]

NoRow == [present |-> FALSE, digest |-> "none", attempts |-> 0, due |-> FALSE,
          lease |-> "none", resolved |-> FALSE]

UnknownInit == queue = [k \in Keys |-> NoRow] /\ decisions = {}

\* The row under key k is, or becomes, this intent's row.
Bindable(k, digest) == queue[k].present => queue[k].digest = digest

\* INSERT ... ON CONFLICT DO NOTHING: a row that is there stays as it is.
EnqueueUnknown(k, digest) ==
  /\ Bindable(k, digest)
  /\ queue' = [queue EXCEPT ![k] =
       IF @.present THEN @ ELSE [NoRow EXCEPT !.present = TRUE, !.digest = digest, !.due = TRUE]]
  /\ UNCHANGED decisions

\* Faulty variant: the claim does not count an attempt.
ClaimUncounted(k) ==
  /\ queue[k].present /\ ~queue[k].resolved /\ queue[k].due /\ queue[k].lease # "held"
  /\ queue' = [queue EXCEPT ![k].lease = "held"]
  /\ UNCHANGED decisions

Claim(k) ==
  /\ queue[k].present /\ ~queue[k].resolved /\ queue[k].due /\ queue[k].lease # "held"
  /\ queue' = [queue EXCEPT ![k].attempts = @ + 1, ![k].lease = "held"]
  /\ UNCHANGED decisions

\* The compare-and-set on attempts, lease token and resolved_at. The expiry of
\* the lease is not compared.
HoldsLease(k, attempt) ==
  queue[k].lease # "none" /\ queue[k].attempts = attempt /\ ~queue[k].resolved

\* A Reschedule or RecordDecision that fails changes nothing.
Reschedule(k, attempt) ==
  /\ queue' = IF HoldsLease(k, attempt)
                THEN [queue EXCEPT ![k].due = FALSE, ![k].lease = "none"] ELSE queue
  /\ UNCHANGED decisions

\* The insert takes place or repeats the same decision. A terminal decision is
\* unique per key, any decision per key and attempt.
Insertable(d) ==
  \/ d \in decisions
  \/ \A e \in decisions :
       e.key = d.key => e.attempt # d.attempt /\ ~(e.decision \in Terminal /\ d.decision \in Terminal)

\* The transaction commits: the caller's lease resolves the row, or the row is
\* resolved already and the decision of this attempt is the caller's own.
Recordable(d) ==
  Insertable(d) /\ (HoldsLease(d.key, d.attempt) \/ queue[d.key].resolved)

RecordDecision(d) ==
  IF Recordable(d)
    THEN /\ decisions' = decisions \cup {d}
         /\ queue' = [queue EXCEPT ![d.key].resolved = TRUE, ![d.key].lease = "none"]
    ELSE UNCHANGED unknownVars

\* Time passes: a row becomes due, a lease runs out.
BecomesDue(k) ==
  /\ queue[k].present /\ ~queue[k].due /\ ~queue[k].resolved
  /\ queue' = [queue EXCEPT ![k].due = TRUE]
  /\ UNCHANGED decisions

LeaseExpires(k) ==
  /\ queue[k].lease = "held"
  /\ queue' = [queue EXCEPT ![k].lease = "expired"]
  /\ UNCHANGED decisions

UnknownTypeOK ==
  /\ queue \in [Keys -> Rows]
  /\ decisions \subseteq Decisions

-----------------------------------------------------------------------------
\* The coordinator, its handler and the rails.

CONSTANTS Calls,       \* executions of the handler
          Processes,   \* payment-engine processes
          Deliveries,  \* which requests reach which process: [process, key, digest]
          MaxRestarts  \* bound on process restarts

ASSUME RailAssumption ==
  /\ \A d \in Deliveries : d.process \in Processes /\ d.key \in Keys /\ d.digest \in Digests
  /\ MaxRestarts \in Nat

VARIABLES books,      \* [Rails -> [Keys -> Books]]: what a provider has recorded
          wire,       \* submissions whose caller got no answer, not yet received
          memory,     \* [Processes -> [Keys -> Memory]]: the coordinator's maps
          call,       \* [Calls -> Call records]
          submitted,  \* [Processes -> [Keys -> Nat]]: primary submissions since the start
          restarts

railVars == <<books, wire>>
execVars == <<memory, call, submitted, restarts>>

Rails == {"primary", "secondary"}

\* "open" is a provisional acceptance; "refused" an explicit statement that the
\* payment was not and will not be made; "failed" any other failure.
Books == {"none", "open", "paid", "refused", "failed"}

\* What Execute returned: the rail that accepted, ErrUnknownOutcome, another error.
Outcomes == {"primary", "secondary", "unknown", "error"}

Memory == [bound : Digests \cup {"none"}, state : {"none", "inflight"} \cup Outcomes]
Forgotten == [bound |-> "none", state |-> "none"]

Phases == {"idle", "primary", "query", "secondary", "wait", "enqueue", "done"}
Replies == Outcomes \cup {"none", "conflict", "queued", "unqueued", "lost"}
NoDelivery == [process |-> "none", key |-> "none", digest |-> "none"]
IdleCall == [phase |-> "idle", of |-> NoDelivery, reply |-> "none"]

RailInit ==
  /\ books = [r \in Rails |-> [k \in Keys |-> "none"]]
  /\ wire = {}
  /\ memory = [p \in Processes |-> [k \in Keys |-> Forgotten]]
  /\ call = [c \in Calls |-> IdleCall]
  /\ submitted = [p \in Processes |-> [k \in Keys |-> 0]]
  /\ restarts = 0

-----------------------------------------------------------------------------
(* The providers. *)

\* A submission under a key that is in the books changes nothing.
Received(r, k) == IF books[r][k] = "none" THEN {"open", "paid", "refused", "failed"} ELSE {books[r][k]}

Record(r, k, b) == books' = [books EXCEPT ![r][k] = b]

(* How the rail adapters report a book entry: "accepted" for Settled, Pending *)
(* and Submitted, "noEffect" for a failure that is retryable without effect,  *)
(* "failed" for any other. A state the adapter does not know is unknown, and  *)
(* an open payment may be in one.                                             *)

normalizeYellowCardResult(b) ==
  CASE b = "paid"    -> {"accepted"}
    [] b = "open"    -> {"accepted", "unknown"}
    [] b = "refused" -> {"noEffect"}
    [] b = "failed"  -> {"unknown"}

normalizeNigerianRailResult(b) ==
  CASE b = "paid" -> {"accepted"}
    [] b = "open" -> {"accepted", "unknown"}
    [] OTHER      -> {"unknown"}

\* An aborted transfer is the only failure a Mojaloop switch reports.
normalizeMojaloopTransferState(b) == normalizeYellowCardResult(b)

\* The stablecoin provider states the class of the outcome itself.
validateStablecoinResponse(b) ==
  CASE b = "refused" -> {"noEffect"}
    [] b = "failed"  -> {"unknown", "failed"}
    [] OTHER         -> {"accepted", "unknown"}

\* Either rail may be any of them; a payment not in the books is an error.
Normalized(b) ==
  IF b = "none" THEN {"error"}
  ELSE normalizeYellowCardResult(b) \cup normalizeNigerianRailResult(b)
        \cup normalizeMojaloopTransferState(b) \cup validateStablecoinResponse(b)

\* A submission nobody waits for arrives after all.
Land(r, k) ==
  /\ <<r, k>> \in wire
  /\ wire' = wire \ {<<r, k>>}
  /\ \E b \in Received(r, k) : Record(r, k, b)

\* A provisional payment is made, expires or fails.
Progress(r, k) ==
  /\ books[r][k] = "open"
  /\ \E b \in {"paid", "refused", "failed"} : Record(r, k, b)
  /\ UNCHANGED wire

Providers == \E r \in Rails, k \in Keys : Land(r, k) \/ Progress(r, k)

-----------------------------------------------------------------------------
(* The coordinator. *)

Goto(c, phase) == call' = [call EXCEPT ![c].phase = phase]

\* The handler's answer to what Execute returned: an unknown outcome is queued.
Answered(entry, outcome) ==
  [entry EXCEPT !.phase = IF outcome = "unknown" THEN "enqueue" ELSE "done", !.reply = outcome]

finish(c, outcome) ==
  LET d == call[c].of
  IN /\ memory' = [memory EXCEPT ![d.process][d.key].state = outcome]
     /\ call' = [call EXCEPT ![c] = Answered(@, outcome)]

\* The first request of a key in this process leads, one with another payload is
\* refused, and the others share the leader's outcome, present or to come.
Execute(c, d) ==
  LET m == memory[d.process][d.key]
      entry == [IdleCall EXCEPT !.of = d]
      Enter(e) == call' = [call EXCEPT ![c] = e]
  IN /\ call[c].phase = "idle"
     /\ \/ /\ m.state = "none"
           /\ memory' = [memory EXCEPT ![d.process][d.key] = [bound |-> d.digest, state |-> "inflight"]]
           /\ Enter([entry EXCEPT !.phase = "primary"])
        \/ /\ m.state # "none" /\ m.bound # d.digest
           /\ Enter([entry EXCEPT !.phase = "done", !.reply = "conflict"])
           /\ UNCHANGED memory
        \/ /\ m.state = "inflight" /\ m.bound = d.digest
           /\ Enter([entry EXCEPT !.phase = "wait"])
           /\ UNCHANGED memory
        \/ /\ m.state \in Outcomes /\ m.bound = d.digest
           /\ Enter(Answered(entry, m.state))
           /\ UNCHANGED memory
     /\ UNCHANGED <<submitted, restarts, railVars>>

\* A follower gets the leader's outcome, or its own context ends first.
Follow(c) ==
  LET d == call[c].of
      state == memory[d.process][d.key].state
  IN /\ call[c].phase = "wait"
     /\ \/ state \in Outcomes /\ call' = [call EXCEPT ![c] = Answered(@, state)]
        \/ call' = [call EXCEPT ![c] = Answered(@, "error")]
     /\ UNCHANGED <<memory, submitted, restarts, railVars>>

\* primary.Submit: an answer decides, an error is followed by a query.
SubmitPrimary(c) ==
  LET d == call[c].of
      k == d.key
  IN /\ call[c].phase = "primary"
     /\ submitted' = [submitted EXCEPT ![d.process][k] = @ + 1]
     /\ \/ /\ wire' = wire \cup {<<"primary", k>>}
           /\ Goto(c, "query")
           /\ UNCHANGED <<books, memory>>
        \/ \E b \in Received("primary", k) : \E answer \in Normalized(b) :
             /\ Record("primary", k, b)
             /\ \/ answer = "accepted" /\ finish(c, "primary")
                \/ answer = "noEffect" /\ Goto(c, "secondary") /\ UNCHANGED memory
                \/ answer \in {"unknown", "failed"} /\ finish(c, "unknown")
             /\ UNCHANGED wire
     /\ UNCHANGED restarts

\* Faulty variant: a payment the provider has not heard of counts as not made.
QueryPrimaryAbsentIsSafe(c) ==
  LET k == call[c].of.key
  IN /\ call[c].phase = "query"
     /\ \/ books["primary"][k] \in {"refused", "none"} /\ Goto(c, "secondary") /\ UNCHANGED memory
        \/ finish(c, "unknown")
     /\ UNCHANGED <<submitted, restarts, railVars>>

\* primary.Query after a failed submission: only an explicit no-effect answer
\* opens the way to the other rail, everything else is unknown.
QueryPrimary(c) ==
  LET k == call[c].of.key
  IN /\ call[c].phase = "query"
     /\ \/ "noEffect" \in Normalized(books["primary"][k]) /\ Goto(c, "secondary") /\ UNCHANGED memory
        \/ finish(c, "unknown")
     /\ UNCHANGED <<submitted, restarts, railVars>>

\* secondary.Submit: an error is returned as it is, and is ErrUnknownOutcome only
\* when the rail says so.
SubmitSecondary(c) ==
  LET k == call[c].of.key
  IN /\ call[c].phase = "secondary"
     /\ \/ /\ wire' = wire \cup {<<"secondary", k>>}
           /\ \E outcome \in {"unknown", "error"} : finish(c, outcome)
           /\ UNCHANGED books
        \/ \E b \in Received("secondary", k) : \E answer \in Normalized(b) :
             /\ Record("secondary", k, b)
             /\ finish(c, IF answer = "accepted" THEN "secondary" ELSE "unknown")
             /\ UNCHANGED wire
     /\ UNCHANGED <<submitted, restarts>>

Coordinate(c) ==
  /\ (\E d \in Deliveries : Execute(c, d)) \/ Follow(c) \/ SubmitPrimary(c) \/ QueryPrimary(c) \/ SubmitSecondary(c)
  /\ UNCHANGED unknownVars

\* The handler queues an unknown outcome in the context of the request, which
\* may be over; the store refuses a key bound to another payload.
Enqueue(c) ==
  LET d == call[c].of
      Reply(r) == call' = [call EXCEPT ![c].phase = "done", ![c].reply = r]
  IN /\ call[c].phase = "enqueue"
     /\ \/ EnqueueUnknown(d.key, d.digest) /\ Reply("queued")
        \/ Reply("unqueued") /\ UNCHANGED unknownVars
     /\ UNCHANGED <<memory, submitted, restarts, railVars>>

\* A process stops; its memory is gone, and so are the requests it was serving.
Restart(p) ==
  LET serving == {c \in Calls : call[c].phase \notin {"idle", "done"} /\ call[c].of.process = p}
  IN /\ restarts < MaxRestarts
     /\ restarts' = restarts + 1
     /\ memory' = [memory EXCEPT ![p] = [k \in Keys |-> Forgotten]]
     /\ submitted' = [submitted EXCEPT ![p] = [k \in Keys |-> 0]]
     /\ call' = [c \in Calls |-> IF c \in serving THEN [call[c] EXCEPT !.phase = "done", !.reply = "lost"]
                                                  ELSE call[c]]
     /\ UNCHANGED <<railVars, unknownVars>>

RailNext ==
  \/ \E c \in Calls : Coordinate(c) \/ Enqueue(c)
  \/ \E p \in Processes : Restart(p)
  \/ Providers /\ UNCHANGED <<execVars, unknownVars>>
=============================================================================
