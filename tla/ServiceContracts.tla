-------------------------- MODULE ServiceContracts --------------------------
(***************************************************************************)
(* The boundary between the control plane and the Go, Rust and Python      *)
(* services.  A call asks one service; the service answers honestly, or a  *)
(* regression or the transport changes what arrives; the contract parser   *)
(* of that kind of answer accepts or refuses it, and the bridge turns the  *)
(* result into "ok", "not_configured" or "unavailable".  Audit trails are  *)
(* handed to their parser directly.  The Rust gateway and the Go trail are *)
(* modelled from their own sources, so that the two sides of each contract *)
(* are checked against one another.                                        *)
(***************************************************************************)
EXTENDS Integers, Sequences, FiniteSets, SequencesExt

CONSTANTS
  TrailOrders,  \* orders that have an audit trail
  MaxEvents,    \* bound: events of a trail
  MaxPostings,  \* bound: postings of a set
  MaxMinor      \* bound: amounts in minor units

ASSUME ContractAssumption == MaxEvents \in Nat /\ MaxPostings \in Nat \ {0} /\ MaxMinor \in Nat \ {0}

VARIABLES
  bridgeUrl, \* the service's endpoint setting: "unset", "refused" or "accepted"
  question,  \* what was asked, [kind |-> "none"] before the call
  reply,     \* what arrived, and whether it is the honest answer
  result     \* what the caller got

contractVars == <<bridgeUrl, question, reply, result>>

Currencies == {"NGN", "USD"}
CallKinds == {"monitoring", "counterparty", "report", "exposure", "postings", "reconcile", "trail"}
NotAsked == [kind |-> "none"]
NoReply == [transport |-> "none"]
NoResult == [status |-> "none"]
Shapes == {"exact", "unknown_key", "execution_key"}

-----------------------------------------------------------------------------
(* The services.                                                           *)

(* AuditTrail.Append: event n of an order's trail.  A hash stands for the  *)
(* content it digests, the previous hash included; <<>> is the empty hash. *)
EventHash(o, n) == <<o, n>>
AuditEvent(o, n) ==
  [sequence |-> n, order |-> o, hash |-> EventHash(o, n),
   previous |-> IF n = 1 THEN <<>> ELSE EventHash(o, n - 1)]
AuditTrail(o, n) == [i \in 1..n |-> AuditEvent(o, i)]

Posting == [currency : Currencies, debit : 0..MaxMinor, credit : 0..MaxMinor]
PostingSets == UNION {[1..n -> Posting] : n \in 1..MaxPostings}

(* The running balance of a currency over a posting set.                   *)
Net(postings, c) ==
  FoldLeft(LAMBDA net, p : IF p.currency = c THEN net + p.debit - p.credit ELSE net, 0, postings)

NoImbalance == [currency |-> "none", net |-> 0]
Imbalance(c, net) == [currency |-> c, net |-> net]

(* validate_balanced: the first unbalanced currency in the order of names. *)
ValidateBalanced(postings) ==
  IF Net(postings, "NGN") # 0 THEN Imbalance("NGN", Net(postings, "NGN"))
  ELSE IF Net(postings, "USD") # 0 THEN Imbalance("USD", Net(postings, "USD"))
  ELSE NoImbalance

(* A confirmed transfer and its projection, 0 where nothing was projected. *)
Transfer == [id : 1..2, amount : 1..2]
Projection == [id : 0..2, amount : 0..2]
Complete(t) == t.id # 0 /\ t.amount # 0

(* verify_projection.                                                      *)
VerifyProjection(fact, projection) ==
  IF ~Complete(fact) THEN "INCOMPLETE_CONFIRMED_FACT"
  ELSE IF ~Complete(projection) THEN "INCOMPLETE_PROJECTION"
  ELSE IF fact # projection THEN "MISMATCH"
  ELSE "none"

(* What the service behind a question answers when it works as written.    *)
HonestAnswer(q) ==
  CASE q.kind = "postings" ->
         [shape |-> "exact", postings |-> q.postings, imbalance |-> ValidateBalanced(q.postings),
          balanced |-> ValidateBalanced(q.postings) = NoImbalance]
    [] q.kind = "reconcile" ->
         LET reason == VerifyProjection(q.fact, q.projection)
         IN  [shape |-> "exact", fact |-> q.fact, projection |-> q.projection,
              reconciled |-> reason = "none", reason |-> reason]
    [] q.kind = "trail" -> [shape |-> "exact", order |-> q.order, events |-> AuditTrail(q.order, q.length)]

(* The other answers that fit on the wire: a regressed service says        *)
(* anything of its envelope's type about what it was asked.                *)
RegressedAnswers(q) ==
  CASE q.kind = "monitoring" ->
         [shape : Shapes, decision : {"ALLOW", "MANUAL_REVIEW", "BLOCK"}, findings : 0..1, missingInput : BOOLEAN]
    [] q.kind = "counterparty" ->
         [shape : Shapes, band : {"UNDETERMINED", "LOW", "MEDIUM", "HIGH", "PROHIBITED"},
          reasons : 0..1, review : BOOLEAN]
    [] q.kind = "report" ->
         [shape : Shapes, regulator : {"CBN", "CBK", "SARB"},
          corridor : {"NIGERIA_NGN", "KENYA_KES", "SOUTH_AFRICA_ZAR"}, start : 1..2, end : 1..2]
    [] q.kind = "exposure" -> [shape : Shapes, positions : 0..2, references : 0..2]
    [] q.kind = "postings" ->
         [shape : {"exact"}, postings : {q.postings}, balanced : BOOLEAN,
          imbalance : {NoImbalance} \cup [currency : Currencies, net : -MaxMinor..MaxMinor]]
    [] q.kind = "reconcile" ->
         [shape : {"exact"}, fact : {q.fact}, projection : {q.projection}, reconciled : BOOLEAN,
          reason : {"none", "INCOMPLETE_CONFIRMED_FACT", "INCOMPLETE_PROJECTION", "MISMATCH"}]
    [] q.kind = "trail" ->
         LET trail == AuditTrail(q.order, q.length)
             other == {AuditEvent(o, n) : o \in TrailOrders \ {q.order}, n \in 1..MaxEvents}
         IN  [shape : {"exact"}, order : {q.order},
              events : {RemoveAt(trail, i) : i \in DOMAIN trail}
                  \cup {InsertAt(trail, j, trail[i]) : i, j \in DOMAIN trail}
                  \cup {[trail EXCEPT ![i] = trail[j], ![j] = trail[i]] : i, j \in DOMAIN trail}
                  \cup {[trail EXCEPT ![i] = e] : i \in DOMAIN trail, e \in other}]

-----------------------------------------------------------------------------
(* The contract parsers.  Every one refuses a payload with an execution    *)
(* key anywhere, then one that is not exactly its strict schema.           *)

AssertNoExecutionAuthority(e) == e.shape # "execution_key"
Strict(e) == AssertNoExecutionAuthority(e) /\ e.shape = "exact"

(* Plausible bug: only the sequence numbers are compared.                  *)
ParseTrailNumbersOnly(e) == Strict(e) /\ \A i \in DOMAIN e.events : e.events[i].sequence = i

ParseGoAuditTrailEnvelope(e) ==
  /\ Strict(e)
  /\ \A i \in DOMAIN e.events :
       /\ e.events[i].sequence = i
       /\ e.events[i].order = e.order
       /\ e.events[i].previous = IF i = 1 THEN <<>> ELSE e.events[i - 1].hash

ParseRustMonitoringResult(e) ==
  /\ Strict(e) /\ e.findings >= 1
  /\ e.missingInput => e.decision = "BLOCK"

ParseRustCounterpartyRisk(e) ==
  /\ Strict(e)
  /\ e.band \in {"UNDETERMINED", "PROHIBITED"} => e.review
  /\ e.band = "UNDETERMINED" => e.reasons > 0

Supervises == [CBN |-> "NIGERIA_NGN", CBK |-> "KENYA_KES", SARB |-> "SOUTH_AFRICA_ZAR"]
ParsePythonAssembledReport(e) ==
  Strict(e) /\ e.end >= e.start /\ Supervises[e.regulator] = e.corridor

ParsePythonStablecoinExposure(e) == Strict(e) /\ e.positions >= 1 /\ e.references >= 1

ParseRustLedgerValidation(e) ==
  LET derivedBalanced == \A c \in Currencies : Net(e.postings, c) = 0
      mentioned == {e.postings[i].currency : i \in DOMAIN e.postings}
  IN  /\ Strict(e)
      /\ derivedBalanced = e.balanced
      /\ e.balanced = (e.imbalance = NoImbalance)
      /\ e.imbalance # NoImbalance =>
           /\ e.imbalance.currency \in mentioned
           /\ Net(e.postings, e.imbalance.currency) = e.imbalance.net

(* The strict minimums refuse an incomplete projection.                    *)
ParseRustLedgerReconciliation(e) ==
  /\ Strict(e) /\ Complete(e.fact) /\ Complete(e.projection)
  /\ e.reconciled => e.fact = e.projection
  /\ e.reconciled = (e.reason = "none")
  /\ e.reason = "MISMATCH" => e.fact # e.projection

Validate(kind, e) ==
  CASE kind = "monitoring"   -> ParseRustMonitoringResult(e)
    [] kind = "counterparty" -> ParseRustCounterpartyRisk(e)
    [] kind = "report"       -> ParsePythonAssembledReport(e)
    [] kind = "exposure"     -> ParsePythonStablecoinExposure(e)
    [] kind = "postings"     -> ParseRustLedgerValidation(e)
    [] kind = "reconcile"    -> ParseRustLedgerReconciliation(e)
    [] kind = "trail"        -> ParseGoAuditTrailEnvelope(e)

-----------------------------------------------------------------------------
(* A call.                                                                 *)

ContractInit ==
  /\ bridgeUrl \in {"unset", "refused", "accepted"}
  /\ question = NotAsked /\ reply = NoReply /\ result = NoResult

Ask(q) ==
  /\ question = NotAsked
  /\ question' = q
  /\ UNCHANGED <<bridgeUrl, reply, result>>

ValidateLedgerPostingsViaService == \E p \in PostingSets : Ask([kind |-> "postings", postings |-> p])
ReconcileLedgerProjectionViaService ==
  \E f \in Transfer, p \in Projection : Ask([kind |-> "reconcile", fact |-> f, projection |-> p])
EvaluateMonitoringViaService == Ask([kind |-> "monitoring"])
AssessCounterpartyRiskViaService == Ask([kind |-> "counterparty"])
AssembleReportViaService == Ask([kind |-> "report"])
ComputeStablecoinExposureViaService == Ask([kind |-> "exposure"])
ParseGoAuditTrail ==
  \E o \in TrailOrders, n \in 0..MaxEvents : Ask([kind |-> "trail", order |-> o, length |-> n])

Asked == question.kind # "none" /\ reply = NoReply /\ result = NoResult
Reached == Asked /\ (question.kind = "trail" \/ bridgeUrl = "accepted")

ServiceAnswers ==
  /\ Reached /\ question.kind \in {"postings", "reconcile", "trail"}
  /\ reply' = [transport |-> "ok", honest |-> TRUE, envelope |-> HonestAnswer(question)]
  /\ UNCHANGED <<bridgeUrl, question, result>>

RegressedServiceAnswers ==
  /\ Reached
  /\ \E e \in RegressedAnswers(question) :
       reply' = [transport |-> "ok", honest |-> FALSE, envelope |-> e]
  /\ UNCHANGED <<bridgeUrl, question, result>>

(* An error status, a body that is not JSON, no connection, or the         *)
(* request's own timer.                                                    *)
TransportFails ==
  /\ Reached /\ question.kind # "trail"
  /\ \E t \in {"http_error", "non_json", "unreachable", "timed_out"} : reply' = [transport |-> t]
  /\ UNCHANGED <<bridgeUrl, question, result>>

(* callService.                                                            *)
CallReturns ==
  /\ question.kind # "none" /\ result = NoResult /\ ~Reached
  /\ result' = IF question.kind # "trail" /\ bridgeUrl = "refused" THEN [status |-> "unavailable"]
               ELSE IF question.kind # "trail" /\ bridgeUrl = "unset" THEN [status |-> "not_configured"]
               ELSE IF reply.transport = "ok" /\ Validate(question.kind, reply.envelope)
               THEN [status |-> "ok", payload |-> reply.envelope]
               ELSE [status |-> "unavailable"]
  /\ UNCHANGED <<bridgeUrl, question, reply>>

NextCall ==
  /\ result # NoResult
  /\ question' = NotAsked /\ reply' = NoReply /\ result' = NoResult
  /\ UNCHANGED bridgeUrl

ContractNext ==
  \/ ValidateLedgerPostingsViaService \/ ReconcileLedgerProjectionViaService
  \/ EvaluateMonitoringViaService \/ AssessCounterpartyRiskViaService
  \/ AssembleReportViaService \/ ComputeStablecoinExposureViaService
  \/ ParseGoAuditTrail
  \/ ServiceAnswers \/ RegressedServiceAnswers \/ TransportFails
  \/ CallReturns \/ NextCall

ContractSpec == ContractInit /\ [][ContractNext]_contractVars

(* describeServiceConfiguration: a refused endpoint counts as not          *)
(* configured on the console.                                              *)
DescribeServiceConfiguration == bridgeUrl = "accepted"

-----------------------------------------------------------------------------
(* Kinds and statuses of a call.                                           *)
ContractTypeOK ==
  /\ bridgeUrl \in {"unset", "refused", "accepted"}
  /\ question.kind \in CallKinds \cup {"none"}
  /\ result.status \in {"none", "ok", "not_configured", "unavailable"}

(* An accepted audit trail is what the engine recorded for that order up   *)
(* to some event: no loss, duplicate, reordering or event of another order *)
(* inside it gets past the parser.                                         *)
AcceptedTrailIsPrefix ==
  question.kind = "trail" /\ result.status = "ok" =>
    IsPrefix(result.payload.events, AuditTrail(question.order, question.length))

(* The sum of one side of a posting set, currency by currency.             *)
Side(postings, c, side) ==
  FoldFunctionOnSet(+, 0, [i \in DOMAIN postings |-> postings[i][side]],
                    {i \in DOMAIN postings : postings[i].currency = c})

(* A verdict of the ledger gateway that the bridge passes on is true of    *)
(* the records it is about, whatever the gateway claimed: balanced means   *)
(* debits equal credits in every currency, an imbalance names a currency   *)
(* and its real difference, and reconciled means the projection repeats    *)
(* the transfer.                                                           *)
AcceptedVerdictsHold ==
  result.status = "ok" =>
    /\ question.kind = "postings" =>
         LET p == question.postings
             i == result.payload.imbalance
         IN  /\ result.payload.balanced <=> \A c \in Currencies : Side(p, c, "debit") = Side(p, c, "credit")
             /\ ~result.payload.balanced => i.net = Side(p, i.currency, "debit") - Side(p, i.currency, "credit")
    /\ question.kind = "reconcile" =>
         (result.payload.reconciled => question.fact = question.projection)

(* The two sides of each contract agree: when the endpoint is accepted and *)
(* a service that works as written answers a question about complete       *)
(* records, its answer reaches the caller, and the console shows the       *)
(* service as configured.                                                  *)
HonestAnswersReachCaller ==
  result # NoResult /\ reply # NoReply /\ reply.transport = "ok" /\ reply.honest
  /\ (question.kind = "reconcile" => Complete(question.projection))
    => result.status = "ok" /\ (question.kind = "trail" \/ DescribeServiceConfiguration)

\* The parsers are exact: they accept only what an honest service can have meant, and
\* refuse nothing an honest service says (contracts/services.ts, serviceBridge.ts).
ContractSafety ==
  /\ ContractTypeOK
  /\ AcceptedTrailIsPrefix /\ AcceptedVerdictsHold
  /\ HonestAnswersReachCaller
=============================================================================
