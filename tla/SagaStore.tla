------------------------------ MODULE SagaStore ------------------------------
(***************************************************************************)
(* The durable settlement saga of the payment engine: the row, the         *)
(* transition evidence and the outbox event that PostgresSagaStore writes  *)
(* in one PostgreSQL transaction, and the stage order every writer obeys.  *)
(*                                                                         *)
(* Identifiers and references are abstracted to whether the row holds one. *)
(* The saga ID is a hash of tenant, key and payload digest, so two records *)
(* of one key have the same saga ID exactly when their digests agree.      *)
(***************************************************************************)
EXTENDS Naturals, SettlementIntents

TerminalStages == {"settled", "held", "unknown"}

Stages == {"received", "screened", "routed", "liquidity_reserved",
           "ledger_prepared", "fiat_submitted", "custody_submitted",
           "finality_confirmed", "ledger_committed", "attestation_verified"}
            \cup TerminalStages

\* The references a row may hold. A custody submission records the custody
\* reference and the blockchain transaction together.
References == {"route", "provider", "custody", "pending", "transfer", "attestation"}

NoRequest == [key |-> "none", intent |-> "none", digest |-> "none", direction |-> "none"]

\* The zero SettlementRecord of Go, and also a key that has no row.
EmptyRecord == [stage |-> "none", version |-> 0, req |-> NoRequest, refs |-> {}]

Records == [stage : Stages \cup {"none"}, version : Nat,
            req : Requests \cup {NoRequest}, refs : SUBSET References]

CONSTANT Updates   \* the sets of references a caller may record with one step

ASSUME UpdatesAssumption == Updates \subseteq SUBSET References

VARIABLES saga,    \* [Keys -> Records]: table settlement_saga
          events   \* [Keys -> SUBSET [version, stage]]: transition and outbox rows

storeVars == <<saga, events>>

-----------------------------------------------------------------------------
(* Stage order. *)

terminalStage(stage) == stage \in TerminalStages

stageSuccessors ==
  [s \in Stages |->
     CASE s = "received"             -> {"screened"}
       [] s = "screened"             -> {"routed"}
       [] s = "routed"               -> {"liquidity_reserved"}
       [] s = "liquidity_reserved"   -> {"ledger_prepared"}
       [] s = "ledger_prepared"      -> {"fiat_submitted", "custody_submitted"}
       [] s = "fiat_submitted"       -> {"custody_submitted"}
       [] s = "custody_submitted"    -> {"finality_confirmed", "fiat_submitted"}
       [] s = "finality_confirmed"   -> {"ledger_committed", "fiat_submitted"}
       [] s = "ledger_committed"     -> {"attestation_verified"}
       [] s = "attestation_verified" -> {"settled"}
       [] OTHER                      -> {}]

\* Faulty variant: a terminal saga can still be held or marked unknown.
stageAllowsFromTerminal(from, to) ==
  to \in {"held", "unknown"} \/ to \in stageSuccessors[from]

stageAllows(from, to) ==
  IF to \in {"held", "unknown"} THEN ~terminalStage(from)
                                ELSE to \in stageSuccessors[from]

stageAllowsRecord(record, to) ==
  LET from == record.stage
      dir  == record.req.direction
  IN CASE from = "ledger_prepared" ->
            \/ dir = "onramp"  /\ to = "fiat_submitted"
            \/ dir = "offramp" /\ to = "custody_submitted"
            \/ to \in {"held", "unknown"}
       [] from = "fiat_submitted" /\ to = "ledger_committed" ->
            dir = "offramp" /\ "custody" \in record.refs
       [] from = "fiat_submitted" /\ to = "custody_submitted" -> dir = "onramp"
       [] from = "finality_confirmed" /\ to = "ledger_committed" -> dir = "onramp"
       [] from = "finality_confirmed" /\ to = "fiat_submitted" -> dir = "offramp"
       [] OTHER -> stageAllows(from, to)

recordWithUpdate(record, stage, refs) ==
  [stage |-> stage, version |-> record.version + 1, req |-> record.req,
   refs |-> record.refs \cup refs]

-----------------------------------------------------------------------------
(* Transactions. Each is one atomic step; the caller decides what it learns *)
(* of the outcome.                                                          *)

\* A row of key k satisfies the unique constraints of settlement_saga. The two
\* ledger identifiers are UNIQUE NULLS NOT DISTINCT: within a tenant a second
\* row without an identifier collides with the first.
UniqueLedgerIDs(k, record) ==
  \A j \in Keys \ {k} :
    saga[j].version > 0 /\ TenantOf[j] = TenantOf[k] =>
      \A id \in {"pending", "transfer"} : id \in record.refs \/ id \in saga[j].refs

UniqueIntent(k, request) ==
  \A j \in Keys \ {k} :
    saga[j].version > 0 /\ TenantOf[j] = TenantOf[k] => saga[j].req.intent # request.intent

insertTransitionAndOutbox(k, record) ==
  events' = [events EXCEPT ![k] = @ \cup {[version |-> record.version, stage |-> record.stage]}]

\* The outbox holds one event per stage of a saga, the transition table one row
\* per version: an insert that repeats either aborts the transaction.
FreshEvent(k, record) ==
  \A e \in events[k] : e.stage # record.stage /\ e.version # record.version

\* Faulty variant: the row is written without evidence.
WriteRowOnly(k, record) ==
  saga' = [saga EXCEPT ![k] = record] /\ UNCHANGED events

WriteRow(k, record) ==
  /\ saga' = [saga EXCEPT ![k] = record]
  /\ insertTransitionAndOutbox(k, record)

ReservedRecord(request) ==
  [stage |-> "received", version |-> 1, req |-> request, refs |-> {}]

\* INSERT ... ON CONFLICT DO NOTHING inserts a row.
ReserveInserts(request) ==
  LET k == request.key
  IN /\ saga[k].version = 0
     /\ UniqueLedgerIDs(k, ReservedRecord(request))
     /\ UniqueIntent(k, request)

SameBinding(record, request) ==
  record.req.intent = request.intent /\ record.req.digest = request.digest

\* The checks of Advance: the caller's record is current and the move is legal.
AdvanceAllowed(k, current, next, refs) ==
  LET nextRecord == recordWithUpdate(saga[k], next, refs)
  IN /\ current.version > 0
     /\ stageAllowsRecord(current, next)
     /\ saga[k].req.digest = current.req.digest
     /\ saga[k].version = current.version
     /\ saga[k].stage = current.stage
     /\ UniqueLedgerIDs(k, nextRecord)
     /\ FreshEvent(k, nextRecord)

\* ResolveUnknownSaga: the decision of a consumed authorization ends an UNKNOWN saga.
ResolvedRecord(record, decision, refs) ==
  recordWithUpdate(record, IF decision = "commit" THEN "settled" ELSE "held", refs)

-----------------------------------------------------------------------------
(* What the store promises whoever calls it: any reservation, any legal     *)
(* advance of the current record, any authorised resolution.                *)

StoreInit ==
  /\ saga = [k \in Keys |-> EmptyRecord]
  /\ events = [k \in Keys |-> {}]

StoreReserve(r) ==
  /\ ReserveInserts(r)
  /\ WriteRow(r.key, ReservedRecord(r))

StoreAdvance(k, next, refs) ==
  /\ AdvanceAllowed(k, saga[k], next, refs)
  /\ WriteRow(k, recordWithUpdate(saga[k], next, refs))

StoreResolve(k, decision, refs) ==
  /\ saga[k].stage = "unknown"
  /\ WriteRow(k, ResolvedRecord(saga[k], decision, refs))

StoreNext ==
  \/ \E r \in Requests : StoreReserve(r)
  \/ \E k \in Keys, next \in Stages, refs \in Updates : StoreAdvance(k, next, refs)
  \/ \E k \in Keys, decision \in {"commit", "void", "hold"}, refs \in Updates :
       StoreResolve(k, decision, refs)

StoreSpec == StoreInit /\ [][StoreNext]_storeVars

-----------------------------------------------------------------------------
\* The saga rows, their evidence and their outbox have their types.
StoreTypeOK ==
  /\ saga \in [Keys -> Records]
  /\ events \in [Keys -> SUBSET [version : Nat, stage : Stages]]

\* Every version of a row left exactly one piece of evidence, the last one names
\* the row's stage, and no stage was entered twice: state, transition evidence
\* and outbox event are written by one transaction (Reserve, Advance,
\* ResolveUnknownSaga) and their unique constraints never abort a legal move.
EvidenceMatchesRow ==
  \A k \in Keys :
    /\ {e.version : e \in events[k]} = 1 .. saga[k].version
    /\ saga[k].version > 0 => [version |-> saga[k].version, stage |-> saga[k].stage] \in events[k]
    /\ \A e, f \in events[k] : e.stage = f.stage \/ e.version = f.version => e = f

\* A settled or held saga is never touched again, an unknown one only by a
\* resolution, and what a row has once bound (its intent and its references)
\* it keeps: the promise of the SettlementRecord comment.
TerminalIsFinal ==
  [][\A k \in Keys :
       /\ saga[k].stage \in {"settled", "held"} => saga'[k] = saga[k]
       /\ saga[k].stage = "unknown" => saga'[k].stage \in TerminalStages
       /\ saga[k].version > 0 => /\ saga'[k].req = saga[k].req
                                 /\ saga[k].refs \subseteq saga'[k].refs]_storeVars

\* Within a tenant at most one saga is without a ledger transfer: the unique
\* constraints treat two missing identifiers as equal.
OneUncommittedPerTenant ==
  \A j, k \in Keys :
    /\ saga[j].version > 0 /\ saga[k].version > 0
    /\ TenantOf[j] = TenantOf[k]
    /\ "transfer" \notin saga[j].refs \cup saga[k].refs
    => j = k

\* An off-ramp pays fiat out only after the redemption is final, as the comment
\* on stageAllowsRecord says.
OfframpFiatAfterFinality ==
  \A k \in Keys :
    saga[k].req.direction = "offramp" /\ saga[k].stage = "fiat_submitted" =>
      \E e \in events[k] : e.stage = "finality_confirmed"

\* What the store keeps for every caller: a row with its evidence and events, and one
\* uncommitted saga of a tenant at a time (postgres_saga.go, migration 0062).
StoreSafety ==
  /\ StoreTypeOK
  /\ EvidenceMatchesRow
  /\ OneUncommittedPerTenant
=============================================================================
