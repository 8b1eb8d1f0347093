---------------------------- MODULE SettlementSaga ----------------------------
(***************************************************************************)
(* The settlement coordinator: concurrent calls of Execute, each driving   *)
(* the saga it owns from screening to SETTLED, with every store            *)
(* transaction and every call to an authority a step of its own.           *)
(*                                                                         *)
(* A call alternates between asking an authority (phase "call") and        *)
(* persisting the stage that the answer allows (phase "advance").  A store *)
(* transaction can fail before it takes effect, or take effect and lose    *)
(* its answer; MaxFaults bounds how often.  A process can stop anywhere.   *)
(***************************************************************************)
EXTENDS SagaStore, SettlementParties

CONSTANTS Calls,           \* invocations of Execute
          MaxFaults,       \* bound on failed or unanswered store transactions
          ReserveScanFits  \* the row Reserve returns has the columns scanSaga reads

ASSUME CoordinatorAssumption ==
  /\ MaxFaults \in Nat
  /\ ReserveScanFits \in BOOLEAN

VARIABLES phase,   \* [Calls -> Phases]
          op,      \* [Calls -> Ops]: the operation being called or persisted
          req,     \* [Calls -> Requests \cup {NoRequest}]
          rec,     \* [Calls -> Records]: the local variable record of executeOwned
          reply,   \* [Calls -> Replies]
          faults

callVars == <<phase, op, req, rec, reply>>
vars == <<storeVars, partyVars, callVars, faults>>

Phases  == {"idle", "reserve", "call", "advance", "void", "hold", "unknown", "done"}
Replies == {"none", "SETTLED", "HELD", "UNKNOWN"}
Ops == {"screen", "route", "liquidity", "prepare", "collect", "custody",
        "finality", "payout", "commit", "attest", "settle"}

\* The calls that still own their saga.
Active(c) == phase[c] \in {"call", "advance", "void", "hold", "unknown"}

-----------------------------------------------------------------------------
(* The order of operations and what each one persists. *)

\* Faulty variant: an off-ramp pays out once the redemption is submitted.
NextOpPaysEarly(direction, o) ==
  CASE o = "screen"    -> "route"
    [] o = "route"     -> "liquidity"
    [] o = "liquidity" -> "prepare"
    [] o = "prepare"   -> "custody"
    [] OTHER           -> "payout"

NextOp(direction, o) ==
  CASE o = "screen"    -> "route"
    [] o = "route"     -> "liquidity"
    [] o = "liquidity" -> "prepare"
    [] o = "prepare"   -> IF direction = "onramp" THEN "collect" ELSE "custody"
    [] o = "collect"   -> "custody"
    [] o = "custody"   -> "finality"
    [] o = "finality"  -> IF direction = "onramp" THEN "commit" ELSE "payout"
    [] o = "payout"    -> "commit"
    [] o = "commit"    -> "attest"
    [] OTHER           -> "settle"

StageOf ==
  [o \in Ops |->
     CASE o = "screen"    -> "screened"
       [] o = "route"     -> "routed"
       [] o = "liquidity" -> "liquidity_reserved"
       [] o = "prepare"   -> "ledger_prepared"
       [] o = "custody"   -> "custody_submitted"
       [] o = "finality"  -> "finality_confirmed"
       [] o = "commit"    -> "ledger_committed"
       [] o = "attest"    -> "attestation_verified"
       [] o = "settle"    -> "settled"
       [] OTHER           -> "fiat_submitted"]

UpdateOf ==
  [o \in Ops |->
     CASE o = "route"   -> {"route"}
       [] o = "prepare" -> {"pending"}
       [] o = "custody" -> {"custody"}
       [] o = "commit"  -> {"transfer"}
       [] o = "attest"  -> {"attestation"}
       [] o = "settle"  -> {"provider", "attestation"}
       [] o \in {"collect", "payout"} -> {"provider"}
       [] OTHER         -> {}]

\* What the coordinator records is what a caller of the store may record.
ASSUME RecordedUpdates == \A o \in Ops : UpdateOf[o] \in Updates

-----------------------------------------------------------------------------
Init ==
  /\ StoreInit
  /\ PartiesInit
  /\ phase = [c \in Calls |-> "idle"]
  /\ op = [c \in Calls |-> "screen"]
  /\ req = [c \in Calls |-> NoRequest]
  /\ rec = [c \in Calls |-> EmptyRecord]
  /\ reply = [c \in Calls |-> "none"]
  /\ faults = 0

Goto(c, p) == phase' = [phase EXCEPT ![c] = p]

Return(c, state) == Goto(c, "done") /\ reply' = [reply EXCEPT ![c] = state]

Fault == faults < MaxFaults /\ faults' = faults + 1

\* A caller submits an intent.
Submit(c, r) ==
  /\ phase[c] = "idle"
  /\ req' = [req EXCEPT ![c] = r]
  /\ Goto(c, "reserve")
  /\ UNCHANGED <<storeVars, partyVars, op, rec, reply, faults>>

resultFromRecord(record) ==
  CASE record.stage = "settled" -> "SETTLED"
    [] record.stage = "held"    -> "HELD"
    [] OTHER                    -> "UNKNOWN"

\* Saga.Reserve inserts the row and the caller owns the saga.
ReserveOwned(c) ==
  /\ phase[c] = "reserve"
  /\ ReserveScanFits /\ ReserveInserts(req[c])
  /\ WriteRow(req[c].key, ReservedRecord(req[c]))
  /\ \/ /\ rec' = [rec EXCEPT ![c] = ReservedRecord(req[c])]
        /\ Goto(c, "call")
        /\ UNCHANGED <<reply, faults>>
     \/ Return(c, "UNKNOWN") /\ Fault /\ UNCHANGED rec
  /\ UNCHANGED <<partyVars, op, req>>

\* Saga.Reserve finds the row: same binding, or ErrSagaPayloadChanged.
ReserveExisting(c) ==
  LET row == saga[req[c].key]
  IN /\ phase[c] = "reserve"
     /\ row.version > 0
     /\ Return(c, IF SameBinding(row, req[c]) THEN resultFromRecord(row) ELSE "UNKNOWN")
     /\ UNCHANGED <<storeVars, partyVars, op, req, rec, faults>>

\* Saga.Reserve fails without a row: the store is down, a unique constraint
\* aborts the insert, or the returned row cannot be scanned.
ReserveFails(c) ==
  /\ phase[c] = "reserve"
  /\ \/ Fault
     \/ /\ saga[req[c].key].version = 0
        /\ ~(ReserveScanFits /\ ReserveInserts(req[c]))
        /\ UNCHANGED faults
  /\ Return(c, "UNKNOWN")
  /\ UNCHANGED <<storeVars, partyVars, op, req, rec>>

-----------------------------------------------------------------------------
(* Asking an authority. *)

CallGoesTo(c, o, p) ==
  /\ phase[c] = "call" /\ op[c] = o
  /\ Goto(c, p)
  /\ UNCHANGED <<storeVars, op, req, rec, reply, faults>>

\* Screen, Route and Verify have no effect; anything but a clear answer holds.
CallCheck(c) ==
  \E o \in {"screen", "route", "liquidity"}, p \in {"advance", "hold"} :
    CallGoesTo(c, o, p) /\ UNCHANGED partyVars

\* Ledger.Prepare and Ledger.Commit, confirmed and matching the intent.
CallLedger(c) ==
  \E o \in {"prepare", "commit"} :
    /\ CallGoesTo(c, o, "advance")
    /\ LedgerAccepts(ledger[req[c].key], o)
    /\ ApplyLedger(req[c].key, o)
    /\ UNCHANGED <<wire, issued>>

\* Fiat.Collect and Fiat.Payout report a settled result.
CallFiat(c) ==
  \E o \in {"collect", "payout"} :
    /\ CallGoesTo(c, o, "advance")
    /\ fiat[req[c].key] # "rejected"
    /\ ApplyFiat(req[c].key, "settled")
    /\ Count(req[c].key, "fiat")
    /\ UNCHANGED wire

\* Fiat.Collect proves that it had no effect: only then may the transfer be voided.
CallFiatNoEffect(c) ==
  /\ CallGoesTo(c, "collect", "void")
  /\ fiat[req[c].key] # "settled"
  /\ ApplyFiat(req[c].key, "rejected")
  /\ Count(req[c].key, "fiat")
  /\ UNCHANGED wire

\* Custody.SubmitTransfer reports a settled result with a transaction.
CallCustody(c) ==
  /\ CallGoesTo(c, "custody", "advance")
  /\ custody[req[c].key] # "rejected"
  /\ ApplyCustody(req[c].key, "submitted")
  /\ Count(req[c].key, "custody")
  /\ UNCHANGED wire

\* Finality.IsFinal.
CallFinality(c) ==
  /\ \/ CallGoesTo(c, "finality", "advance") /\ custody[req[c].key] = "final"
     \/ CallGoesTo(c, "finality", "unknown")
  /\ UNCHANGED partyVars

\* Attestor.Attest and Attestor.Verify agree on the digest.
CallAttest(c) ==
  /\ CallGoesTo(c, "attest", "advance")
  /\ ApplyAttest(req[c].key)
  /\ UNCHANGED <<wire, issued>>

\* Reconcile compares the collected facts.
CallReconcile(c) ==
  \E p \in {"advance", "unknown"} : CallGoesTo(c, "settle", p) /\ UNCHANGED partyVars

CommandOf(o) == IF o \in {"collect", "payout"} THEN "fiat" ELSE o

\* A command with an error, a timeout or an inconclusive answer.
CallAmbiguous(c) ==
  \E o \in {"prepare", "collect", "custody", "payout", "commit", "attest"} :
    /\ CallGoesTo(c, o, "unknown")
    /\ Abandon(req[c].key, CommandOf(o))

\* Faulty variant: the saga is held without an answer to the void.
VoidPendingUnconfirmed(c) ==
  /\ phase[c] = "void"
  /\ Abandon(req[c].key, "void")
  /\ Goto(c, "hold")
  /\ UNCHANGED <<storeVars, op, req, rec, reply, faults>>

\* handlePreCustodyFailure voids the pending transfer, then holds.
VoidPending(c) ==
  LET k == req[c].key
  IN /\ phase[c] = "void"
     /\ \/ /\ LedgerAccepts(ledger[k], "void")
           /\ ApplyLedger(k, "void")
           /\ Goto(c, "hold")
           /\ UNCHANGED <<wire, issued>>
        \/ Abandon(k, "void") /\ Goto(c, "unknown")
     /\ UNCHANGED <<storeVars, op, req, rec, reply, faults>>

-----------------------------------------------------------------------------
(* Persisting. *)

\* Faulty variant: the update does not check that the caller's record is current.
PersistUnchecked(c, next, refs) ==
  WriteRow(req[c].key, recordWithUpdate(saga[req[c].key], next, refs))

\* Saga.Advance takes effect: row, evidence and event in one transaction.
Persist(c, next, refs) ==
  /\ AdvanceAllowed(req[c].key, rec[c], next, refs)
  /\ WriteRow(req[c].key, recordWithUpdate(saga[req[c].key], next, refs))

\* Saga.Advance reports an error: the move is refused, the transaction failed,
\* or it was applied and its answer lost.
PersistFails(c, next, refs) ==
  \/ Persist(c, next, refs) /\ Fault
  \/ UNCHANGED storeVars /\ Fault
  \/ /\ ~AdvanceAllowed(req[c].key, rec[c], next, refs)
     /\ UNCHANGED <<storeVars, faults>>

\* record, err = c.advance(...) succeeds.
AdvanceOk(c) ==
  /\ phase[c] = "advance"
  /\ Persist(c, StageOf[op[c]], UpdateOf[op[c]])
  /\ rec' = [rec EXCEPT ![c] = saga'[req[c].key]]
  /\ op' = [op EXCEPT ![c] = NextOp(req[c].direction, @)]
  /\ IF op[c] = "settle" THEN Return(c, "SETTLED") ELSE Goto(c, "call") /\ UNCHANGED reply
  /\ UNCHANGED <<partyVars, req, faults>>

\* record, err = c.advance(...) fails, and record is now the empty record.
AdvanceFails(c) ==
  /\ phase[c] = "advance"
  /\ PersistFails(c, StageOf[op[c]], UpdateOf[op[c]])
  /\ rec' = [rec EXCEPT ![c] = EmptyRecord]
  /\ Goto(c, "unknown")
  /\ UNCHANGED <<partyVars, op, req, reply>>

\* hold: MarkHeld, and UNKNOWN when that fails.
MarkHeld(c) ==
  /\ phase[c] = "hold"
  /\ \/ Persist(c, "held", {}) /\ UNCHANGED faults /\ Return(c, "HELD")
     \/ PersistFails(c, "held", {}) /\ Goto(c, "unknown") /\ UNCHANGED reply
  /\ UNCHANGED <<partyVars, op, req, rec>>

\* Faulty variant: MarkUnknown is retried until it succeeds.
MarkUnknownRetries(c) ==
  /\ phase[c] = "unknown"
  /\ Persist(c, "unknown", {}) /\ Return(c, "UNKNOWN")
  /\ UNCHANGED <<partyVars, op, req, rec, faults>>

\* unknown: MarkUnknown; the caller learns UNKNOWN whether or not it persisted.
MarkUnknown(c) ==
  /\ phase[c] = "unknown"
  /\ \/ Persist(c, "unknown", {}) /\ UNCHANGED faults
     \/ PersistFails(c, "unknown", {})
  /\ Return(c, "UNKNOWN")
  /\ UNCHANGED <<partyVars, op, req, rec>>

\* The process stops; what it asked for or wrote remains.
Crash(c) ==
  /\ phase[c] \notin {"idle", "done"}
  /\ Goto(c, "done")
  /\ UNCHANGED <<storeVars, partyVars, op, req, rec, reply, faults>>

-----------------------------------------------------------------------------
Call(c) ==
  \/ CallCheck(c) \/ CallLedger(c) \/ CallFiat(c) \/ CallFiatNoEffect(c) \/ CallCustody(c)
  \/ CallFinality(c) \/ CallAttest(c) \/ CallReconcile(c) \/ CallAmbiguous(c)

Reserve(c) == ReserveOwned(c) \/ ReserveExisting(c) \/ ReserveFails(c)

\* One step of a call that is running.
Step(c) ==
  \/ Reserve(c) \/ Call(c) \/ VoidPending(c)
  \/ AdvanceOk(c) \/ AdvanceFails(c) \/ MarkHeld(c) \/ MarkUnknown(c)

Environment == PartiesNext /\ UNCHANGED <<storeVars, callVars, faults>>

Next ==
  \/ \E c \in Calls : Step(c) \/ Crash(c) \/ \E r \in Requests : Submit(c, r)
  \/ Environment

Spec == Init /\ [][Next]_vars

\* Every authority call carries a context with a deadline, so a running call
\* always takes its next step.
FairSpec == Spec /\ \A c \in Calls : WF_vars(Step(c))

-----------------------------------------------------------------------------
\* The calls, the rows, the parties and the commands under way have their types.
TypeOK ==
  /\ StoreTypeOK
  /\ PartiesTypeOK
  /\ phase \in [Calls -> Phases]
  /\ op \in [Calls -> Ops]
  /\ req \in [Calls -> Requests \cup {NoRequest}]
  /\ \A c \in Calls : phase[c] # "idle" => req[c] \in Requests
  /\ rec \in [Calls -> Records]
  /\ reply \in [Calls -> Replies]
  /\ faults \in 0 .. MaxFaults

\* A saga is SETTLED, and a caller is told so, only when the fiat leg settled,
\* the custody transfer is final, the ledger posted the transfer and the
\* consortium attested it: the promise of the comment on Execute.
SettledMeansAllFacts ==
  /\ \A k \in Keys :
       saga[k].stage = "settled" =>
         fiat[k] = "settled" /\ custody[k] = "final" /\ ledger[k] = "posted" /\ attested[k]
  /\ \A c \in Calls : reply[c] = "SETTLED" => saga[req[c].key].stage = "settled"

\* A held saga moved no money and never will: no leg took effect, no command
\* that could still take effect is under way, and the ledger holds nothing for
\* it.  hold is reached before Prepare or after Void.
HeldMeansNothingMoves ==
  \A k \in Keys :
    saga[k].stage = "held" =>
      /\ fiat[k] # "settled" /\ (<<k, "fiat">> \in wire => fiat[k] = "rejected")
      /\ custody[k] = "rejected" \/ (custody[k] = "none" /\ <<k, "custody">> \notin wire)
      /\ ledger[k] = "voided" \/ (ledger[k] = "none" /\ <<k, "prepare">> \notin wire)

\* The ledger posts only what both legs completed and voids only what neither
\* leg can complete any more, however late an abandoned command lands.
LedgerFollowsTheMoney ==
  \A k \in Keys :
    /\ ledger[k] = "posted" => fiat[k] = "settled" /\ custody[k] = "final"
    /\ ledger[k] = "voided" => fiat[k] = "rejected" /\ custody[k] \in {"none", "rejected"}

\* However many callers repeat an intent, each money-moving command leaves the
\* coordinator at most once per saga: Reserve elects one owner.
CommandsIssuedOnce == \A k \in Keys, e \in MoneyCommands : issued[k][e] <= 1

\* When Execute answers UNKNOWN after a commercial effect may have happened, the
\* saga is terminal, so that reconciliation can pick it up: "Once any commercial
\* effect may have happened, failures are UNKNOWN and callers must reconcile".
UnknownIsReconcilable ==
  \A c \in Calls :
    reply[c] = "UNKNOWN" /\ op[c] \notin {"screen", "route", "liquidity", "prepare"} =>
      terminalStage(saga[req[c].key].stage)

\* Every submitted intent is answered or its process has stopped.
EveryCallEnds == \A c \in Calls : phase[c] = "reserve" ~> phase[c] = "done"

-----------------------------------------------------------------------------
(* The inductive invariant behind the safety properties. *)

\* How far the call has come: the answer of the operation is known.
PrepareDone(c) == /\ op[c] \notin {"screen", "route", "liquidity"}
                  /\ op[c] = "prepare" => phase[c] = "advance"
FiatDone(c) == \/ op[c] \in {"collect", "payout"} /\ phase[c] = "advance"
               \/ op[c] \in {"custody", "finality"} /\ req[c].direction = "onramp"
               \/ op[c] \in {"commit", "attest", "settle"}
CustodyDone(c) == \/ op[c] = "custody" /\ phase[c] = "advance"
                  \/ op[c] \in {"finality", "payout", "commit", "attest", "settle"}
FinalDone(c) == \/ op[c] = "finality" /\ phase[c] = "advance"
                \/ op[c] \in {"payout", "commit", "attest", "settle"}
CommitDone(c) == op[c] \in {"attest", "settle"} \/ (op[c] = "commit" /\ phase[c] = "advance")
AttestDone(c) == op[c] = "settle" \/ (op[c] = "attest" /\ phase[c] = "advance")

\* Nothing was asked for key k, or what was asked is answered.
NothingOnWire(k) == \A e \in Commands : <<k, e>> \notin wire

\* While a call is sure of its saga, the authorities are exactly as far as the
\* call is.
CallMatchesParties(c) ==
  LET k == req[c].key
  IN /\ ledger[k] = (IF CommitDone(c) THEN "posted" ELSE IF PrepareDone(c) THEN "pending" ELSE "none")
     /\ fiat[k] = (IF FiatDone(c) THEN "settled" ELSE "none")
     /\ IF CustodyDone(c) THEN custody[k] \in {"submitted", "final"} ELSE custody[k] = "none"
     /\ FinalDone(c) => custody[k] = "final"
     /\ AttestDone(c) => attested[k]
     /\ fiat[k] = "none" => issued[k]["fiat"] = 0
     /\ custody[k] = "none" => issued[k]["custody"] = 0
     /\ op[c] = "collect" => req[c].direction = "onramp"
     /\ op[c] = "payout" => req[c].direction = "offramp"

\* A call that has not ended has not answered.  A running call's saga exists, and
\* until the call loses track of it, the call holds its current record and
\* nothing is under way.
CallInv(c) ==
  LET k == req[c].key
  IN /\ phase[c] = "done" \/ reply[c] = "none"
     /\ phase[c] \in {"idle", "reserve"} => op[c] = "screen"
     /\ Active(c) => saga[k].version > 0
     /\ Active(c) /\ phase[c] # "unknown" =>
          rec[c] = saga[k] /\ ~terminalStage(saga[k].stage) /\ NothingOnWire(k)
     /\ phase[c] \in {"call", "advance"} => CallMatchesParties(c)
     /\ phase[c] = "void" =>
          ledger[k] = "pending" /\ fiat[k] = "rejected" /\ custody[k] = "none"
     /\ phase[c] = "hold" =>
          ledger[k] \in {"none", "voided"} /\ fiat[k] # "settled" /\ custody[k] = "none"

\* A saga has at most one running call.
OneOwner ==
  \A c, d \in Calls : Active(c) /\ Active(d) /\ req[c].key = req[d].key => c = d

\* What an abandoned command may find when it lands, and a key without a row.
WireInv(k) ==
  /\ <<k, "commit">> \in wire => fiat[k] = "settled" /\ custody[k] = "final"
  /\ <<k, "void">> \in wire \/ ledger[k] = "voided" =>
       /\ fiat[k] = "rejected"
       /\ custody[k] = "rejected" \/ (custody[k] = "none" /\ <<k, "custody">> \notin wire)
  /\ saga[k].version = 0 =>
       /\ saga[k].stage = "none" /\ ledger[k] = "none" /\ fiat[k] = "none" /\ custody[k] = "none"
       /\ issued[k]["fiat"] = 0 /\ issued[k]["custody"] = 0 /\ NothingOnWire(k)

IInv ==
  /\ TypeOK
  /\ OneOwner
  /\ \A c \in Calls : CallInv(c)
  /\ \A k \in Keys : WireInv(k)
  /\ SettledMeansAllFacts
  /\ HeldMeansNothingMoves
  /\ LedgerFollowsTheMoney
  /\ CommandsIssuedOnce

\* Terminal states and the ledger agree with what happened to the money, whoever
\* ended the saga (all_rails.go, unknown_saga_reconciler.go).
SettlementSafety ==
  /\ SettledMeansAllFacts
  /\ HeldMeansNothingMoves
  /\ LedgerFollowsTheMoney
=============================================================================
