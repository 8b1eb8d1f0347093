--------------------------- MODULE UnknownReconciler ---------------------------
(***************************************************************************)
(* Reconciliation of UNKNOWN sagas, composed with the coordinator that     *)
(* produces them: workers that lease UNKNOWN rows, observe the ledger,     *)
(* query both providers and, with a one-time authorization of the approval *)
(* service, commit or void the pending transfer and end the saga.          *)
(*                                                                         *)
(* A worker handles a claimed batch record by record and gives up the rest *)
(* of the batch at the first error; its leases then run out by themselves. *)
(***************************************************************************)
EXTENDS SettlementSaga, FiniteSets

CONSTANTS Workers,      \* reconciliation workers, named by their lease owner
          BatchSize,    \* records claimed at once
          Lease,        \* length of a lease
          AuthLife,     \* life time of an authorization
          MaxTime,      \* bound on the clock
          CorridorOf    \* [Keys -> corridor]: the corridor of the intent, "" for none

ASSUME ReconcilerAssumption ==
  BatchSize \in Nat \ {0} /\ Lease \in Nat \ {0} /\ AuthLife \in Nat \ {0} /\ MaxTime \in Nat

VARIABLES clock,
          lease,   \* [Keys -> [owner, until]]: the lease columns of the row
          auth,    \* [Keys -> [decision, expires, consumed]]: the authorization of a saga
          wphase,  \* [Workers -> WorkerPhases]
          batch,   \* [Workers -> SUBSET (Keys \X Records)]: claimed, not yet handled
          cur,     \* [Workers -> Keys \X Records]: the record at hand
          seen     \* [Workers -> [committed, voided, fiat]]: what was observed for it

workerVars == <<wphase, batch, cur, seen>>
resolutionVars == <<clock, lease, auth>>
rvars == <<vars, resolutionVars, workerVars>>

WorkerPhases == {"idle", "load", "next", "observe", "fiat", "custody", "authCommit", "commit",
                 "authSettle", "attest", "settle", "authVoid", "void", "authHeld", "held"}

NoLease == [owner |-> "none", until |-> 0]
NoAuth  == [decision |-> "none", expires |-> 0, consumed |-> FALSE]
NoRecord == <<"none", EmptyRecord>>
NothingSeen == [committed |-> FALSE, voided |-> FALSE, fiat |-> "unclear"]

RInit ==
  /\ Init
  /\ clock = 1
  /\ lease = [k \in Keys |-> NoLease]
  /\ auth = [k \in Keys |-> NoAuth]
  /\ wphase = [w \in Workers |-> "idle"]
  /\ batch = [w \in Workers |-> {}]
  /\ cur = [w \in Workers |-> NoRecord]
  /\ seen = [w \in Workers |-> NothingSeen]

-----------------------------------------------------------------------------
(* Time and the approval service. *)

Tick ==
  /\ clock < MaxTime
  /\ clock' = clock + 1
  /\ UNCHANGED <<vars, lease, auth, workerVars>>

\* The approval service writes an authorization. The partial unique index
\* allows one unconsumed authorization per saga, expired or not.
Authorize(k, decision) ==
  /\ saga[k].version > 0
  /\ auth[k] = NoAuth
  /\ auth' = [auth EXCEPT ![k] = [decision |-> decision, expires |-> clock + AuthLife,
                                  consumed |-> FALSE]]
  /\ UNCHANGED <<vars, clock, lease, workerVars>>

validResolutionAuthorization(k, decision) ==
  auth[k].decision = decision /\ ~auth[k].consumed /\ auth[k].expires > clock

-----------------------------------------------------------------------------
(* Claiming. *)

WGoto(w, p) == wphase' = [wphase EXCEPT ![w] = p]

\* ReconcileOnce returns: the rest of the batch is dropped, the leases stay.
GiveUp(w) ==
  /\ WGoto(w, "idle")
  /\ batch' = [batch EXCEPT ![w] = {}]
  /\ cur' = [cur EXCEPT ![w] = NoRecord]
  /\ seen' = [seen EXCEPT ![w] = NothingSeen]

Claimable(k) == saga[k].stage = "unknown" /\ lease[k].until < clock

\* ClaimUnknownSagas leases the claimable rows of a tenant, BatchSize at most.
Claim(w) ==
  \E t \in {TenantOf[k] : k \in Keys} :
    LET eligible == {k \in Keys : TenantOf[k] = t /\ Claimable(k)}
    IN \E claimed \in SUBSET eligible :
         /\ wphase[w] = "idle"
         /\ claimed # {}
         /\ Cardinality(claimed) = BatchSize \/ (claimed = eligible /\ Cardinality(claimed) < BatchSize)
         /\ lease' = [k \in Keys |-> IF k \in claimed THEN [owner |-> w, until |-> clock + Lease]
                                                      ELSE lease[k]]
         /\ batch' = [batch EXCEPT ![w] = {<<k, EmptyRecord>> : k \in claimed}]
         /\ WGoto(w, "load")
         /\ UNCHANGED <<vars, clock, auth, cur, seen>>

\* The claimed rows are loaded in transactions of their own.
LoadClaimed(w) ==
  /\ wphase[w] = "load"
  /\ batch' = [batch EXCEPT ![w] = {<<p[1], saga[p[1]]>> : p \in @}]
  /\ WGoto(w, "next")
  /\ UNCHANGED <<vars, resolutionVars, cur, seen>>

\* reconcileRecord refuses a record that is not UNKNOWN or has no pending transfer.
TakeRecord(w) ==
  /\ wphase[w] = "next"
  /\ \/ batch[w] = {} /\ GiveUp(w)
     \/ \E p \in batch[w] :
          IF p[2].stage = "unknown" /\ "pending" \in p[2].refs
            THEN /\ batch' = [batch EXCEPT ![w] = @ \ {p}]
                 /\ cur' = [cur EXCEPT ![w] = p]
                 /\ seen' = [seen EXCEPT ![w] = NothingSeen]
                 /\ WGoto(w, "observe")
            ELSE GiveUp(w)
  /\ UNCHANGED <<vars, resolutionVars>>

-----------------------------------------------------------------------------
(* Observing. *)

\* Ledger operation IDs are hashed from the idempotency key of the intent, with
\* the suffix that stageIntent adds, and the operation.
OperationID(k, suffix, operation) == <<k, suffix, operation>>

\* Commit and Void are called with the staged intent.
CommitID(k) == OperationID(k, ":ledger_commit", "commit")
VoidID(k)   == OperationID(k, ":ledger_void", "void")

\* The transfers TigerBeetle holds for a key, besides the pending one.
LookupTransfer(k, id) ==
  id \in (CASE ledger[k] = "posted" -> {CommitID(k)}
            [] ledger[k] = "voided" -> {VoidID(k)}
            [] OTHER                -> {})

\* Observe resolves the accounts of the recovered intent, which names no
\* corridor, and looks the operations up under the plain intent.
Observe(w) ==
  LET k == cur[w][1]
      committed == LookupTransfer(k, OperationID(k, "", "commit"))
      voided    == LookupTransfer(k, OperationID(k, "", "void"))
  IN /\ wphase[w] = "observe"
     /\ CorridorOf[k] = ""
     /\ ledger[k] # "none" /\ ~(committed /\ voided)
     /\ seen' = [seen EXCEPT ![w] = [committed |-> committed, voided |-> voided, fiat |-> "unclear"]]
     /\ WGoto(w, IF voided THEN "authHeld" ELSE "fiat")
     /\ UNCHANGED <<vars, resolutionVars, batch, cur>>

\* Fiat.Query. A proof of no effect rules out any later effect.
QueryFiat(w) ==
  LET k == cur[w][1]
  IN /\ wphase[w] = "fiat"
     /\ \E answer \in {"settled", "noEffect", "unclear"} :
          /\ answer = "settled"  => fiat[k] = "settled"
          /\ answer = "noEffect" => fiat[k] # "settled"
          /\ fiat' = IF answer = "noEffect" THEN [fiat EXCEPT ![k] = "rejected"] ELSE fiat
          /\ seen' = [seen EXCEPT ![w].fiat = answer]
     /\ WGoto(w, "custody")
     /\ UNCHANGED <<storeVars, ledger, custody, attested, wire, issued, callVars, faults,
                    resolutionVars, batch, cur>>

\* Faulty variant: a settled custody transfer counts without finality.
QueryCustodyNotFinal(w) ==
  /\ wphase[w] = "custody"
  /\ seen[w].fiat = "settled" /\ custody[cur[w][1]] \in {"submitted", "final"}
  /\ WGoto(w, "authCommit")
  /\ UNCHANGED <<vars, resolutionVars, batch, cur, seen>>

\* Custody.QueryTransfer and Finality.IsFinal, and what both legs together allow.
QueryCustody(w) ==
  LET k == cur[w][1]
  IN /\ wphase[w] = "custody"
     /\ \/ /\ seen[w].fiat = "noEffect" /\ ~seen[w].committed
           /\ custody[k] \in {"none", "rejected"}
           /\ custody' = [custody EXCEPT ![k] = "rejected"]
           /\ WGoto(w, "authVoid")
        \/ /\ seen[w].fiat = "settled" /\ custody[k] = "final"
           /\ UNCHANGED custody
           /\ WGoto(w, IF seen[w].committed THEN "authSettle" ELSE "authCommit")
     /\ UNCHANGED <<storeVars, ledger, fiat, attested, wire, issued, callVars, faults,
                    resolutionVars, batch, cur, seen>>

-----------------------------------------------------------------------------
(* Resolving. *)

\* Faulty variant: any authorization will do.
FindAnyAuthorization(w) ==
  \E path \in {<<"authCommit", "commit">>, <<"authSettle", "attest">>,
               <<"authVoid", "void">>, <<"authHeld", "held">>} :
    /\ wphase[w] = path[1]
    /\ auth[cur[w][1]] # NoAuth
    /\ WGoto(w, path[2])
    /\ UNCHANGED <<vars, resolutionVars, batch, cur, seen>>

\* FindResolutionAuthorization: each path asks for its decision before it acts.
FindAuthorization(w) ==
  \E path \in {<<"authCommit", "commit", "commit">>, <<"authSettle", "commit", "attest">>,
               <<"authVoid", "void", "void">>, <<"authHeld", "void", "held">>} :
    /\ wphase[w] = path[1]
    /\ validResolutionAuthorization(cur[w][1], path[2])
    /\ WGoto(w, path[3])
    /\ UNCHANGED <<vars, resolutionVars, batch, cur, seen>>

\* ensureCommitted and voidAndHold act on the ledger.
LedgerCommand(w) ==
  \E path \in {<<"commit", "authSettle">>, <<"void", "held">>} :
    LET k == cur[w][1]
    IN /\ wphase[w] = path[1]
       /\ \/ /\ LedgerAccepts(ledger[k], path[1])
             /\ ApplyLedger(k, path[1])
             /\ UNCHANGED <<wire, issued>>
             /\ WGoto(w, path[2])
             /\ UNCHANGED <<batch, cur, seen>>
          \/ Abandon(k, path[1]) /\ GiveUp(w)
       /\ UNCHANGED <<storeVars, callVars, faults, resolutionVars>>

Attest(w) ==
  LET k == cur[w][1]
  IN /\ wphase[w] = "attest"
     /\ \/ /\ ApplyAttest(k)
           /\ UNCHANGED <<wire, issued>>
           /\ WGoto(w, "settle")
           /\ UNCHANGED <<batch, cur, seen>>
        \/ Abandon(k, "attest") /\ GiveUp(w)
     /\ UNCHANGED <<storeVars, callVars, faults, resolutionVars>>

ResolutionRefs(decision) ==
  IF decision = "commit" THEN {"provider", "custody", "transfer", "attestation"} ELSE {}

\* What a resolution records is what a caller of the store may record.
ASSUME ResolvedUpdates == \A decision \in {"commit", "void"} : ResolutionRefs(decision) \in Updates

\* The checks of ResolveUnknownSaga: the row is the one that was loaded, the
\* authorization is still good and the worker still holds its lease.
ResolveAllowed(w, k, decision) ==
  LET next == ResolvedRecord(saga[k], decision, ResolutionRefs(decision))
  IN /\ saga[k].stage = "unknown" /\ saga[k].version = cur[w][2].version
     /\ validResolutionAuthorization(k, decision)
     /\ lease[k].owner = w /\ lease[k].until > clock
     /\ UniqueLedgerIDs(k, next) /\ FreshEvent(k, next)

\* ResolveUnknownSaga: row, evidence, event, lease and authorization at once.
ResolveUnknownSaga(w) ==
  \E path \in {<<"settle", "commit">>, <<"held", "void">>} :
    LET k == cur[w][1]
    IN /\ wphase[w] = path[1]
       /\ ResolveAllowed(w, k, path[2])
       /\ WriteRow(k, ResolvedRecord(saga[k], path[2], ResolutionRefs(path[2])))
       /\ lease' = [lease EXCEPT ![k] = NoLease]
       /\ auth' = [auth EXCEPT ![k].consumed = TRUE]
       /\ \/ WGoto(w, "next") /\ UNCHANGED <<faults, batch, cur, seen>>
          \/ Fault /\ GiveUp(w)
       /\ UNCHANGED <<partyVars, callVars, clock>>

\* An error, an unresolved record, a missing approval, or the end of the process.
Stop(w) ==
  /\ wphase[w] # "idle"
  /\ GiveUp(w)
  /\ UNCHANGED <<vars, resolutionVars>>

-----------------------------------------------------------------------------
WorkerStep(w) ==
  \/ Claim(w) \/ LoadClaimed(w) \/ TakeRecord(w) \/ Observe(w) \/ QueryFiat(w) \/ QueryCustody(w)
  \/ FindAuthorization(w) \/ LedgerCommand(w) \/ Attest(w) \/ ResolveUnknownSaga(w) \/ Stop(w)

RNext ==
  \/ Next /\ UNCHANGED <<resolutionVars, workerVars>>
  \/ \E w \in Workers : WorkerStep(w)
  \/ \E k \in Keys, decision \in {"commit", "void", "hold"} : Authorize(k, decision)
  \/ Tick

RSpec == RInit /\ [][RNext]_rvars

-----------------------------------------------------------------------------
\* The workers, their leases and the authorizations have their types.
RTypeOK ==
  /\ TypeOK
  /\ clock \in 1 .. (MaxTime + 1)
  /\ lease \in [Keys -> [owner : Workers \cup {"none"}, until : Nat]]
  /\ auth \in [Keys -> [decision : {"none", "commit", "void", "hold"}, expires : Nat, consumed : BOOLEAN]]
  /\ wphase \in [Workers -> WorkerPhases]
  /\ batch \in [Workers -> SUBSET (Keys \X Records)]
  /\ cur \in [Workers -> (Keys \cup {"none"}) \X Records]
  /\ seen \in [Workers -> [committed : BOOLEAN, voided : BOOLEAN,
                           fiat : {"settled", "noEffect", "unclear"}]]

\* Whatever workers that lost their lease, or commands they abandoned, still do,
\* the ledger of a settled or held saga no longer changes: ResolveUnknownSaga and
\* the coordinator's own ending are final for the books as well.
TerminalFreezesLedger ==
  \A k \in Keys : saga[k].stage \in {"settled", "held"} => ledger'[k] = ledger[k]

\* A saga leaves UNKNOWN exactly when its authorization is consumed, and ends as
\* the authorization says, however often workers die between their steps:
\* ResolveUnknownSaga does both in one transaction.
ResolvedByAuthorization ==
  \A k \in Keys :
    LET resolved == /\ \E e \in events[k] : e.stage = "unknown"
                    /\ saga[k].stage # "unknown"
    IN /\ resolved <=> auth[k].consumed
       /\ resolved => saga[k].stage = (IF auth[k].decision = "commit" THEN "settled" ELSE "held")

\* While a saga is UNKNOWN its pending transfer is posted or voided only by a
\* command that was already under way or with an approval of that very
\* decision, even when the approval expires between the check and the command.
LedgerMovesOnlyApproved ==
  \A k \in Keys :
    saga[k].stage = "unknown" /\ ledger'[k] # ledger[k] =>
      \/ \E e \in LedgerCommands : <<k, e>> \in wire /\ <<k, e>> \notin wire'
      \/ auth[k].decision = (IF ledger'[k] = "posted" THEN "commit" ELSE "void")

\* No step of a worker, a late command or an approver resolves a saga without its
\* authorization, moves the ledger of an ended saga, or moves that of an unknown one
\* other than approved (unknown_saga_reconciler.go, unknown_saga_store.go).
ResolutionSafety ==
  [][/\ RTypeOK' /\ ResolvedByAuthorization'
     /\ TerminalFreezesLedger
     /\ LedgerMovesOnlyApproved]_rvars
=============================================================================
