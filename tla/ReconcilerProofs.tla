-------------------------- MODULE ReconcilerProofs --------------------------
(***************************************************************************)
(* Reconciliation of UNKNOWN sagas. A worker acts on a record that it read *)
(* as UNKNOWN, so that no call of Execute is sure of that saga any more:   *)
(* the inductive invariant of the coordinator survives whatever workers,   *)
(* late commands and approvers do. What a worker has observed stays true,  *)
(* since settled, rejected, final, posted and voided are final.            *)
(***************************************************************************)
EXTENDS UnknownReconciler, SettlementProofs

\* What a worker relies on from step to step.
WorkerInv(w) ==
  LET k == cur[w][1]
      p == wphase[w]
  IN /\ p \notin {"idle", "load", "next"} => k \in Keys /\ saga[k].stage \in TerminalStages
     /\ p \in {"fiat", "custody"} /\ seen[w].committed => ledger[k] = "posted"
     /\ p = "custody" /\ seen[w].fiat = "settled" => fiat[k] = "settled"
     /\ p = "custody" /\ seen[w].fiat = "noEffect" => fiat[k] = "rejected"
     /\ p \in {"authCommit", "commit", "authSettle", "attest", "settle"} => fiat[k] = "settled" /\ custody[k] = "final"
     /\ p \in {"authSettle", "attest", "settle"} => ledger[k] = "posted"
     /\ p = "settle" => attested[k]
     /\ p \in {"authVoid", "void"} => fiat[k] = "rejected" /\ custody[k] = "rejected"
     /\ p \in {"authHeld", "held"} => ledger[k] = "voided"
     /\ p \in {"commit", "attest", "settle"} => auth[k].decision = "commit"
     /\ p \in {"void", "held"} => auth[k].decision = "void"

\* A record that was loaded as UNKNOWN is of a saga that has ended or still is.
BatchInv(w) ==
  \A p \in batch[w] : p[2].stage = "unknown" => saga[p[1]].stage \in TerminalStages

\* The saga of key k was UNKNOWN at some time.
WasUnknown(k) == \E e \in events[k] : e.stage = "unknown"

\* A saga that was UNKNOWN is in a terminal stage, and out of UNKNOWN exactly when its
\* authorization was consumed.
UnknownInv(k) ==
  /\ WasUnknown(k) => saga[k].stage \in TerminalStages
  /\ WasUnknown(k) /\ saga[k].stage # "unknown" <=> auth[k].consumed
  /\ WasUnknown(k) /\ saga[k].stage # "unknown" =>
       saga[k].stage = (IF auth[k].decision = "commit" THEN "settled" ELSE "held")

\* The inductive invariant of the coordinator together with its reconcilers.
RInv ==
  /\ RTypeOK /\ IInv /\ StoreInv
  /\ \A w \in Workers : WorkerInv(w) /\ BatchInv(w)
  /\ \A k \in Keys : UnknownInv(k)

-----------------------------------------------------------------------------
(* What never changes back. *)

\* What is final about the parties of key k stays so.
PartiesOnward(k) ==
  /\ fiat[k] \in {"settled", "rejected"} => fiat'[k] = fiat[k]
  /\ custody[k] \in {"final", "rejected"} => custody'[k] = custody[k]
  /\ ledger[k] \in {"posted", "voided"} => ledger'[k] = ledger[k]
  /\ attested[k] => attested'[k]

\* And so do a terminal stage and an authorization's decision.
Onward(k) ==
  /\ PartiesOnward(k)
  /\ saga[k].stage \in TerminalStages => saga'[k].stage \in TerminalStages
  /\ auth[k].decision # "none" => auth'[k].decision = auth[k].decision

\* No command moves a party away from a final state.
LEMMA CommandsOnward ==
  ASSUME PartiesTypeOK, NEW k \in Keys, NEW j
  PROVE  /\ \A e : ApplyLedger(j, e) => PartiesOnward(k)
         /\ \A a : ApplyFiat(j, a) => PartiesOnward(k)
         /\ \A a : ApplyCustody(j, a) => PartiesOnward(k)
         /\ ApplyAttest(j) => PartiesOnward(k)
         /\ \A e : Abandon(j, e) => PartiesOnward(k)
         /\ \A e : Land(j, e) => PartiesOnward(k)
         /\ Finalise(j) => PartiesOnward(k)
PROOF
<1>1. ASSUME NEW e, ApplyLedger(j, e) PROVE PartiesOnward(k)
  BY <1>1, Zenon DEF ApplyLedger, LedgerAfter, PartiesOnward, PartiesTypeOK
<1>2. ASSUME NEW a, ApplyFiat(j, a) PROVE PartiesOnward(k)
  BY <1>2, Zenon DEF ApplyFiat, PartiesOnward, PartiesTypeOK
<1>3. ASSUME NEW a, ApplyCustody(j, a) PROVE PartiesOnward(k)
  BY <1>3, Zenon DEF ApplyCustody, PartiesOnward, PartiesTypeOK
<1>4. ASSUME ApplyAttest(j) PROVE PartiesOnward(k)
  BY <1>4, Zenon DEF ApplyAttest, PartiesOnward, PartiesTypeOK
<1>5. ASSUME NEW e, Abandon(j, e) PROVE PartiesOnward(k)
  BY <1>5, Zenon DEF Abandon, PartiesOnward
<1>6. ASSUME Finalise(j) PROVE PartiesOnward(k)
  BY <1>6, Zenon DEF Finalise, PartiesOnward, PartiesTypeOK
<1>7. ASSUME NEW e, Land(j, e) PROVE PartiesOnward(k)
  BY <1>1, <1>2, <1>3, <1>4, <1>7, Zenon DEF Land
<1> QED BY <1>1, <1>2, <1>3, <1>4, <1>5, <1>6, <1>7, Zenon

\* No step of a call or of the parties does.
LEMMA CallsOnward ==
  ASSUME TypeOK, [Next]_vars, NEW k \in Keys
  PROVE  PartiesOnward(k)
PROOF
<1>0. PartiesTypeOK
  BY Zenon DEF TypeOK
<1>1. UNCHANGED partyVars => PartiesOnward(k)
  BY Zenon DEF partyVars, PartiesOnward
<1>2. CASE UNCHANGED vars
  BY <1>1, <1>2, Zenon DEF vars
<1>3. ASSUME NEW c \in Calls, Reserve(c) \/ AdvanceOk(c) \/ AdvanceFails(c) \/ MarkHeld(c) \/ MarkUnknown(c) \/ Crash(c)
      PROVE  PartiesOnward(k)
  BY <1>1, <1>3, Zenon DEF Reserve, ReserveOwned, ReserveExisting, ReserveFails, AdvanceOk, AdvanceFails, MarkHeld,
     MarkUnknown, Crash
<1>4. ASSUME NEW c \in Calls, NEW r, Submit(c, r) PROVE PartiesOnward(k)
  BY <1>1, <1>4, Zenon DEF Submit
<1>5. ASSUME NEW c \in Calls, Call(c) PROVE PartiesOnward(k)
  BY <1>0, <1>1, <1>5, CommandsOnward, Zenon DEF Call, CallCheck, CallLedger, CallFiat, CallFiatNoEffect, CallCustody,
     CallFinality, CallAttest, CallReconcile, CallAmbiguous
<1>6. ASSUME NEW c \in Calls, VoidPending(c) PROVE PartiesOnward(k)
  BY <1>0, <1>6, CommandsOnward, Zenon DEF VoidPending
<1>7. CASE Environment
  BY <1>0, <1>7, CommandsOnward, Zenon DEF Environment, PartiesNext
<1> QED BY <1>2, <1>3, <1>4, <1>5, <1>6, <1>7, Zenon DEF Next, Step

\* A call leaves the row of a terminal saga alone.
LEMMA CallsLeaveEnded ==
  ASSUME IInv, StoreInv, [Next]_vars, NEW k \in Keys, saga[k].stage \in TerminalStages
  PROVE  saga'[k] = saga[k] /\ events'[k] = events[k]
PROOF
<1>1. TypeOK /\ StoreTypeOK /\ \A j \in Keys : RowInv(j)
  BY StoreInvParts, Zenon DEF IInv
<1>2. CASE UNCHANGED storeVars
  BY <1>2, Zenon DEF storeVars
<1>3. CASE ~UNCHANGED storeVars
  <2>1. PICK c \in Calls, j \in Keys : req[c].key = j /\ StoreMove(c, j)
    BY <1>1, <1>3, StoreMoves, Zenon DEF vars
  <2>2. ASSUME saga[j].stage \notin TerminalStages, NEW r, WriteRow(j, r)
        PROVE  saga'[k] = saga[k] /\ events'[k] = events[k]
    <3>1. j # k
      BY <2>2, Zenon
    <3> QED BY <1>1, <2>2, <3>1, Zenon DEF WriteRow, insertTransitionAndOutbox, StoreTypeOK
  <2>3. CASE ReserveOwned(c)
    <3>1. saga[j].version = 0 /\ WriteRow(j, ReservedRecord(req[c]))
      BY <2>1, <2>3, Zenon DEF ReserveOwned, ReserveInserts
    <3>2. saga[j].stage \notin TerminalStages
      BY <1>1, <3>1, Zenon DEF RowInv, NoRowNoStage, TerminalStages
    <3> QED BY <2>2, <3>1, <3>2, Zenon
  <2>4. ASSUME NEW next, NEW refs, Active(c), phase[c] = "unknown" => next = "unknown", Persist(c, next, refs)
        PROVE  saga'[k] = saga[k] /\ events'[k] = events[k]
    <3>1. StoreAdvance(j, next, refs)
      BY <2>1, <2>4, PersistIsAdvance, Zenon
    <3>2. AdvanceAllowed(j, saga[j], next, refs) /\ WriteRow(j, recordWithUpdate(saga[j], next, refs))
      BY <3>1, Zenon DEF StoreAdvance
    <3>3. saga[j].stage \notin TerminalStages
      BY <1>1, <3>2, AdvanceFromOpen, Zenon
    <3> QED BY <2>2, <3>2, <3>3, Zenon
  <2>5. ASSUME NEW o \in Ops, phase[c] = "advance", Persist(c, StageOf[o], UpdateOf[o])
        PROVE  saga'[k] = saga[k] /\ events'[k] = events[k]
    <3>1. Active(c) /\ phase[c] # "unknown"
      BY <2>5, SMTT(20) DEF Active
    <3> QED BY <2>4, <2>5, <3>1, Zenon
  <2>6. ASSUME NEW next \in {"held", "unknown"}, phase[c] = (IF next = "held" THEN "hold" ELSE "unknown"),
               Persist(c, next, {})
        PROVE  saga'[k] = saga[k] /\ events'[k] = events[k]
    <3>1. Active(c) /\ (phase[c] = "unknown" => next = "unknown")
      BY <2>6, SMTT(20) DEF Active
    <3> QED BY <2>4, <2>6, <3>1, Zenon
  <2> QED BY <2>1, <2>3, <2>5, <2>6, Zenon DEF StoreMove
<1> QED BY <1>2, <1>3, Zenon

\* The ledger of a terminal saga is not moved by a call, only by a command under way.
LEMMA CallsLeaveLedger ==
  ASSUME IInv, [Next]_vars, NEW k \in Keys, saga[k].stage \in TerminalStages, ledger'[k] # ledger[k]
  PROVE  \E e \in LedgerCommands : Land(k, e)
PROOF
<1>0. TypeOK /\ PartiesTypeOK /\ \A c \in Calls : CallInv(c)
  BY Zenon DEF IInv, TypeOK
<1>1. ~UNCHANGED ledger
  OBVIOUS
<1>2. ASSUME NEW j, NEW e, ApplyLedger(j, e) PROVE j = k
  BY <1>0, <1>2, Zenon DEF ApplyLedger, PartiesTypeOK
<1>3. ASSUME NEW c \in Calls, NEW e, Active(c), phase[c] # "unknown", ApplyLedger(req[c].key, e) PROVE FALSE
  BY <1>0, <1>2, <1>3, Zenon DEF CallInv, terminalStage
<1>4. ASSUME NEW c \in Calls, Call(c) \/ VoidPending(c) PROVE FALSE
  <2>1. ASSUME NEW e, ApplyLedger(req[c].key, e), phase[c] \in {"call", "void"} PROVE FALSE
    BY <1>3, <2>1, SMTT(20) DEF Active
  <2>2. CASE Call(c)
    BY <1>1, <2>1, <2>2, Zenon DEF Call, CallCheck, CallLedger, CallFiat, CallFiatNoEffect, CallCustody, CallFinality,
       CallAttest, CallReconcile, CallAmbiguous, CallGoesTo, partyVars, ApplyFiat, ApplyCustody, ApplyAttest, Abandon
  <2>3. CASE VoidPending(c)
    BY <1>1, <2>1, <2>3, Zenon DEF VoidPending, Abandon
  <2> QED BY <1>4, <2>2, <2>3, Zenon
<1>5. ASSUME NEW c \in Calls, Reserve(c) \/ AdvanceOk(c) \/ AdvanceFails(c) \/ MarkHeld(c) \/ MarkUnknown(c) \/ Crash(c)
      PROVE  FALSE
  BY <1>1, <1>5, Zenon DEF Reserve, ReserveOwned, ReserveExisting, ReserveFails, AdvanceOk, AdvanceFails, MarkHeld,
     MarkUnknown, Crash, partyVars
<1>6. ASSUME NEW c \in Calls, NEW r, Submit(c, r) PROVE FALSE
  BY <1>1, <1>6, Zenon DEF Submit, partyVars
<1>7. CASE Environment
  BY <1>0, <1>1, <1>2, <1>7, Zenon DEF Environment, PartiesNext, Finalise, Land, ApplyFiat, ApplyCustody, ApplyAttest
<1> QED BY <1>1, <1>4, <1>5, <1>6, <1>7, Zenon DEF Next, Step, vars, partyVars

-----------------------------------------------------------------------------
(* What a worker does to the coordinator's state. *)

\* The key of the record at hand has ended or is UNKNOWN.
LEMMA AtHand ==
  ASSUME RInv, NEW w \in Workers, wphase[w] \notin {"idle", "load", "next"}
  PROVE  cur[w][1] \in Keys /\ saga[cur[w][1]].stage \in TerminalStages
BY Zenon DEF RInv, WorkerInv

\* A call that still runs for such a saga has lost track of it, so that a step on
\* its key disturbs no call.
LEMMA TouchLemma ==
  ASSUME IInv, TypeOK', NEW k \in Keys, saga[k].stage \in TerminalStages, UNCHANGED callVars,
         \A j \in Keys \ {k} : SameKey(j), saga'[k].version > 0,
         saga[k].stage = "settled" => saga'[k].stage = "settled", KeyInv(k)'
  PROVE  IInv'
PROOF
<1>1. TypeOK /\ OneOwner /\ (\A d \in Calls : CallInv(d) /\ ReplyInv(d)) /\ \A j \in Keys : KeyInv(j)
  BY IInvParts, Zenon
<1>2. UNCHANGED <<phase, op, req, rec, reply>> /\ \A d \in Calls : SameCall(d)
  BY Zenon DEF callVars, SameCall
<1>3. \A j \in Keys : KeyInv(j)'
  BY <1>1, KeyFrame, Zenon
<1>4. OneOwner'
  BY <1>1, <1>2, Zenon DEF OneOwner, Active
<1>5. ASSUME NEW d \in Calls PROVE CallInv(d)' /\ ReplyInv(d)'
  <2>1. phase[d] # "idle" => req[d].key \in Keys
    BY <1>1, RunningKey, Zenon
  <2>2. phase[d] = "done" /\ saga[req[d].key].stage = "settled" => saga'[req[d].key].stage = "settled"
    BY <2>1, Zenon DEF SameKey
  <2>3. CASE ~Active(d) \/ req[d].key # k
    <3>1. Active(d) => SameKey(req[d].key)
      BY <2>1, <2>3, Zenon DEF Active
    <3> QED BY <1>1, <1>2, <2>2, <3>1, CallFrame, Zenon
  <2>4. CASE Active(d) /\ req[d].key = k
    <3>1. phase[d] = "unknown"
      BY <1>1, <2>4, Zenon DEF CallInv, terminalStage
    <3>2. CallInv(d)'
      BY <1>1, <1>2, <2>4, <3>1, Zenon DEF CallInv, Active
    <3>3. ReplyInv(d)'
      BY <1>1, <1>2, <3>1, Zenon DEF CallInv, ReplyInv
    <3> QED BY <3>2, <3>3, Zenon
  <2> QED BY <2>3, <2>4, Zenon
<1> QED BY <1>3, <1>4, <1>5, NextParts, Zenon

\* The types of the coordinator after a step that leaves its calls and rows alone.
LEMMA TypesAfter ==
  ASSUME TypeOK, PartiesTypeOK', UNCHANGED <<storeVars, callVars, faults>>
  PROVE  TypeOK'
BY UnchangedTypes, Zenon DEF TypeOK, callVars

\* A step of a worker on the parties of key k alone.
PartyStep(k) ==
  /\ UNCHANGED <<storeVars, callVars, faults>>
  /\ PartiesTypeOK' /\ KeyInv(k)' /\ PartiesOnward(k)
  /\ \A j \in Keys \ {k} : SameParties(j)

\* The provider's answer to Fiat.Query closes what it proves to have had no effect.
LEMMA FiatQueried ==
  ASSUME RInv, NEW w \in Workers, NEW k \in Keys, cur[w][1] = k, QueryFiat(w)
  PROVE  PartyStep(k)
PROOF
<1>1. saga[k].stage \in TerminalStages
  BY AtHand, Zenon DEF QueryFiat
<1>2. TypeOK /\ PartiesTypeOK /\ KeyInv(k)
  BY <1>1, IInvParts, Zenon DEF RInv, IInv, TypeOK
<1>3. /\ fiat' = fiat \/ (fiat[k] # "settled" /\ fiat' = [fiat EXCEPT ![k] = "rejected"])
      /\ UNCHANGED <<storeVars, ledger, custody, attested, wire, issued, callVars, faults>>
  BY Zenon DEF QueryFiat
<1>4. PartiesTypeOK' /\ (fiat'[k] = fiat[k] \/ (fiat[k] # "settled" /\ fiat'[k] = "rejected"))
  BY <1>1, <1>2, <1>3, Zenon DEF PartiesTypeOK
<1>5. \A j \in Keys \ {k} : SameParties(j)
  BY <1>1, <1>2, <1>3, Zenon DEF SameParties, PartiesTypeOK
<1>6. fiat[k] \in {"none", "settled", "rejected"} /\ saga[k].version # 0
  BY <1>1, <1>2, Zenon DEF PartiesTypeOK, KeyInv, WireInv, TerminalStages
<1>7. PartiesOnward(k)
  BY <1>3, <1>4, Zenon DEF PartiesOnward
<1>9. UNCHANGED <<saga, ledger, custody, attested, wire, issued>>
  BY <1>3, Zenon DEF storeVars
<1>8. KeyInv(k)'
  <2>1. CASE fiat'[k] = fiat[k]
    BY <1>1, <1>2, <1>9, <2>1, KeyFrame, Zenon DEF SameKey
  <2>2. CASE fiat[k] = "none" /\ fiat'[k] = "rejected"
    BY <1>2, <1>9, <1>6, <2>2, Zenon DEF KeyInv, WireInv
  <2> QED BY <1>4, <1>6, <2>1, <2>2, Zenon
<1> QED BY <1>3, <1>4, <1>5, <1>7, <1>8, Zenon DEF PartyStep

\* So does the answer to Custody.QueryTransfer.
LEMMA CustodyQueried ==
  ASSUME RInv, NEW w \in Workers, NEW k \in Keys, cur[w][1] = k, QueryCustody(w)
  PROVE  PartyStep(k)
PROOF
<1>1. saga[k].stage \in TerminalStages
  BY AtHand, Zenon DEF QueryCustody
<1>2. TypeOK /\ PartiesTypeOK /\ KeyInv(k)
  BY <1>1, IInvParts, Zenon DEF RInv, IInv, TypeOK
<1>3. /\ \/ custody' = custody
         \/ /\ custody[k] \in {"none", "rejected"} /\ fiat[k] = "rejected"
            /\ custody' = [custody EXCEPT ![k] = "rejected"]
      /\ UNCHANGED <<storeVars, ledger, fiat, attested, wire, issued, callVars, faults>>
  BY Zenon DEF QueryCustody, RInv, WorkerInv
<1>4. /\ PartiesTypeOK'
      /\ custody'[k] = custody[k] \/ (custody[k] \in {"none", "rejected"} /\ fiat[k] = "rejected" /\ custody'[k] = "rejected")
  BY <1>1, <1>2, <1>3, Zenon DEF PartiesTypeOK
<1>5. \A j \in Keys \ {k} : SameParties(j)
  BY <1>1, <1>2, <1>3, Zenon DEF SameParties, PartiesTypeOK
<1>6. saga[k].version # 0
  BY <1>1, <1>2, Zenon DEF KeyInv, WireInv, TerminalStages
<1>7. PartiesOnward(k)
  BY <1>3, <1>4, Zenon DEF PartiesOnward
<1>9. UNCHANGED <<saga, ledger, fiat, attested, wire, issued>>
  BY <1>3, Zenon DEF storeVars
<1>8. KeyInv(k)'
  <2>1. CASE custody'[k] = custody[k]
    BY <1>1, <1>2, <1>9, <2>1, KeyFrame, Zenon DEF SameKey
  <2>2. CASE custody[k] = "none" /\ custody'[k] = "rejected" /\ fiat[k] = "rejected"
    BY <1>2, <1>9, <1>6, <2>2, Zenon DEF KeyInv, WireInv
  <2> QED BY <1>4, <2>1, <2>2, Zenon
<1> QED BY <1>3, <1>4, <1>5, <1>7, <1>8, Zenon DEF PartyStep

\* What the worker's steps do on each of their paths.
LedgerPath(w, k, e, p) ==
  /\ wphase[w] = e
  /\ \/ /\ LedgerAccepts(ledger[k], e) /\ ApplyLedger(k, e) /\ UNCHANGED <<wire, issued>>
        /\ WGoto(w, p) /\ UNCHANGED <<batch, cur, seen>>
     \/ Abandon(k, e) /\ GiveUp(w)
  /\ UNCHANGED <<storeVars, callVars, faults, resolutionVars>>

AuthorizedPath(w, k, from, decision, p) ==
  /\ wphase[w] = from /\ validResolutionAuthorization(k, decision) /\ WGoto(w, p)
  /\ UNCHANGED <<vars, resolutionVars, batch, cur, seen>>

ResolvePath(w, k, from, decision) ==
  /\ wphase[w] = from
  /\ ResolveAllowed(w, k, decision)
  /\ WriteRow(k, ResolvedRecord(saga[k], decision, ResolutionRefs(decision)))
  /\ lease' = [lease EXCEPT ![k] = NoLease]
  /\ auth' = [auth EXCEPT ![k].consumed = TRUE]
  /\ \/ WGoto(w, "next") /\ UNCHANGED <<faults, batch, cur, seen>>
     \/ Fault /\ GiveUp(w)
  /\ UNCHANGED <<partyVars, callVars, clock>>

\* A worker's step takes one of its paths.
LEMMA Paths ==
  ASSUME NEW w \in Workers, NEW k, cur[w][1] = k
  PROVE  /\ LedgerCommand(w) => LedgerPath(w, k, "commit", "authSettle") \/ LedgerPath(w, k, "void", "held")
         /\ FindAuthorization(w) => \/ AuthorizedPath(w, k, "authCommit", "commit", "commit")
                                    \/ AuthorizedPath(w, k, "authSettle", "commit", "attest")
                                    \/ AuthorizedPath(w, k, "authVoid", "void", "void")
                                    \/ AuthorizedPath(w, k, "authHeld", "void", "held")
         /\ ResolveUnknownSaga(w) => ResolvePath(w, k, "settle", "commit") \/ ResolvePath(w, k, "held", "void")
PROOF
<1>2. ASSUME LedgerCommand(w)
      PROVE  LedgerPath(w, k, "commit", "authSettle") \/ LedgerPath(w, k, "void", "held")
  <2>1. PICK path \in {<<"commit", "authSettle">>, <<"void", "held">>} : LedgerPath(w, k, path[1], path[2])
    BY <1>2, Zenon DEF LedgerCommand, LedgerPath
  <2>2. \/ path[1] = "commit" /\ path[2] = "authSettle"
        \/ path[1] = "void" /\ path[2] = "held"
    BY SMTT(20)
  <2> QED BY <2>1, <2>2, Zenon
<1>3. ASSUME FindAuthorization(w)
      PROVE  \/ AuthorizedPath(w, k, "authCommit", "commit", "commit")
             \/ AuthorizedPath(w, k, "authSettle", "commit", "attest")
             \/ AuthorizedPath(w, k, "authVoid", "void", "void")
             \/ AuthorizedPath(w, k, "authHeld", "void", "held")
  <2>1. PICK path \in {<<"authCommit", "commit", "commit">>, <<"authSettle", "commit", "attest">>,
                       <<"authVoid", "void", "void">>, <<"authHeld", "void", "held">>} :
          AuthorizedPath(w, k, path[1], path[2], path[3])
    BY <1>3, Zenon DEF FindAuthorization, AuthorizedPath
  <2>2. \/ path[1] = "authCommit" /\ path[2] = "commit" /\ path[3] = "commit"
        \/ path[1] = "authSettle" /\ path[2] = "commit" /\ path[3] = "attest"
        \/ path[1] = "authVoid" /\ path[2] = "void" /\ path[3] = "void"
        \/ path[1] = "authHeld" /\ path[2] = "void" /\ path[3] = "held"
    BY SMTT(20)
  <2> QED BY <2>1, <2>2, Zenon
<1>4. ASSUME ResolveUnknownSaga(w)
      PROVE  ResolvePath(w, k, "settle", "commit") \/ ResolvePath(w, k, "held", "void")
  <2>1. PICK path \in {<<"settle", "commit">>, <<"held", "void">>} : ResolvePath(w, k, path[1], path[2])
    BY <1>4, Zenon DEF ResolveUnknownSaga, ResolvePath
  <2>2. \/ path[1] = "settle" /\ path[2] = "commit"
        \/ path[1] = "held" /\ path[2] = "void"
    BY SMTT(20)
  <2> QED BY <2>1, <2>2, Zenon
<1> QED BY <1>2, <1>3, <1>4, Zenon

\* An approved command to the ledger posts what both legs completed and voids what
\* neither can complete, now or when it lands.
LEMMA LedgerCommanded ==
  ASSUME RInv, NEW w \in Workers, NEW k \in Keys, cur[w][1] = k, LedgerCommand(w)
  PROVE  PartyStep(k)
PROOF
<1>1. saga[k].stage \in TerminalStages
  BY AtHand, Paths, Zenon DEF LedgerPath
<1>2. TypeOK /\ PartiesTypeOK /\ KeyInv(k) /\ WorkerInv(w)
  BY <1>1, IInvParts, Zenon DEF RInv, IInv, TypeOK
<1>3. PICK e \in {"commit", "void"} :
        /\ wphase[w] = e /\ UNCHANGED <<storeVars, callVars, faults>>
        /\ (ApplyLedger(k, e) /\ UNCHANGED <<wire, issued>>) \/ Abandon(k, e)
  BY Paths, Zenon DEF LedgerPath
<1>4. e \in LedgerCommands /\ e \in Commands /\ e \notin MoneyCommands
  BY Zenon DEF LedgerCommands, Commands, MoneyCommands
<1>5. PartiesTypeOK'
  BY <1>2, <1>3, <1>4, PartyTypes, Zenon
<1>6. \A j \in Keys \ {k} : SameParties(j)
  BY <1>2, <1>3, PartyFrame, Zenon
<1>7. PartiesOnward(k)
  BY <1>2, <1>3, CommandsOnward, Zenon
<1>8. /\ e = "commit" => fiat[k] = "settled" /\ custody[k] = "final"
      /\ e = "void" => fiat[k] = "rejected" /\ custody[k] = "rejected"
      /\ saga[k].version # 0
  BY <1>1, <1>2, <1>3, Zenon DEF WorkerInv, KeyInv, WireInv, TerminalStages
<1>9. saga' = saga
  BY <1>3, Zenon DEF storeVars
<1>10. KeyInv(k)'
  <2>1. CASE ApplyLedger(k, e) /\ UNCHANGED <<wire, issued>>
    <3>1. ledger'[k] = LedgerAfter(ledger[k], e) /\ UNCHANGED <<fiat, custody, attested, wire, issued>>
      BY <1>2, <2>1, Zenon DEF ApplyLedger, PartiesTypeOK
    <3>2. \/ ledger'[k] = ledger[k]
          \/ ledger[k] = "pending" /\ ledger'[k] = "posted" /\ e = "commit"
          \/ ledger[k] = "pending" /\ ledger'[k] = "voided" /\ e = "void"
      BY <3>1, Zenon DEF LedgerAfter
    <3> QED BY <1>2, <1>8, <1>9, <3>1, <3>2, Zenon DEF KeyInv, WireInv, NothingOnWire
  <2>2. CASE Abandon(k, e)
    <3>1. UNCHANGED <<ledger, fiat, custody, attested, issued>> /\ wire' = wire \cup {<<k, e>>}
      BY <1>4, <2>2, Zenon DEF Abandon, Count
    <3>2. \A d \in Commands : <<k, d>> \in wire' <=> <<k, d>> \in wire \/ d = e
      BY <3>1, Zenon
    <3> QED BY <1>2, <1>3, <1>8, <1>9, <3>1, <3>2, Zenon DEF KeyInv, WireInv, Commands, LedgerCommands, MoneyCommands
  <2> QED BY <1>3, <2>1, <2>2, Zenon
<1> QED BY <1>3, <1>5, <1>6, <1>7, <1>10, Zenon DEF PartyStep

\* An attestation adds to what is known and disturbs nothing.
LEMMA Attested ==
  ASSUME RInv, NEW w \in Workers, NEW k \in Keys, cur[w][1] = k, Attest(w)
  PROVE  PartyStep(k)
PROOF
<1>1. saga[k].stage \in TerminalStages
  BY AtHand, Zenon DEF Attest
<1>2. TypeOK /\ PartiesTypeOK /\ KeyInv(k)
  BY <1>1, IInvParts, Zenon DEF RInv, IInv, TypeOK
<1>3. /\ UNCHANGED <<storeVars, callVars, faults>>
      /\ (ApplyAttest(k) /\ UNCHANGED <<wire, issued>>) \/ Abandon(k, "attest")
  BY Zenon DEF Attest
<1>4. "attest" \in Commands /\ "attest" \notin MoneyCommands
  BY Zenon DEF LedgerCommands, Commands, MoneyCommands
<1>5. PartiesTypeOK'
  BY <1>2, <1>3, <1>4, PartyTypes, Zenon
<1>6. \A j \in Keys \ {k} : SameParties(j)
  BY <1>2, <1>3, PartyFrame, Zenon
<1>7. PartiesOnward(k)
  BY <1>2, <1>3, CommandsOnward, Zenon
<1>8. /\ saga[k].version # 0 /\ saga' = saga /\ UNCHANGED <<ledger, fiat, custody, issued>>
      /\ attested[k] => attested'[k]
  BY <1>1, <1>2, <1>3, <1>4, <1>7, Zenon DEF KeyInv, WireInv, TerminalStages, storeVars, ApplyAttest, Abandon, Count,
     PartiesOnward
<1>9. \A d \in Commands \ {"attest"} : <<k, d>> \in wire' <=> <<k, d>> \in wire
  BY <1>3, Zenon DEF Abandon
<1>10. KeyInv(k)'
  BY <1>2, <1>8, <1>9, Zenon DEF KeyInv, WireInv, Commands, LedgerCommands, MoneyCommands
<1> QED BY <1>3, <1>5, <1>6, <1>7, <1>10, Zenon DEF PartyStep

\* A step of a worker on the parties keeps the coordinator's invariant.
LEMMA PartyStepKeepsInv ==
  ASSUME IInv, NEW k \in Keys, saga[k].stage \in TerminalStages, PartyStep(k)
  PROVE  IInv' /\ \A j \in Keys : PartiesOnward(j)
PROOF
<1>1. TypeOK /\ KeyInv(k) /\ PartiesTypeOK
  BY IInvParts, Zenon DEF TypeOK
<1>2. TypeOK' /\ UNCHANGED callVars /\ saga' = saga
  BY <1>1, TypesAfter, Zenon DEF PartyStep, storeVars
<1>3. \A j \in Keys \ {k} : SameKey(j) /\ PartiesOnward(j)
  BY <1>2, Zenon DEF PartyStep, SameParties, SameKey, PartiesOnward
<1>4. saga[k].version > 0
  <2>1. saga[k].version \in Nat
    BY <1>1, Zenon DEF TypeOK, StoreTypeOK, Records
  <2>2. saga[k].version # 0
    BY <1>1, Zenon DEF KeyInv, WireInv, TerminalStages
  <2> QED BY <2>1, <2>2, SMTT(20)
<1>5. KeyInv(k)' /\ PartiesOnward(k)
  BY Zenon DEF PartyStep
<1>6. IInv'
  BY <1>2, <1>3, <1>4, <1>5, TouchLemma, Zenon
<1> QED BY <1>3, <1>5, <1>6, Zenon

\* The saga of key k was UNKNOWN and ends as its authorization says.
Ended(k, verdict) ==
  /\ StoreNext
  /\ saga[k].stage = "unknown" /\ saga'[k].stage = (IF verdict = "commit" THEN "settled" ELSE "held")
  /\ \A j \in Keys \ {k} : saga'[j] = saga[j] /\ events'[j] = events[j]
  /\ auth[k].decision = verdict
  /\ \E e \in events[k] : e.stage = "unknown"
  /\ events[k] \subseteq events'[k]

\* ResolveUnknownSaga ends an UNKNOWN saga as the parties stand: it is a step of the
\* store, and keeps the coordinator's invariant.
LEMMA Resolved ==
  ASSUME RInv, NEW w \in Workers, NEW k \in Keys, cur[w][1] = k, NEW from, NEW verdict,
         (from = "settle" /\ verdict = "commit") \/ (from = "held" /\ verdict = "void"),
         ResolvePath(w, k, from, verdict)
  PROVE  IInv' /\ Ended(k, verdict)
PROOF
<1> DEFINE end == IF verdict = "commit" THEN "settled" ELSE "held"
           refs == ResolutionRefs(verdict)
<1>1. TypeOK /\ StoreTypeOK /\ PartiesTypeOK /\ KeyInv(k) /\ RowInv(k) /\ WorkerInv(w)
  BY IInvParts, StoreInvParts, Zenon DEF RInv, IInv, TypeOK
<1>2. /\ wphase[w] = from /\ saga[k].stage = "unknown" /\ auth[k].decision = verdict
      /\ WriteRow(k, recordWithUpdate(saga[k], end, refs))
      /\ UNCHANGED <<partyVars, callVars>> /\ (UNCHANGED faults \/ Fault)
  BY Zenon DEF ResolvePath, ResolveAllowed, ResolvedRecord, validResolutionAuthorization
<1>3. refs \in Updates /\ verdict \in {"commit", "void", "hold"}
  BY ResolvedUpdates, Zenon
<1>4. StoreNext
  <2>1. StoreResolve(k, verdict, refs)
    BY <1>2, Zenon DEF StoreResolve, ResolvedRecord
  <2> QED BY <1>3, <2>1, Zenon DEF StoreNext
<1>5. end \in {"settled", "held"} /\ end \in Stages /\ saga[k] \in Records
  BY <1>1, Zenon DEF Stages, TerminalStages, StoreTypeOK
<1>6. refs \subseteq References
  BY <1>3, UpdatesAssumption, Zenon
<1> DEFINE r == recordWithUpdate(saga[k], end, refs)
<1>7. r \in Records /\ r.stage = end /\ r.version = saga[k].version + 1
  BY <1>3, <1>5, UpdateType, UpdatesAssumption, Zenon DEF recordWithUpdate
<1>8. /\ saga'[k] = r /\ events[k] \subseteq events'[k]
      /\ \A j \in Keys \ {k} : saga'[j] = saga[j] /\ events'[j] = events[j]
  BY <1>1, <1>2, WriteEffect, Zenon
<1>9. StoreTypeOK'
  BY <1>1, <1>2, <1>5, <1>7, WriteRowType, Zenon
<1> HIDE DEF r, refs
<1>10. faults' \in 0 .. MaxFaults
  BY <1>1, <1>2, CoordinatorAssumption, SMTT(20) DEF TypeOK, Fault
<1>11. PartiesTypeOK'
  BY <1>1, <1>2, UnchangedTypes, Zenon
<1>12. TypeOK'
  BY <1>1, <1>2, <1>9, <1>10, <1>11, Zenon DEF TypeOK, callVars
<1>13. saga'[k].version > 0 /\ saga'[k].version # 0
  <2>1. saga[k].version \in Nat
    BY <1>5, Zenon DEF Records
  <2> QED BY <1>7, <1>8, <2>1, SMTT(20)
<1>14. \A j \in Keys \ {k} : SameKey(j)
  BY <1>2, <1>8, Zenon DEF SameKey, partyVars
<1>15. UNCHANGED <<ledger, fiat, custody, attested, wire, issued>>
  BY <1>2, Zenon DEF partyVars
<1>16. /\ end = "settled" => fiat[k] = "settled" /\ custody[k] = "final" /\ ledger[k] = "posted" /\ attested[k]
       /\ end = "held" => ledger[k] = "voided"
  BY <1>1, <1>2, Zenon DEF WorkerInv
<1> HIDE DEF end
<1>17. saga'[k].stage = end
  BY <1>7, <1>8, Zenon
<1>18. KeyInv(k)'
  BY <1>1, <1>5, <1>13, <1>15, <1>16, <1>17, Zenon DEF KeyInv, WireInv
<1>19. saga[k].stage \in TerminalStages
  BY <1>2, Zenon DEF TerminalStages
<1>20. IInv'
  BY <1>2, <1>12, <1>13, <1>14, <1>18, <1>19, TouchLemma, Zenon DEF RInv
<1>21. \E e \in events[k] : e.stage = "unknown"
  BY <1>1, <1>2, <1>5, SMTT(20) DEF RowInv, Evidence, NoRowNoStage, Records
<1>22. saga'[k].stage = (IF verdict = "commit" THEN "settled" ELSE "held")
  BY <1>17, Zenon DEF end
<1> QED BY <1>2, <1>4, <1>8, <1>20, <1>21, <1>22, Zenon DEF Ended

-----------------------------------------------------------------------------
(* Workers by themselves. *)

SameWorker(w) == wphase'[w] = wphase[w] /\ batch'[w] = batch[w] /\ cur'[w] = cur[w] /\ seen'[w] = seen[w]

\* The variables of the workers, and of their leases and authorizations, have their types.
WorkerTypes ==
  /\ wphase \in [Workers -> WorkerPhases]
  /\ batch \in [Workers -> SUBSET (Keys \X Records)]
  /\ cur \in [Workers -> (Keys \cup {"none"}) \X Records]
  /\ seen \in [Workers -> [committed : BOOLEAN, voided : BOOLEAN, fiat : {"settled", "noEffect", "unclear"}]]

ResolutionTypes ==
  /\ clock \in 1 .. (MaxTime + 1)
  /\ lease \in [Keys -> [owner : Workers \cup {"none"}, until : Nat]]
  /\ auth \in [Keys -> [decision : {"none", "commit", "void", "hold"}, expires : Nat, consumed : BOOLEAN]]

LEMMA RTypeParts == RTypeOK <=> TypeOK /\ ResolutionTypes /\ WorkerTypes
BY Zenon DEF RTypeOK, ResolutionTypes, WorkerTypes

\* The values that a worker starts a round with.
LEMMA BlankTypes ==
  /\ NoRecord \in (Keys \cup {"none"}) \X Records
  /\ NothingSeen \in [committed : BOOLEAN, voided : BOOLEAN, fiat : {"settled", "noEffect", "unclear"}]
  /\ EmptyRecord \in Records /\ EmptyRecord.stage = "none"
PROOF
<1>1. EmptyRecord \in Records /\ EmptyRecord.stage = "none"
  BY SMTT(20) DEF EmptyRecord, Records
<1>2. NothingSeen \in [committed : BOOLEAN, voided : BOOLEAN, fiat : {"settled", "noEffect", "unclear"}]
  BY Zenon DEF NothingSeen
<1> QED BY <1>1, <1>2, Zenon DEF NoRecord

\* Giving up, and going on to phase p, concern worker w alone.
LEMMA WorkerMoves ==
  ASSUME WorkerTypes, NEW w \in Workers
  PROVE  /\ GiveUp(w) => /\ WorkerTypes' /\ wphase'[w] = "idle" /\ batch'[w] = {}
                         /\ \A v \in Workers \ {w} : SameWorker(v)
         /\ \A p \in WorkerPhases :
              WGoto(w, p) => /\ wphase' \in [Workers -> WorkerPhases] /\ wphase'[w] = p
                             /\ \A v \in Workers \ {w} : wphase'[v] = wphase[v]
         /\ \A p \in WorkerPhases :
              WGoto(w, p) /\ UNCHANGED <<batch, cur, seen>> =>
                /\ WorkerTypes' /\ batch'[w] = batch[w] /\ cur'[w] = cur[w] /\ seen'[w] = seen[w]
                /\ \A v \in Workers \ {w} : SameWorker(v)
PROOF
<1>1. ASSUME NEW p \in WorkerPhases, WGoto(w, p)
      PROVE  /\ wphase' \in [Workers -> WorkerPhases] /\ wphase'[w] = p
             /\ \A v \in Workers \ {w} : wphase'[v] = wphase[v]
  BY <1>1, Zenon DEF WGoto, WorkerTypes
<1>2. ASSUME GiveUp(w)
      PROVE  /\ WorkerTypes' /\ wphase'[w] = "idle" /\ batch'[w] = {}
             /\ \A v \in Workers \ {w} : SameWorker(v)
  <2>1. /\ wphase' \in [Workers -> WorkerPhases] /\ wphase'[w] = "idle"
        /\ \A v \in Workers \ {w} : wphase'[v] = wphase[v]
    BY <1>1, <1>2, Zenon DEF GiveUp, WorkerPhases
  <2>2. /\ batch' \in [Workers -> SUBSET (Keys \X Records)] /\ batch'[w] = {}
        /\ \A v \in Workers \ {w} : batch'[v] = batch[v]
    BY <1>2, Zenon DEF GiveUp, WorkerTypes
  <2>3. /\ cur' \in [Workers -> (Keys \cup {"none"}) \X Records]
        /\ \A v \in Workers \ {w} : cur'[v] = cur[v]
    BY <1>2, BlankTypes, Zenon DEF GiveUp, WorkerTypes
  <2>4. /\ seen' \in [Workers -> [committed : BOOLEAN, voided : BOOLEAN, fiat : {"settled", "noEffect", "unclear"}]]
        /\ \A v \in Workers \ {w} : seen'[v] = seen[v]
    BY <1>2, BlankTypes, Zenon DEF GiveUp, WorkerTypes
  <2> QED BY <2>1, <2>2, <2>3, <2>4, Zenon DEF WorkerTypes, SameWorker
<1> QED BY <1>1, <1>2, Zenon DEF WorkerTypes, SameWorker

\* What is said of a worker holds as long as the worker does nothing.
LEMMA WorkerFrame ==
  ASSUME WorkerTypes, NEW w \in Workers, SameWorker(w), WorkerInv(w), BatchInv(w), \A k \in Keys : Onward(k)
  PROVE  WorkerInv(w)' /\ BatchInv(w)'
PROOF
<1>1. BatchInv(w)'
  <2>1. \A p \in batch[w] : p[1] \in Keys
    BY SMTT(20) DEF WorkerTypes
  <2> QED BY <2>1, Zenon DEF BatchInv, SameWorker, Onward
<1>2. CASE wphase[w] \in {"idle", "load", "next"}
  BY <1>1, <1>2, Zenon DEF WorkerInv, SameWorker
<1>3. CASE wphase[w] \notin {"idle", "load", "next"}
  <2>1. PICK k \in Keys : k = cur[w][1]
    BY <1>3, Zenon DEF WorkerInv
  <2>2. Onward(k) /\ PartiesOnward(k)
    BY Zenon DEF Onward
  <2> QED BY <1>1, <1>3, <2>1, <2>2, ZenonT(40) DEF WorkerInv, SameWorker, Onward, PartiesOnward
<1> QED BY <1>2, <1>3, Zenon

\* A worker that is between records relies on nothing.
LEMMA RestingWorker ==
  ASSUME NEW w \in Workers, wphase'[w] \in {"idle", "load", "next"}
  PROVE  WorkerInv(w)'
BY Zenon DEF WorkerInv

\* So is a batch of which records are only taken.
LEMMA BatchFrame ==
  ASSUME WorkerTypes, NEW w \in Workers, BatchInv(w), batch'[w] \subseteq batch[w], \A k \in Keys : Onward(k)
  PROVE  BatchInv(w)'
PROOF
<1>1. \A p \in batch[w] : p[1] \in Keys
  BY SMTT(20) DEF WorkerTypes
<1> QED BY <1>1, Zenon DEF BatchInv, Onward

\* What a step of worker w has to show about the workers.
WorkerKept(w) ==
  /\ WorkerTypes' /\ WorkerInv(w)' /\ BatchInv(w)'
  /\ \A v \in Workers \ {w} : SameWorker(v)

\* Claiming, loading, and ending a round.
LEMMA ClaimKept ==
  ASSUME WorkerTypes, NEW w \in Workers, Claim(w)
  PROVE  WorkerKept(w)
PROOF
<1>1. PICK claimed \in SUBSET Keys :
        /\ batch' = [batch EXCEPT ![w] = {<<k, EmptyRecord>> : k \in claimed}]
        /\ WGoto(w, "load") /\ UNCHANGED <<cur, seen>>
  BY Zenon DEF Claim
<1>2. /\ wphase' \in [Workers -> WorkerPhases] /\ wphase'[w] = "load"
      /\ \A v \in Workers \ {w} : wphase'[v] = wphase[v]
  BY <1>1, WorkerMoves, Zenon DEF WorkerPhases
<1>3. {<<k, EmptyRecord>> : k \in claimed} \in SUBSET (Keys \X Records)
  BY BlankTypes, SMTT(20)
<1>4. /\ batch' \in [Workers -> SUBSET (Keys \X Records)] /\ batch'[w] = {<<k, EmptyRecord>> : k \in claimed}
      /\ \A v \in Workers \ {w} : batch'[v] = batch[v]
  BY <1>1, <1>3, Zenon DEF WorkerTypes
<1>5. BatchInv(w)'
  <2>1. \A p \in batch'[w] : p[2] = EmptyRecord
    BY <1>4, SMTT(20)
  <2> QED BY <2>1, BlankTypes, Zenon DEF BatchInv
<1>6. WorkerInv(w)'
  BY <1>2, RestingWorker, Zenon
<1> QED BY <1>1, <1>2, <1>4, <1>5, <1>6, Zenon DEF WorkerKept, WorkerTypes, SameWorker

LEMMA LoadKept ==
  ASSUME TypeOK, WorkerTypes, NEW w \in Workers, LoadClaimed(w)
  PROVE  WorkerKept(w)
PROOF
<1> DEFINE loaded == {<<p[1], saga[p[1]]>> : p \in batch[w]}
<1>1. batch' = [batch EXCEPT ![w] = loaded] /\ WGoto(w, "next") /\ UNCHANGED <<cur, seen, saga>>
  BY Zenon DEF LoadClaimed, vars, storeVars, WorkerTypes
<1>2. /\ wphase' \in [Workers -> WorkerPhases] /\ wphase'[w] = "next"
      /\ \A v \in Workers \ {w} : wphase'[v] = wphase[v]
  BY <1>1, WorkerMoves, Zenon DEF WorkerPhases
<1>3. loaded \in SUBSET (Keys \X Records)
  <2>1. \A p \in batch[w] : p[1] \in Keys
    BY SMTT(20) DEF WorkerTypes
  <2>2. \A k \in Keys : saga[k] \in Records
    BY Zenon DEF TypeOK, StoreTypeOK
  <2> QED BY <2>1, <2>2, SMTT(20)
<1>4. \A p \in loaded : p[2].stage = "unknown" => saga[p[1]].stage = "unknown"
  BY SMTT(20)
<1> HIDE DEF loaded
<1>5. /\ batch' \in [Workers -> SUBSET (Keys \X Records)] /\ batch'[w] = loaded
      /\ \A v \in Workers \ {w} : batch'[v] = batch[v]
  BY <1>1, <1>3, Zenon DEF WorkerTypes
<1>6. BatchInv(w)'
  BY <1>1, <1>4, <1>5, Zenon DEF BatchInv, TerminalStages
<1>7. WorkerInv(w)'
  BY <1>2, RestingWorker, Zenon
<1> QED BY <1>1, <1>2, <1>5, <1>6, <1>7, Zenon DEF WorkerKept, WorkerTypes, SameWorker

LEMMA GiveUpKept ==
  ASSUME WorkerTypes, NEW w \in Workers, GiveUp(w)
  PROVE  WorkerKept(w)
PROOF
<1>1. /\ WorkerTypes' /\ wphase'[w] = "idle" /\ batch'[w] = {}
      /\ \A v \in Workers \ {w} : SameWorker(v)
  BY WorkerMoves, Zenon
<1>2. WorkerInv(w)' /\ BatchInv(w)'
  BY <1>1, RestingWorker, Zenon DEF BatchInv
<1> QED BY <1>1, <1>2, Zenon DEF WorkerKept

\* reconcileRecord takes a record that was read as UNKNOWN.
LEMMA TakeKept ==
  ASSUME WorkerTypes, NEW w \in Workers, BatchInv(w), TakeRecord(w)
  PROVE  WorkerKept(w)
PROOF
<1>1. CASE GiveUp(w)
  BY <1>1, GiveUpKept, Zenon
<1>2. ASSUME NEW p \in batch[w], p[2].stage = "unknown",
             batch' = [batch EXCEPT ![w] = @ \ {p}], cur' = [cur EXCEPT ![w] = p],
             seen' = [seen EXCEPT ![w] = NothingSeen], WGoto(w, "observe"), saga' = saga
      PROVE  WorkerKept(w)
  <2>1. p \in Keys \X Records /\ p[1] \in Keys
    BY SMTT(20) DEF WorkerTypes
  <2>2. /\ wphase' \in [Workers -> WorkerPhases] /\ wphase'[w] = "observe"
        /\ \A v \in Workers \ {w} : wphase'[v] = wphase[v]
    BY <1>2, WorkerMoves, Zenon DEF WorkerPhases
  <2>3. /\ batch' \in [Workers -> SUBSET (Keys \X Records)] /\ batch'[w] \subseteq batch[w]
        /\ \A v \in Workers \ {w} : batch'[v] = batch[v]
    BY <1>2, Zenon DEF WorkerTypes
  <2>4. p \in (Keys \cup {"none"}) \X Records
    BY <2>1, SMTT(20)
  <2>5. /\ cur' \in [Workers -> (Keys \cup {"none"}) \X Records] /\ cur'[w] = p
        /\ \A v \in Workers \ {w} : cur'[v] = cur[v]
    BY <1>2, <2>4, Zenon DEF WorkerTypes
  <2>6. /\ seen' \in [Workers -> [committed : BOOLEAN, voided : BOOLEAN, fiat : {"settled", "noEffect", "unclear"}]]
        /\ \A v \in Workers \ {w} : seen'[v] = seen[v]
    BY <1>2, BlankTypes, Zenon DEF WorkerTypes
  <2>7. BatchInv(w)'
    BY <1>2, <2>3, Zenon DEF BatchInv
  <2>8. saga[p[1]].stage \in TerminalStages
    BY <1>2, Zenon DEF BatchInv
  <2>9. WorkerInv(w)'
    BY <1>2, <2>1, <2>2, <2>5, <2>8, Zenon DEF WorkerInv
  <2> QED BY <2>2, <2>3, <2>5, <2>6, <2>7, <2>9, Zenon DEF WorkerKept, WorkerTypes, SameWorker
<1>3. saga' = saga
  BY Zenon DEF TakeRecord, vars, storeVars
<1> QED BY <1>1, <1>2, <1>3, Zenon DEF TakeRecord

\* What the lookups say: a transfer that is found was made.
LEMMA Lookups ==
  ASSUME NEW k \in Keys, PartiesTypeOK
  PROVE  /\ LookupTransfer(k, OperationID(k, "", "commit")) \in BOOLEAN
         /\ LookupTransfer(k, OperationID(k, "", "void")) \in BOOLEAN
         /\ LookupTransfer(k, OperationID(k, "", "commit")) => ledger[k] = "posted"
         /\ LookupTransfer(k, OperationID(k, "", "void")) => ledger[k] = "voided"
PROOF
<1>1. OperationID(k, "", "commit") # VoidID(k) /\ OperationID(k, "", "void") # CommitID(k)
  BY SMTT(20) DEF OperationID, VoidID, CommitID
<1>2. ASSUME NEW id, LookupTransfer(k, id)
      PROVE  (ledger[k] = "posted" /\ id = CommitID(k)) \/ (ledger[k] = "voided" /\ id = VoidID(k))
  BY <1>2, SMTT(20) DEF LookupTransfer, PartiesTypeOK
<1>3. /\ LookupTransfer(k, OperationID(k, "", "commit")) => ledger[k] = "posted"
      /\ LookupTransfer(k, OperationID(k, "", "void")) => ledger[k] = "voided"
  BY <1>1, <1>2, Zenon
<1>4. /\ LookupTransfer(k, OperationID(k, "", "commit")) \in BOOLEAN
      /\ LookupTransfer(k, OperationID(k, "", "void")) \in BOOLEAN
  BY SMTT(20) DEF LookupTransfer
<1> QED BY <1>3, <1>4, Zenon

\* What a worker has seen it can rely on.
LEMMA ObserveKept ==
  ASSUME RInv, WorkerTypes, NEW w \in Workers, NEW k \in Keys, cur[w][1] = k, Observe(w), \A j \in Keys : Onward(j)
  PROVE  WorkerKept(w)
PROOF
<1> DEFINE committed == LookupTransfer(k, OperationID(k, "", "commit"))
           voided == LookupTransfer(k, OperationID(k, "", "void"))
<1>1. /\ committed \in BOOLEAN /\ voided \in BOOLEAN
      /\ committed => ledger[k] = "posted"
      /\ voided => ledger[k] = "voided"
  BY Lookups, Zenon DEF RInv, IInv, TypeOK
<1>2. /\ wphase[w] = "observe"
      /\ seen' = [seen EXCEPT ![w] = [committed |-> committed, voided |-> voided, fiat |-> "unclear"]]
      /\ WGoto(w, IF voided THEN "authHeld" ELSE "fiat")
      /\ UNCHANGED <<vars, batch, cur>>
  BY Zenon DEF Observe
<1> HIDE DEF committed, voided
<1>3. [committed |-> committed, voided |-> voided, fiat |-> "unclear"]
        \in [committed : BOOLEAN, voided : BOOLEAN, fiat : {"settled", "noEffect", "unclear"}]
  BY <1>1, Zenon
<1>4. /\ seen' \in [Workers -> [committed : BOOLEAN, voided : BOOLEAN, fiat : {"settled", "noEffect", "unclear"}]]
      /\ seen'[w].committed = committed
      /\ \A v \in Workers \ {w} : seen'[v] = seen[v]
  BY <1>2, <1>3, Zenon DEF WorkerTypes
<1>5. PICK p \in {"authHeld", "fiat"} : WGoto(w, p) /\ (p = "authHeld" => voided)
  BY <1>2, Zenon
<1>6. /\ wphase' \in [Workers -> WorkerPhases] /\ wphase'[w] = p
      /\ \A v \in Workers \ {w} : wphase'[v] = wphase[v]
  BY <1>5, WorkerMoves, Zenon DEF WorkerPhases
<1>7. WorkerInv(w)'
  <2>1. saga[k].stage \in TerminalStages /\ UNCHANGED <<saga, ledger>>
    BY <1>2, AtHand, Zenon DEF vars, storeVars, partyVars
  <2> QED BY <1>1, <1>2, <1>4, <1>5, <1>6, <2>1, Zenon DEF WorkerInv
<1>8. BatchInv(w) /\ batch' = batch
  BY <1>2, Zenon DEF RInv
<1>9. BatchInv(w)'
  BY <1>8, BatchFrame, Zenon
<1> QED BY <1>2, <1>4, <1>6, <1>7, <1>9, Zenon DEF WorkerKept, WorkerTypes, SameWorker

LEMMA QueryFiatKept ==
  ASSUME RInv, WorkerTypes, NEW w \in Workers, NEW k \in Keys, cur[w][1] = k, QueryFiat(w), \A j \in Keys : Onward(j)
  PROVE  WorkerKept(w)
PROOF
<1>1. PICK answer \in {"settled", "noEffect", "unclear"} :
        /\ answer = "settled" => fiat[k] = "settled"
        /\ fiat' = IF answer = "noEffect" THEN [fiat EXCEPT ![k] = "rejected"] ELSE fiat
        /\ seen' = [seen EXCEPT ![w].fiat = answer]
  BY Zenon DEF QueryFiat
<1>2. wphase[w] = "fiat" /\ WGoto(w, "custody") /\ UNCHANGED <<storeVars, ledger, batch, cur>>
  BY Zenon DEF QueryFiat
<1>3. seen[w] \in [committed : BOOLEAN, voided : BOOLEAN, fiat : {"settled", "noEffect", "unclear"}]
  BY Zenon DEF WorkerTypes
<1>4. /\ seen' \in [Workers -> [committed : BOOLEAN, voided : BOOLEAN, fiat : {"settled", "noEffect", "unclear"}]]
      /\ seen'[w].committed = seen[w].committed /\ seen'[w].fiat = answer
      /\ \A v \in Workers \ {w} : seen'[v] = seen[v]
  BY <1>1, <1>3, SMTT(20) DEF WorkerTypes
<1>5. /\ wphase' \in [Workers -> WorkerPhases] /\ wphase'[w] = "custody"
      /\ \A v \in Workers \ {w} : wphase'[v] = wphase[v]
  BY <1>2, WorkerMoves, Zenon DEF WorkerPhases
<1>6. /\ answer = "settled" => fiat'[k] = "settled"
      /\ answer = "noEffect" => fiat'[k] = "rejected"
  BY <1>1, Zenon DEF RInv, IInv, TypeOK, PartiesTypeOK
<1>7. WorkerInv(w)'
  <2>1. saga[k].stage \in TerminalStages /\ UNCHANGED <<saga, ledger, cur>> /\ WorkerInv(w)
    BY <1>2, AtHand, Zenon DEF storeVars, RInv
  <2> QED BY <1>2, <1>4, <1>5, <1>6, <2>1, Zenon DEF WorkerInv
<1>8. BatchInv(w) /\ batch' = batch
  BY <1>2, Zenon DEF RInv
<1>9. BatchInv(w)'
  BY <1>8, BatchFrame, Zenon
<1> QED BY <1>2, <1>4, <1>5, <1>7, <1>9, Zenon DEF WorkerKept, WorkerTypes, SameWorker

\* A step that only moves worker w on to phase p.
LEMMA MoveKept ==
  ASSUME RInv, WorkerTypes, NEW w \in Workers, NEW p \in WorkerPhases, WGoto(w, p), UNCHANGED <<batch, cur, seen>>,
         \A j \in Keys : Onward(j), WorkerInv(w)'
  PROVE  WorkerKept(w)
PROOF
<1>1. /\ WorkerTypes' /\ batch'[w] = batch[w]
      /\ \A v \in Workers \ {w} : SameWorker(v)
  BY WorkerMoves, Zenon
<1>2. BatchInv(w)
  BY Zenon DEF RInv
<1>3. BatchInv(w)'
  BY <1>1, <1>2, BatchFrame, Zenon
<1> QED BY <1>1, <1>3, Zenon DEF WorkerKept

LEMMA QueryCustodyKept ==
  ASSUME RInv, WorkerTypes, NEW w \in Workers, NEW k \in Keys, cur[w][1] = k, QueryCustody(w), \A j \in Keys : Onward(j)
  PROVE  WorkerKept(w)
PROOF
<1>1. WorkerInv(w) /\ saga[k].stage \in TerminalStages /\ PartiesTypeOK
  BY AtHand, Zenon DEF QueryCustody, RInv, IInv, TypeOK
<1>2. wphase[w] = "custody" /\ UNCHANGED <<saga, ledger, fiat, batch, cur, seen>>
  BY Zenon DEF QueryCustody, storeVars
<1>3. PICK p \in {"authVoid", "authSettle", "authCommit"} :
        /\ WGoto(w, p)
        /\ p = "authVoid" => seen[w].fiat = "noEffect" /\ custody' = [custody EXCEPT ![k] = "rejected"]
        /\ p # "authVoid" => seen[w].fiat = "settled" /\ custody[k] = "final" /\ custody' = custody
        /\ p = "authSettle" => seen[w].committed
  BY Zenon DEF QueryCustody
<1>4. p \in WorkerPhases
  BY Zenon DEF WorkerPhases
<1>5. wphase'[w] = p
  BY <1>3, <1>4, WorkerMoves, Zenon
<1>6. /\ p = "authVoid" => custody'[k] = "rejected"
      /\ p # "authVoid" => custody'[k] = "final"
  BY <1>1, <1>3, Zenon DEF PartiesTypeOK
<1>7. WorkerInv(w)'
  BY <1>1, <1>2, <1>3, <1>5, <1>6, Zenon DEF WorkerInv
<1> QED BY <1>2, <1>3, <1>4, <1>7, MoveKept, Zenon

\* Each path acts with the authorization of its decision.
LEMMA AuthorizationKept ==
  ASSUME RInv, WorkerTypes, NEW w \in Workers, NEW k \in Keys, cur[w][1] = k, FindAuthorization(w),
         \A j \in Keys : Onward(j)
  PROVE  WorkerKept(w) /\ UNCHANGED <<vars, resolutionVars>>
PROOF
<1>1. PICK p \in {"commit", "attest", "void", "held"} :
        /\ \/ p = "commit" /\ AuthorizedPath(w, k, "authCommit", "commit", p)
           \/ p = "attest" /\ AuthorizedPath(w, k, "authSettle", "commit", p)
           \/ p = "void" /\ AuthorizedPath(w, k, "authVoid", "void", p)
           \/ p = "held" /\ AuthorizedPath(w, k, "authHeld", "void", p)
  BY Paths, Zenon
<1>2. /\ WGoto(w, p) /\ UNCHANGED <<vars, resolutionVars, batch, cur, seen>>
      /\ wphase[w] \in {"authCommit", "authSettle", "authVoid", "authHeld"}
  BY <1>1, Zenon DEF AuthorizedPath
<1>3. p \in WorkerPhases
  BY Zenon DEF WorkerPhases
<1>4. wphase'[w] = p
  BY <1>2, <1>3, WorkerMoves, Zenon
<1>5. WorkerInv(w) /\ saga[k].stage \in TerminalStages
  BY <1>2, AtHand, Zenon DEF RInv
<1>6. UNCHANGED <<saga, ledger, fiat, custody, attested, auth, cur>>
  BY <1>2, Zenon DEF vars, storeVars, partyVars, resolutionVars
<1>7. WorkerInv(w)'
  BY <1>1, <1>4, <1>5, <1>6, Zenon DEF WorkerInv, AuthorizedPath, validResolutionAuthorization
<1> QED BY <1>2, <1>3, <1>7, MoveKept, Zenon

\* A confirmed commit posted the transfer, a confirmed void voided it.
LEMMA LedgerKept ==
  ASSUME RInv, WorkerTypes, NEW w \in Workers, NEW k \in Keys, cur[w][1] = k, LedgerCommand(w), \A j \in Keys : Onward(j)
  PROVE  WorkerKept(w)
PROOF
<1>1. CASE GiveUp(w)
  BY <1>1, GiveUpKept, Zenon
<1>2. ASSUME NEW e, NEW p, LedgerPath(w, k, e, p), ~GiveUp(w),
             (e = "commit" /\ p = "authSettle") \/ (e = "void" /\ p = "held")
      PROVE  WorkerKept(w)
  <2>1. /\ wphase[w] = e /\ LedgerAccepts(ledger[k], e) /\ ApplyLedger(k, e)
        /\ WGoto(w, p) /\ UNCHANGED <<batch, cur, seen, storeVars, resolutionVars>>
    BY <1>2, Zenon DEF LedgerPath
  <2>2. WorkerInv(w) /\ saga[k].stage \in TerminalStages /\ PartiesTypeOK
    BY <1>2, <2>1, AtHand, Zenon DEF RInv, IInv, TypeOK
  <2>3. p \in WorkerPhases
    BY <1>2, Zenon DEF WorkerPhases
  <2>4. wphase'[w] = p
    BY <2>1, <2>3, WorkerMoves, Zenon
  <2>5. UNCHANGED <<saga, fiat, custody, attested, auth, cur>>
    BY <2>1, Zenon DEF ApplyLedger, storeVars, resolutionVars
  <2>6. ledger'[k] = LedgerAfter(ledger[k], e)
    BY <2>1, <2>2, Zenon DEF ApplyLedger, PartiesTypeOK
  <2>7. ledger'[k] = (IF e = "commit" THEN "posted" ELSE "voided")
    <3>1. CASE e = "commit"
      BY <2>1, <2>6, <3>1, SMTT(20) DEF LedgerAfter, LedgerAccepts
    <3>2. CASE e = "void"
      BY <2>1, <2>6, <3>2, SMTT(20) DEF LedgerAfter, LedgerAccepts
    <3> QED BY <1>2, <3>1, <3>2, Zenon
  <2>8. WorkerInv(w)'
    BY <1>2, <2>1, <2>2, <2>4, <2>5, <2>7, Zenon DEF WorkerInv
  <2> QED BY <2>1, <2>3, <2>8, MoveKept, Zenon
<1> QED BY <1>1, <1>2, Paths, Zenon

LEMMA AttestKept ==
  ASSUME RInv, WorkerTypes, NEW w \in Workers, NEW k \in Keys, cur[w][1] = k, Attest(w), \A j \in Keys : Onward(j)
  PROVE  WorkerKept(w)
PROOF
<1>1. CASE GiveUp(w)
  BY <1>1, GiveUpKept, Zenon
<1>2. CASE ~GiveUp(w)
  <2>1. /\ wphase[w] = "attest" /\ ApplyAttest(k) /\ WGoto(w, "settle")
        /\ UNCHANGED <<batch, cur, seen, storeVars, resolutionVars>>
    BY <1>2, Zenon DEF Attest
  <2>2. WorkerInv(w) /\ saga[k].stage \in TerminalStages /\ PartiesTypeOK
    BY <2>1, AtHand, Zenon DEF RInv, IInv, TypeOK
  <2>3. "settle" \in WorkerPhases
    BY Zenon DEF WorkerPhases
  <2>4. wphase'[w] = "settle"
    BY <2>1, <2>3, WorkerMoves, Zenon
  <2>5. UNCHANGED <<saga, fiat, custody, ledger, auth, cur>> /\ attested'[k]
    BY <2>1, <2>2, Zenon DEF ApplyAttest, storeVars, resolutionVars, PartiesTypeOK
  <2>6. WorkerInv(w)'
    BY <2>1, <2>2, <2>4, <2>5, Zenon DEF WorkerInv
  <2> QED BY <2>1, <2>3, <2>6, MoveKept, Zenon
<1> QED BY <1>1, <1>2, Zenon

LEMMA ResolveKept ==
  ASSUME RInv, WorkerTypes, NEW w \in Workers, NEW k \in Keys, cur[w][1] = k, ResolveUnknownSaga(w),
         \A j \in Keys : Onward(j)
  PROVE  WorkerKept(w)
PROOF
<1>1. CASE GiveUp(w)
  BY <1>1, GiveUpKept, Zenon
<1>2. CASE WGoto(w, "next") /\ UNCHANGED <<batch, cur, seen>>
  <2>1. "next" \in WorkerPhases
    BY Zenon DEF WorkerPhases
  <2>2. WorkerInv(w)'
    BY <1>2, <2>1, WorkerMoves, RestingWorker, Zenon
  <2> QED BY <1>2, <2>1, <2>2, MoveKept, Zenon
<1> QED BY <1>1, <1>2, Paths, Zenon DEF ResolvePath

-----------------------------------------------------------------------------
(* Every step. *)

\* Rows that have been UNKNOWN are out of the coordinator's hands.
LEMMA UnknownByStore ==
  ASSUME StoreInv, [StoreNext]_storeVars, NEW k \in Keys, UnknownInv(k), auth'[k] = auth[k],
         saga[k].stage \in TerminalStages => saga'[k] = saga[k] /\ events'[k] = events[k]
  PROVE  UnknownInv(k)'
PROOF
<1>1. CASE saga'[k] = saga[k] /\ events'[k] = events[k]
  BY <1>1, Zenon DEF UnknownInv, WasUnknown
<1>2. CASE ~(saga'[k] = saga[k] /\ events'[k] = events[k])
  <2>1. StoreTypeOK /\ StoreNext
    BY <1>2, StoreInvParts, Zenon DEF storeVars
  <2>2. PICK j \in Keys, r \in Records : Written(j, r)
    BY <2>1, StoreWrites, Zenon
  <2>3. /\ saga'[j] = r
        /\ events'[j] = events[j] \cup {[version |-> r.version, stage |-> r.stage]}
        /\ \A i \in Keys \ {j} : saga'[i] = saga[i] /\ events'[i] = events[i]
    BY <2>1, <2>2, WriteEffect, Zenon DEF Written
  <2>4. j = k
    BY <1>2, <2>3, Zenon
  <2>5. ~WasUnknown(k) /\ ~auth[k].consumed
    BY <1>2, Zenon DEF UnknownInv
  <2>6. [version |-> r.version, stage |-> r.stage].stage = r.stage
    BY Zenon
  <2>7. WasUnknown(k)' <=> r.stage = "unknown"
    BY <2>3, <2>4, <2>5, <2>6, Zenon DEF WasUnknown
  <2> QED BY <2>3, <2>4, <2>5, <2>7, Zenon DEF UnknownInv, TerminalStages
<1> QED BY <1>1, <1>2, Zenon

\* What a step has to show about the sagas.
SagasKept ==
  /\ IInv' /\ [StoreNext]_storeVars /\ ResolutionTypes'
  /\ \A k \in Keys : Onward(k) /\ UnknownInv(k)'

LEMMA CoordinatorKeeps ==
  ASSUME RInv, [Next]_vars, UNCHANGED resolutionVars
  PROVE  SagasKept
PROOF
<1>1. IInv /\ StoreInv /\ TypeOK /\ ResolutionTypes /\ \A k \in Keys : UnknownInv(k)
  BY RTypeParts, Zenon DEF RInv, IInv
<1>2. IInv' /\ [StoreNext]_storeVars
  BY <1>1, NextKeepsInv, StoreStep, Zenon
<1>3. auth' = auth /\ ResolutionTypes'
  BY <1>1, Zenon DEF resolutionVars, ResolutionTypes
<1>4. ASSUME NEW k \in Keys PROVE Onward(k) /\ UnknownInv(k)'
  <2>1. PartiesOnward(k)
    BY <1>1, CallsOnward, Zenon
  <2>2. saga[k].stage \in TerminalStages => saga'[k] = saga[k] /\ events'[k] = events[k]
    BY <1>1, CallsLeaveEnded, Zenon
  <2>3. Onward(k)
    BY <1>3, <2>1, <2>2, Zenon DEF Onward
  <2>4. UnknownInv(k)'
    BY <1>1, <1>2, <1>3, <2>2, UnknownByStore, Zenon
  <2> QED BY <2>3, <2>4, Zenon
<1> QED BY <1>2, <1>3, <1>4, Zenon DEF SagasKept

LEMMA PartyStepKeeps ==
  ASSUME RInv, NEW k \in Keys, saga[k].stage \in TerminalStages, PartyStep(k), UNCHANGED resolutionVars
  PROVE  SagasKept
PROOF
<1>1. IInv /\ ResolutionTypes /\ \A j \in Keys : UnknownInv(j)
  BY RTypeParts, Zenon DEF RInv
<1>2. IInv' /\ \A j \in Keys : PartiesOnward(j)
  BY <1>1, PartyStepKeepsInv, Zenon
<1>3. UNCHANGED <<saga, events, auth>> /\ UNCHANGED storeVars /\ ResolutionTypes'
  BY <1>1, Zenon DEF PartyStep, storeVars, resolutionVars, ResolutionTypes
<1>4. \A j \in Keys : Onward(j) /\ UnknownInv(j)'
  BY <1>1, <1>2, <1>3, Zenon DEF Onward, UnknownInv, WasUnknown
<1> QED BY <1>2, <1>3, <1>4, Zenon DEF SagasKept

\* A step that leaves the coordinator and the authorizations alone.
LEMMA QuietKeeps ==
  ASSUME RInv, UNCHANGED <<vars, auth>>, ResolutionTypes'
  PROVE  SagasKept
PROOF
<1>1. IInv /\ \A j \in Keys : UnknownInv(j)
  BY Zenon DEF RInv
<1>2. IInv'
  BY <1>1, NextKeepsInv, Zenon
<1>3. UNCHANGED <<saga, events, ledger, fiat, custody, attested>> /\ UNCHANGED storeVars
  BY Zenon DEF vars, storeVars, partyVars
<1>4. \A j \in Keys : Onward(j) /\ UnknownInv(j)'
  BY <1>1, <1>3, Zenon DEF Onward, PartiesOnward, UnknownInv, WasUnknown
<1> QED BY <1>2, <1>3, <1>4, Zenon DEF SagasKept

LEMMA ResolveKeeps ==
  ASSUME RInv, NEW w \in Workers, NEW k \in Keys, cur[w][1] = k, NEW from, NEW verdict,
         (from = "settle" /\ verdict = "commit") \/ (from = "held" /\ verdict = "void"),
         ResolvePath(w, k, from, verdict)
  PROVE  SagasKept
PROOF
<1>0. IInv' /\ Ended(k, verdict)
  BY Resolved, Zenon
<1>1. /\ IInv' /\ StoreNext
      /\ saga[k].stage = "unknown" /\ saga'[k].stage = (IF verdict = "commit" THEN "settled" ELSE "held")
      /\ \A j \in Keys \ {k} : saga'[j] = saga[j] /\ events'[j] = events[j]
      /\ auth[k].decision = verdict
      /\ \E e \in events[k] : e.stage = "unknown"
      /\ events[k] \subseteq events'[k]
  BY <1>0, Zenon DEF Ended
<1>2. UNCHANGED <<partyVars, clock>> /\ lease' = [lease EXCEPT ![k] = NoLease] /\ auth' = [auth EXCEPT ![k].consumed = TRUE]
  BY Zenon DEF ResolvePath
<1>3. ResolutionTypes /\ \A j \in Keys : UnknownInv(j)
  BY RTypeParts, Zenon DEF RInv
<1>4. /\ auth' \in [Keys -> [decision : {"none", "commit", "void", "hold"}, expires : Nat, consumed : BOOLEAN]]
      /\ auth'[k].consumed /\ auth'[k].decision = auth[k].decision
      /\ \A j \in Keys \ {k} : auth'[j] = auth[j]
  <2>1. [auth[k] EXCEPT !.consumed = TRUE] \in [decision : {"none", "commit", "void", "hold"}, expires : Nat, consumed : BOOLEAN]
    BY <1>3, Zenon DEF ResolutionTypes
  <2>2. /\ auth' \in [Keys -> [decision : {"none", "commit", "void", "hold"}, expires : Nat, consumed : BOOLEAN]]
        /\ auth'[k] = [auth[k] EXCEPT !.consumed = TRUE] /\ \A j \in Keys \ {k} : auth'[j] = auth[j]
    BY <1>2, <1>3, <2>1, Zenon DEF ResolutionTypes
  <2>3. auth[k] \in [decision : {"none", "commit", "void", "hold"}, expires : Nat, consumed : BOOLEAN]
    BY <1>3, Zenon DEF ResolutionTypes
  <2> QED BY <2>2, <2>3, Zenon
<1>5. NoLease \in [owner : Workers \cup {"none"}, until : Nat]
  BY SMTT(20) DEF NoLease
<1>6. ResolutionTypes'
  BY <1>2, <1>3, <1>4, <1>5, Zenon DEF ResolutionTypes
<1>7. \A j \in Keys : PartiesOnward(j)
  BY <1>2, Zenon DEF PartiesOnward, partyVars
<1>8. ASSUME NEW j \in Keys \ {k} PROVE Onward(j) /\ UnknownInv(j)'
  <2>1. saga'[j] = saga[j] /\ events'[j] = events[j] /\ auth'[j] = auth[j] /\ PartiesOnward(j) /\ UnknownInv(j)
    BY <1>1, <1>3, <1>4, <1>7, Zenon
  <2> QED BY <2>1, Zenon DEF Onward, UnknownInv, WasUnknown
<1>9. Onward(k)
  BY <1>1, <1>4, <1>7, Zenon DEF Onward, TerminalStages
<1>10. UnknownInv(k)'
  <2>1. WasUnknown(k)'
    BY <1>1, Zenon DEF WasUnknown
  <2> QED BY <1>1, <1>4, <2>1, Zenon DEF UnknownInv, TerminalStages
<1> QED BY <1>1, <1>6, <1>8, <1>9, <1>10, Zenon DEF SagasKept

\* The approval service decides once.
LEMMA AuthorizeKeeps ==
  ASSUME RInv, NEW k \in Keys, NEW decision \in {"commit", "void", "hold"}, Authorize(k, decision)
  PROVE  SagasKept
PROOF
<1> DEFINE given == [decision |-> decision, expires |-> clock + AuthLife, consumed |-> FALSE]
<1>1. IInv /\ ResolutionTypes /\ \A j \in Keys : UnknownInv(j)
  BY RTypeParts, Zenon DEF RInv
<1>2. auth[k] = NoAuth /\ auth' = [auth EXCEPT ![k] = given] /\ UNCHANGED <<vars, clock, lease>>
  BY Zenon DEF Authorize
<1>3. clock + AuthLife \in Nat
  BY <1>1, ReconcilerAssumption, SMTT(20) DEF ResolutionTypes
<1>4. given \in [decision : {"none", "commit", "void", "hold"}, expires : Nat, consumed : BOOLEAN]
  BY <1>3, Zenon
<1>5. given.consumed = FALSE /\ NoAuth.decision = "none" /\ NoAuth.consumed = FALSE
  BY Zenon DEF NoAuth
<1> HIDE DEF given
<1>6. ResolutionTypes' /\ auth'[k] = given /\ \A j \in Keys \ {k} : auth'[j] = auth[j]
  BY <1>1, <1>2, <1>4, Zenon DEF ResolutionTypes
<1>7. IInv'
  BY <1>1, <1>2, NextKeepsInv, Zenon
<1>8. UNCHANGED <<saga, events, ledger, fiat, custody, attested>> /\ UNCHANGED storeVars
  BY <1>2, Zenon DEF vars, storeVars, partyVars
<1>9. \A j \in Keys : PartiesOnward(j)
  BY <1>8, Zenon DEF PartiesOnward
<1>10. ASSUME NEW j \in Keys \ {k} PROVE Onward(j) /\ UnknownInv(j)'
  BY <1>1, <1>6, <1>8, <1>9, Zenon DEF Onward, UnknownInv, WasUnknown
<1>11. Onward(k) /\ UnknownInv(k)'
  BY <1>1, <1>2, <1>5, <1>6, <1>8, <1>9, Zenon DEF Onward, UnknownInv, WasUnknown
<1> QED BY <1>6, <1>7, <1>8, <1>10, <1>11, Zenon DEF SagasKept

\* Every step of a worker keeps the sagas, and what the worker relies on.
LEMMA WorkerKeeps ==
  ASSUME RInv, NEW w \in Workers, WorkerStep(w)
  PROVE  SagasKept /\ WorkerKept(w)
PROOF
<1>1. TypeOK /\ ResolutionTypes /\ WorkerTypes /\ WorkerInv(w) /\ BatchInv(w)
  BY RTypeParts, Zenon DEF RInv
<1>2. UNCHANGED resolutionVars => ResolutionTypes' /\ auth' = auth
  BY <1>1, Zenon DEF resolutionVars, ResolutionTypes
<1>3. CASE Claim(w)
  <2>1. PICK claimed \in SUBSET Keys :
          lease' = [k \in Keys |-> IF k \in claimed THEN [owner |-> w, until |-> clock + Lease] ELSE lease[k]]
    BY <1>3, Zenon DEF Claim
  <2>2. clock + Lease \in Nat
    BY <1>1, ReconcilerAssumption, SMTT(20) DEF ResolutionTypes
  <2>3. [owner |-> w, until |-> clock + Lease] \in [owner : Workers \cup {"none"}, until : Nat]
    BY <2>2, Zenon
  <2>4. \A k \in Keys : lease[k] \in [owner : Workers \cup {"none"}, until : Nat]
    BY <1>1, Zenon DEF ResolutionTypes
  <2>5. lease' \in [Keys -> [owner : Workers \cup {"none"}, until : Nat]]
    BY <2>1, <2>3, <2>4, Zenon
  <2>6. UNCHANGED <<vars, clock, auth>>
    BY <1>3, Zenon DEF Claim
  <2>7. ResolutionTypes'
    BY <1>1, <2>5, <2>6, Zenon DEF ResolutionTypes
  <2> QED BY <1>1, <1>3, <2>6, <2>7, QuietKeeps, ClaimKept, Zenon
<1>4. CASE LoadClaimed(w)
  <2>1. UNCHANGED <<vars, resolutionVars>>
    BY <1>4, Zenon DEF LoadClaimed
  <2> QED BY <1>1, <1>2, <1>4, <2>1, QuietKeeps, LoadKept, Zenon
<1>5. CASE TakeRecord(w)
  <2>1. UNCHANGED <<vars, resolutionVars>>
    BY <1>5, Zenon DEF TakeRecord
  <2> QED BY <1>1, <1>2, <1>5, <2>1, QuietKeeps, TakeKept, Zenon
<1>6. CASE Stop(w)
  <2>1. UNCHANGED <<vars, resolutionVars>> /\ GiveUp(w)
    BY <1>6, Zenon DEF Stop
  <2> QED BY <1>1, <1>2, <2>1, QuietKeeps, GiveUpKept, Zenon
<1>7. CASE Observe(w) \/ QueryFiat(w) \/ QueryCustody(w) \/ FindAuthorization(w) \/ LedgerCommand(w) \/ Attest(w)
           \/ ResolveUnknownSaga(w)
  <2>1. wphase[w] \notin {"idle", "load", "next"}
    BY <1>7, Paths, Zenon DEF Observe, QueryFiat, QueryCustody, Attest, LedgerPath, AuthorizedPath, ResolvePath
  <2>2. PICK k \in Keys : cur[w][1] = k /\ saga[k].stage \in TerminalStages
    BY <2>1, AtHand, Zenon
  <2>3. CASE Observe(w)
    <3>1. UNCHANGED <<vars, resolutionVars>>
      BY <2>3, Zenon DEF Observe
    <3>2. SagasKept /\ \A j \in Keys : Onward(j)
      BY <1>2, <3>1, QuietKeeps, Zenon DEF SagasKept
    <3> QED BY <1>1, <2>2, <2>3, <3>2, ObserveKept, Zenon
  <2>4. CASE QueryFiat(w)
    <3>1. PartyStep(k) /\ UNCHANGED resolutionVars
      BY <2>2, <2>4, FiatQueried, Zenon DEF QueryFiat
    <3>2. SagasKept /\ \A j \in Keys : Onward(j)
      BY <2>2, <3>1, PartyStepKeeps, Zenon DEF SagasKept
    <3> QED BY <1>1, <2>2, <2>4, <3>2, QueryFiatKept, Zenon
  <2>5. CASE QueryCustody(w)
    <3>1. PartyStep(k) /\ UNCHANGED resolutionVars
      BY <2>2, <2>5, CustodyQueried, Zenon DEF QueryCustody
    <3>2. SagasKept /\ \A j \in Keys : Onward(j)
      BY <2>2, <3>1, PartyStepKeeps, Zenon DEF SagasKept
    <3> QED BY <1>1, <2>2, <2>5, <3>2, QueryCustodyKept, Zenon
  <2>6. CASE FindAuthorization(w)
    <3>1. UNCHANGED <<vars, resolutionVars>>
      BY <2>6, Zenon DEF FindAuthorization
    <3>2. SagasKept /\ \A j \in Keys : Onward(j)
      BY <1>2, <3>1, QuietKeeps, Zenon DEF SagasKept
    <3> QED BY <1>1, <2>2, <2>6, <3>2, AuthorizationKept, Zenon
  <2>7. CASE LedgerCommand(w)
    <3>1. PartyStep(k) /\ UNCHANGED resolutionVars
      BY <2>2, <2>7, LedgerCommanded, Zenon DEF LedgerCommand
    <3>2. SagasKept /\ \A j \in Keys : Onward(j)
      BY <2>2, <3>1, PartyStepKeeps, Zenon DEF SagasKept
    <3> QED BY <1>1, <2>2, <2>7, <3>2, LedgerKept, Zenon
  <2>8. CASE Attest(w)
    <3>1. PartyStep(k) /\ UNCHANGED resolutionVars
      BY <2>2, <2>8, Attested, Zenon DEF Attest
    <3>2. SagasKept /\ \A j \in Keys : Onward(j)
      BY <2>2, <3>1, PartyStepKeeps, Zenon DEF SagasKept
    <3> QED BY <1>1, <2>2, <2>8, <3>2, AttestKept, Zenon
  <2>9. CASE ResolveUnknownSaga(w)
    <3>1. ResolvePath(w, k, "settle", "commit") \/ ResolvePath(w, k, "held", "void")
      BY <2>2, <2>9, Paths, Zenon
    <3>2. SagasKept /\ \A j \in Keys : Onward(j)
      BY <2>2, <3>1, ResolveKeeps, Zenon DEF SagasKept
    <3> QED BY <1>1, <2>2, <2>9, <3>2, ResolveKept, Zenon
  <2> QED BY <1>7, <2>3, <2>4, <2>5, <2>6, <2>7, <2>8, <2>9, Zenon
<1> QED BY <1>3, <1>4, <1>5, <1>6, <1>7, Zenon DEF WorkerStep

\* Calls, workers, approvers and time keep the invariant, and write to the store as it
\* promises.
LEMMA RStep ==
  ASSUME RInv, [RNext]_rvars
  PROVE  RInv' /\ SagasKept
PROOF
<1>1. RTypeOK /\ TypeOK /\ ResolutionTypes /\ WorkerTypes /\ StoreInv /\ \A w \in Workers : WorkerInv(w) /\ BatchInv(w)
  BY RTypeParts, Zenon DEF RInv
<1>2. TypeOK' /\ ResolutionTypes' /\ WorkerTypes' => RTypeOK'
  BY RTypeParts, PTL
<1>3. ASSUME SagasKept, WorkerTypes', \A w \in Workers : WorkerInv(w)' /\ BatchInv(w)' PROVE RInv' /\ SagasKept
  <2>1. StoreInv'
    BY <1>1, <1>3, StoreInductive, Zenon DEF SagasKept
  <2> QED BY <1>2, <1>3, <2>1, Zenon DEF RInv, IInv, SagasKept
<1>4. ASSUME SagasKept, UNCHANGED workerVars PROVE RInv' /\ SagasKept
  <2>1. WorkerTypes' /\ \A w \in Workers : SameWorker(w)
    BY <1>1, <1>4, Zenon DEF workerVars, WorkerTypes, SameWorker
  <2>2. \A k \in Keys : Onward(k)
    BY <1>4, Zenon DEF SagasKept
  <2>3. \A w \in Workers : WorkerInv(w)' /\ BatchInv(w)'
    BY <1>1, <2>1, <2>2, WorkerFrame, Zenon
  <2> QED BY <1>3, <1>4, <2>1, <2>3, Zenon
<1>5. CASE [Next]_vars /\ UNCHANGED <<resolutionVars, workerVars>>
  BY <1>4, <1>5, CoordinatorKeeps, Zenon
<1>6. ASSUME NEW w \in Workers, WorkerStep(w) PROVE RInv' /\ SagasKept
  <2>1. SagasKept /\ WorkerKept(w)
    BY <1>6, WorkerKeeps, Zenon
  <2>2. \A k \in Keys : Onward(k)
    BY <2>1, Zenon DEF SagasKept
  <2>3. ASSUME NEW v \in Workers \ {w} PROVE WorkerInv(v)' /\ BatchInv(v)'
    <3>1. SameWorker(v)
      BY <2>1, Zenon DEF WorkerKept
    <3> QED BY <1>1, <2>2, <3>1, WorkerFrame, Zenon
  <2> QED BY <1>3, <2>1, <2>3, Zenon DEF WorkerKept
<1>7. ASSUME NEW k \in Keys, NEW decision \in {"commit", "void", "hold"}, Authorize(k, decision)
      PROVE  RInv' /\ SagasKept
  <2>1. UNCHANGED workerVars
    BY <1>7, Zenon DEF Authorize
  <2> QED BY <1>4, <1>7, <2>1, AuthorizeKeeps, Zenon
<1>8. CASE Tick
  <2>1. UNCHANGED <<vars, lease, auth, workerVars>>
    BY <1>8, Zenon DEF Tick
  <2>2. clock' \in 1 .. (MaxTime + 1)
    BY <1>1, <1>8, ReconcilerAssumption, SMTT(20) DEF Tick, ResolutionTypes
  <2>3. ResolutionTypes'
    BY <1>1, <2>1, <2>2, Zenon DEF ResolutionTypes
  <2> QED BY <1>4, <2>1, <2>3, QuietKeeps, Zenon
<1>9. CASE UNCHANGED rvars
  BY <1>5, <1>9, Zenon DEF rvars
<1> QED BY <1>5, <1>6, <1>7, <1>8, <1>9, Zenon DEF RNext

LEMMA RInit0 == RInit => RInv
PROOF
<1> SUFFICES ASSUME RInit PROVE RInv
  OBVIOUS
<1>1. Init /\ IInv /\ StoreInv /\ TypeOK
  BY InitInv, StoreInvInit, Zenon DEF RInit, Init, IInv
<1>2. WorkerTypes
  BY BlankTypes, Zenon DEF RInit, WorkerTypes, WorkerPhases
<1>3. ResolutionTypes
  <2>1. clock \in 1 .. (MaxTime + 1)
    BY ReconcilerAssumption, SMTT(20) DEF RInit
  <2>2. NoLease \in [owner : Workers \cup {"none"}, until : Nat]
    BY SMTT(20) DEF NoLease
  <2>3. NoAuth \in [decision : {"none", "commit", "void", "hold"}, expires : Nat, consumed : BOOLEAN]
    BY SMTT(20) DEF NoAuth
  <2> QED BY <2>1, <2>2, <2>3, Zenon DEF RInit, ResolutionTypes
<1>4. \A w \in Workers : WorkerInv(w) /\ BatchInv(w)
  BY Zenon DEF RInit, WorkerInv, BatchInv
<1>5. ASSUME NEW k \in Keys PROVE UnknownInv(k)
  <2>1. events[k] = {} /\ auth[k].consumed = FALSE
    BY <1>1, Zenon DEF RInit, Init, StoreInit, NoAuth
  <2> QED BY <2>1, Zenon DEF UnknownInv, WasUnknown
<1> QED BY <1>1, <1>2, <1>3, <1>4, <1>5, RTypeParts, Zenon DEF RInv

-----------------------------------------------------------------------------
(* The ledger of a saga that has ended or is UNKNOWN. *)

\* It moves when an abandoned command lands, or by the approved command of a worker.
LEMMA LedgerFate ==
  ASSUME RInv, [RNext]_rvars, NEW k \in Keys, saga[k].stage \in TerminalStages, ledger'[k] # ledger[k]
  PROVE  \/ \E e \in LedgerCommands : Land(k, e)
         \/ \E w \in Workers, e \in {"commit", "void"} :
              /\ wphase[w] = e /\ cur[w][1] = k /\ LedgerAccepts(ledger[k], e) /\ ApplyLedger(k, e)
PROOF
<1>1. CASE [Next]_vars
  BY <1>1, CallsLeaveLedger, Zenon DEF RInv
<1>2. CASE UNCHANGED ledger
  BY <1>2, Zenon
<1>3. ASSUME NEW w \in Workers, LedgerCommand(w)
      PROVE  \E e \in {"commit", "void"} : 
               /\ wphase[w] = e /\ cur[w][1] = k /\ LedgerAccepts(ledger[k], e) /\ ApplyLedger(k, e)
  <2>1. PICK j : cur[w][1] = j
    BY Zenon
  <2>2. PICK e \in {"commit", "void"} : wphase[w] = e /\ LedgerAccepts(ledger[j], e) /\ ApplyLedger(j, e)
    BY <1>2, <1>3, <2>1, Paths, Zenon DEF LedgerPath, Abandon
  <2>3. j = k
    BY <2>2, Zenon DEF ApplyLedger, RInv, IInv, TypeOK, PartiesTypeOK
  <2> QED BY <2>1, <2>2, <2>3, Zenon
<1>4. ASSUME NEW w \in Workers, WorkerStep(w), ~LedgerCommand(w) PROVE UNCHANGED ledger
  <2>1. Claim(w) \/ LoadClaimed(w) \/ TakeRecord(w) \/ Observe(w) \/ FindAuthorization(w) \/ Stop(w) => UNCHANGED vars
    BY Zenon DEF Claim, LoadClaimed, TakeRecord, Observe, FindAuthorization, Stop
  <2>2. QueryFiat(w) \/ QueryCustody(w) \/ Attest(w) => UNCHANGED ledger
    BY Zenon DEF QueryFiat, QueryCustody, Attest, ApplyAttest, Abandon
  <2>3. ResolveUnknownSaga(w) => UNCHANGED partyVars
    BY Zenon DEF ResolveUnknownSaga
  <2> QED BY <1>4, <2>1, <2>2, <2>3, Zenon DEF WorkerStep, vars, partyVars
<1>5. (\E j \in Keys, decision \in {"commit", "void", "hold"} : Authorize(j, decision)) \/ Tick \/ UNCHANGED rvars
        => UNCHANGED vars
  BY Zenon DEF Authorize, Tick, rvars
<1> QED BY <1>1, <1>2, <1>3, <1>4, <1>5, Zenon DEF RNext, vars, partyVars

LEMMA LedgerFrozen ==
  ASSUME RInv, [RNext]_rvars
  PROVE  TerminalFreezesLedger /\ LedgerMovesOnlyApproved
PROOF
<1>1. RInv' /\ SagasKept /\ PartiesTypeOK
  BY RStep, Zenon DEF RInv, IInv, TypeOK
<1>2. ASSUME NEW k \in Keys, saga[k].stage \in {"settled", "held"}, ledger'[k] # ledger[k] PROVE FALSE
  <2>1. KeyInv(k) /\ PartiesOnward(k) /\ saga[k].stage \in TerminalStages
    BY <1>1, <1>2, IInvParts, Zenon DEF RInv, SagasKept, Onward, TerminalStages
  <2>2. ledger[k] = "none" /\ <<k, "prepare">> \notin wire
    BY <1>2, <2>1, Zenon DEF KeyInv, PartiesOnward
  <2>3. ASSUME NEW e \in LedgerCommands, Land(k, e) PROVE FALSE
    <3>1. <<k, e>> \in wire /\ ApplyLedger(k, e)
      BY <2>3, Zenon DEF Land, LedgerCommands
    <3>2. ledger'[k] = LedgerAfter("none", e) /\ e \in {"commit", "void"}
      BY <1>1, <2>2, <3>1, Zenon DEF ApplyLedger, PartiesTypeOK, LedgerCommands
    <3> QED BY <1>2, <2>2, <3>2, Zenon DEF LedgerAfter
  <2>4. ASSUME NEW e \in {"commit", "void"}, LedgerAccepts(ledger[k], e) PROVE FALSE
    <3>1. CASE e = "commit"
      BY <2>2, <2>4, <3>1, SMTT(20) DEF LedgerAccepts
    <3>2. CASE e = "void"
      BY <2>2, <2>4, <3>2, SMTT(20) DEF LedgerAccepts
    <3> QED BY <3>1, <3>2, Zenon
  <2> QED BY <1>2, <2>1, <2>3, <2>4, LedgerFate, Zenon
<1>3. ASSUME NEW k \in Keys, saga[k].stage = "unknown", ledger'[k] # ledger[k]
      PROVE  \/ \E e \in LedgerCommands : <<k, e>> \in wire /\ <<k, e>> \notin wire'
             \/ auth[k].decision = (IF ledger'[k] = "posted" THEN "commit" ELSE "void")
  <2>1. saga[k].stage \in TerminalStages
    BY <1>3, Zenon DEF TerminalStages
  <2>2. ASSUME NEW e \in LedgerCommands, Land(k, e) PROVE <<k, e>> \in wire /\ <<k, e>> \notin wire'
    BY <2>2, Zenon DEF Land
  <2>3. ASSUME NEW w \in Workers, NEW e \in {"commit", "void"}, wphase[w] = e, cur[w][1] = k, ApplyLedger(k, e)
        PROVE  auth[k].decision = (IF ledger'[k] = "posted" THEN "commit" ELSE "void")
    <3>1. auth[k].decision = e
      BY <2>3, Zenon DEF RInv, WorkerInv
    <3>2. ledger'[k] = LedgerAfter(ledger[k], e)
      BY <1>1, <2>3, Zenon DEF ApplyLedger, PartiesTypeOK
    <3>3. ledger'[k] = (IF e = "commit" THEN "posted" ELSE "voided")
      BY <1>3, <3>2, Zenon DEF LedgerAfter
    <3> QED BY <3>1, <3>3, Zenon
  <2>4. CASE \E e \in LedgerCommands : Land(k, e)
    BY <2>2, <2>4, Zenon
  <2>5. CASE \E w \in Workers, e \in {"commit", "void"} :
               /\ wphase[w] = e /\ cur[w][1] = k /\ LedgerAccepts(ledger[k], e) /\ ApplyLedger(k, e)
    BY <2>3, <2>5, Zenon
  <2> QED BY <1>3, <2>1, <2>4, <2>5, LedgerFate, Zenon
<1> QED BY <1>2, <1>3, Zenon DEF TerminalFreezesLedger, LedgerMovesOnlyApproved

-----------------------------------------------------------------------------
\* For any calls, workers, batch size, lease and authorization life: the coordinator's
\* invariant survives the reconcilers, what a worker has observed stays true until it acts
\* on it, and a saga has left UNKNOWN exactly when its authorization is consumed.
THEOREM ReconcilerInductive == RSpec => []RInv
PROOF
<1>1. RInv /\ [RNext]_rvars => RInv'
  BY RStep, Zenon
<1> QED BY <1>1, RInit0, PTL DEF RSpec

\* Settled, held, posted and voided mean what they say whoever ended the saga: Execute, or
\* a worker that resolved it while abandoned commands were still landing and other workers
\* were acting on the same record (all_rails.go, unknown_saga_reconciler.go).
THEOREM ResolutionKeepsSettlement == RSpec => []SettlementSafety
PROOF
<1>1. RInv => SettlementSafety
  BY Zenon DEF RInv, IInv, SettlementSafety
<1> QED BY <1>1, ReconcilerInductive, PTL

\* A saga leaves UNKNOWN exactly when its authorization is consumed and as it says, the
\* ledger of a settled or held saga no longer moves, and that of an UNKNOWN one only by a
\* command already under way or by an approved one, even when the approval expires, the
\* lease is lost or the worker dies in between (unknown_saga_reconciler.go,
\* unknown_saga_store.go).
THEOREM ResolutionSafe == RSpec => ResolutionSafety
PROOF
<1>a. RInv => ResolvedByAuthorization
  BY Zenon DEF RInv, UnknownInv, WasUnknown, ResolvedByAuthorization
<1>b. RInv' => ResolvedByAuthorization'
  BY <1>a, PTL
<1>1. ASSUME RInv, [RNext]_rvars
      PROVE  RTypeOK' /\ ResolvedByAuthorization' /\ TerminalFreezesLedger /\ LedgerMovesOnlyApproved
  <2>1. RInv' /\ TerminalFreezesLedger /\ LedgerMovesOnlyApproved
    BY <1>1, RStep, LedgerFrozen, Zenon
  <2> QED BY <1>b, <2>1, Zenon DEF RInv
<1> QED BY <1>1, ReconcilerInductive, PTL DEF RSpec, ResolutionSafety

\* With reconcilers at work the saga table is still a behaviour of its contract: what they
\* write are resolutions of UNKNOWN rows.
THEOREM ReconcilerImplementsStore == RSpec => StoreSpec
PROOF
<1>1. RInit => StoreInit
  BY Zenon DEF RInit, Init
<1>2. RInv /\ [RNext]_rvars => [StoreNext]_storeVars
  BY RStep, Zenon DEF SagasKept
<1> QED BY <1>1, <1>2, ReconcilerInductive, PTL DEF RSpec, StoreSpec

\* So every saga keeps complete evidence, and what was settled or held stays so, whoever
\* ended it (postgres_saga.go, unknown_saga_store.go).
THEOREM ReconcilerKeepsStoreSafety == RSpec => []StoreSafety /\ TerminalIsFinal
BY ReconcilerImplementsStore, StoreSafe, StoreFinal, Zenon
=============================================================================
