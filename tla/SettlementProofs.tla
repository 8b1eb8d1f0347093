-------------------------- MODULE SettlementProofs --------------------------
(***************************************************************************)
(* Theorems about the saga store by itself, then about the settlement      *)
(* coordinator. Its inductive invariant IInv is a conjunction of facts     *)
(* about one key and facts about one call, and what a step does not touch  *)
(* keeps its facts: a step touches one key and at most one call, so each   *)
(* action is shown to keep the facts about its own, and StepLemma adds     *)
(* that the rest is framed. Submitted intents, processes that stop, voids  *)
(* and the steps of the authorities come first, then the calls (one lemma  *)
(* per kind of answer, and one for the answer that never comes), then      *)
(* writing to the saga store. The safety theorems follow, with the         *)
(* refinement of the store contract and the order of an off-ramp's legs.   *)
(***************************************************************************)
EXTENDS SettlementSaga, TLAPS

-----------------------------------------------------------------------------
(* The store by itself. *)

\* StoreSafety is not inductive: a resolution writes without looking for an
\* earlier event of the stage it enters. What makes that sound is that a
\* settled or held event is the last one of its saga.
LastIsTerminal(k) == \A e \in events[k] : e.stage \in {"settled", "held"} => e.version = saga[k].version

\* A key without a row has no stage.
NoRowNoStage(k) == saga[k].version = 0 => saga[k].stage = "none"

\* The inductive invariant of the store.
StoreInv ==
  /\ StoreSafety
  /\ \A k \in Keys : LastIsTerminal(k) /\ NoRowNoStage(k)

\* EvidenceMatchesRow of one key.
Evidence(k) ==
  /\ \A e \in events[k] : e.version >= 1 /\ e.version <= saga[k].version
  /\ \A n \in 1 .. saga[k].version : \E e \in events[k] : e.version = n
  /\ saga[k].version > 0 => [version |-> saga[k].version, stage |-> saga[k].stage] \in events[k]
  /\ \A e, f \in events[k] : e.stage = f.stage \/ e.version = f.version => e = f

\* What one row says of the order of its own stages.
RowInv(k) == Evidence(k) /\ LastIsTerminal(k) /\ NoRowNoStage(k)

\* The versions of the events are those up to the row's, each of them.
LEMMA VersionsOf ==
  ASSUME StoreTypeOK, NEW k \in Keys
  PROVE  ({e.version : e \in events[k]} = 1 .. saga[k].version) <=>
           /\ \A e \in events[k] : e.version >= 1 /\ e.version <= saga[k].version
           /\ \A n \in 1 .. saga[k].version : \E e \in events[k] : e.version = n
PROOF
<1> saga[k].version \in Nat /\ \A e \in events[k] : e.version \in Nat
  BY SMTT(20) DEF StoreTypeOK, Records
<1> QED OBVIOUS

\* The store's invariant, by row.
LEMMA StoreInvParts ==
  StoreInv <=> StoreTypeOK /\ OneUncommittedPerTenant /\ \A k \in Keys : RowInv(k)
BY VersionsOf, Zenon DEF StoreInv, StoreSafety, EvidenceMatchesRow, RowInv, Evidence

\* A write replaces one row and adds one event to it.
LEMMA WriteEffect ==
  ASSUME StoreTypeOK, NEW k \in Keys, NEW r, WriteRow(k, r)
  PROVE  /\ saga'[k] = r
         /\ events'[k] = events[k] \cup {[version |-> r.version, stage |-> r.stage]}
         /\ \A j \in Keys \ {k} : saga'[j] = saga[j] /\ events'[j] = events[j]
BY Zenon DEF StoreTypeOK, WriteRow, insertTransitionAndOutbox

\* The stages that rows are written with.
LEMMA StageTypes ==
  /\ TerminalStages \subseteq Stages
  /\ "received" \in Stages /\ "none" \notin Stages
BY Zenon DEF Stages, TerminalStages

\* recordWithUpdate keeps a record well formed.
LEMMA UpdateType ==
  ASSUME NEW record \in Records, NEW stage \in Stages, NEW refs \in SUBSET References
  PROVE  recordWithUpdate(record, stage, refs) \in Records
BY SMTT(20) DEF recordWithUpdate, Records

\* Writing a well-formed row keeps the store well typed.
LEMMA WriteRowType ==
  ASSUME StoreTypeOK, NEW k \in Keys, NEW record \in Records, record.stage \in Stages, WriteRow(k, record)
  PROVE  StoreTypeOK'
PROOF
<1>1. record.version \in Nat
  BY Zenon DEF Records
<1>2. [version |-> record.version, stage |-> record.stage] \in [version : Nat, stage : Stages]
  BY <1>1, Zenon
<1>3. saga' \in [Keys -> Records]
  BY Zenon DEF StoreTypeOK, WriteRow
<1>4. events' \in [Keys -> SUBSET [version : Nat, stage : Stages]]
  BY <1>2, Zenon DEF StoreTypeOK, WriteRow, insertTransitionAndOutbox
<1> QED BY <1>3, <1>4, Zenon DEF StoreTypeOK

\* A write of the next version, of a stage the saga has not been in, leaves
\* complete evidence, as long as nothing ended the saga before.
LEMMA NextVersion ==
  ASSUME StoreTypeOK, NEW k \in Keys, NEW r \in Records, RowInv(k),
         r.version = saga[k].version + 1, r.stage # "none",
         \A e \in events[k] : e.stage # r.stage /\ e.stage \notin {"settled", "held"},
         WriteRow(k, r)
  PROVE  RowInv(k)'
PROOF
<1> DEFINE new == [version |-> r.version, stage |-> r.stage]
<1>1. saga[k].version \in Nat /\ \A e \in events[k] : e.version \in Nat
  BY SMTT(20) DEF StoreTypeOK, Records
<1>2. saga'[k] = r /\ events'[k] = events[k] \cup {new}
  BY WriteEffect, Zenon
<1>3. /\ \A e \in events[k] : e.version >= 1 /\ e.version <= saga[k].version
      /\ \A n \in 1 .. saga[k].version : \E e \in events[k] : e.version = n
      /\ \A e, f \in events[k] : e.stage = f.stage \/ e.version = f.version => e = f
  BY Zenon DEF RowInv, Evidence
<1>4. new.version = saga[k].version + 1 /\ new.stage = r.stage /\ r.version = saga[k].version + 1
  OBVIOUS
<1> HIDE DEF new
<1>5. \A e \in events'[k] : e.version >= 1 /\ e.version <= r.version
  BY <1>1, <1>2, <1>3, <1>4, SMTT(20)
<1>6. \A n \in 1 .. r.version : \E e \in events'[k] : e.version = n
  <2> SUFFICES ASSUME NEW n \in 1 .. r.version PROVE \E e \in events'[k] : e.version = n
    OBVIOUS
  <2>1. CASE n = r.version
    BY <1>2, <1>4, <2>1, Zenon
  <2>2. CASE n # r.version
    <3>1. n \in 1 .. saga[k].version
      BY <1>1, <1>4, <2>2, SMTT(20)
    <3> QED BY <1>2, <1>3, <3>1, Zenon
  <2> QED BY <2>1, <2>2, Zenon
<1>7. \A e, f \in events'[k] : e.stage = f.stage \/ e.version = f.version => e = f
  <2>1. \A e \in events[k] : e.version # new.version /\ e.stage # new.stage
    BY <1>1, <1>3, <1>4, SMTT(20)
  <2> QED BY <1>2, <1>3, <2>1, Zenon
<1>8. \A e \in events'[k] : e.stage \in {"settled", "held"} => e.version = r.version
  BY <1>2, <1>4, Zenon
<1>9. [version |-> r.version, stage |-> r.stage] \in events'[k]
  BY <1>2, Zenon DEF new
<1>10. r.version # 0
  BY <1>1, <1>4, SMTT(20)
<1> QED BY <1>2, <1>5, <1>6, <1>7, <1>8, <1>9, <1>10, Zenon DEF RowInv, Evidence, LastIsTerminal, NoRowNoStage

\* What is said of a row stays true while the row is left alone.
LEMMA RowFrame ==
  ASSUME NEW k \in Keys, RowInv(k), saga'[k] = saga[k], events'[k] = events[k]
  PROVE  RowInv(k)'
BY Zenon DEF RowInv, Evidence, LastIsTerminal, NoRowNoStage

\* A row that has ended holds the event that says so, and no other row does.
LEMMA OpenRow ==
  ASSUME StoreTypeOK, NEW k \in Keys, RowInv(k), saga[k].stage \notin {"settled", "held"}
  PROVE  \A e \in events[k] : e.stage \notin {"settled", "held"}
PROOF
<1> SUFFICES ASSUME NEW e \in events[k], e.stage \in {"settled", "held"} PROVE FALSE
  OBVIOUS
<1>1. e.version = saga[k].version /\ e.version >= 1
  BY Zenon DEF RowInv, Evidence, LastIsTerminal
<1>2. [version |-> saga[k].version, stage |-> saga[k].stage] \in events[k]
  BY <1>1, SMTT(20) DEF RowInv, Evidence, StoreTypeOK, Records
<1>3. e = [version |-> saga[k].version, stage |-> saga[k].stage]
  BY <1>1, <1>2, Zenon DEF RowInv, Evidence
<1> QED BY <1>3, Zenon

\* A legal advance leaves an open row, and a row that is there has a stage.
LEMMA AdvanceFromOpen ==
  ASSUME StoreTypeOK, NEW k \in Keys, NEW next, NEW refs, RowInv(k), AdvanceAllowed(k, saga[k], next, refs)
  PROVE  saga[k].stage \notin TerminalStages
PROOF
<1>1. saga[k].stage \in Stages
  BY SMTT(20) DEF AdvanceAllowed, RowInv, Evidence, StoreTypeOK
<1>2. stageAllowsRecord(saga[k], next)
  BY Zenon DEF AdvanceAllowed
<1>3. saga[k].stage \in TerminalStages => stageSuccessors[saga[k].stage] = {}
  BY <1>1, Zenon DEF stageSuccessors, TerminalStages
<1> QED BY <1>2, <1>3, Zenon DEF stageAllowsRecord, stageAllows, terminalStage, TerminalStages

\* The row that a step of the store writes.
Written(k, r) ==
  /\ k \in Keys /\ r \in Records /\ r.stage \in Stages
  /\ r.version = saga[k].version + 1
  /\ \A e \in events[k] : e.stage # r.stage /\ e.stage \notin {"settled", "held"}
  /\ \A j \in Keys \ {k} :
       saga[j].version > 0 /\ TenantOf[j] = TenantOf[k] => "transfer" \in r.refs \cup saga[j].refs
  /\ WriteRow(k, r)
  /\ saga[k].version > 0 => r.req = saga[k].req /\ saga[k].refs \subseteq r.refs
  /\ saga[k].stage = "unknown" => r.stage \in TerminalStages
  /\ saga[k].stage \notin {"settled", "held"}

\* Every step of the store writes one row in this way.
LEMMA StoreWrites ==
  ASSUME StoreInv, StoreNext
  PROVE  \E k \in Keys, r \in Records : Written(k, r)
PROOF
<1>1. StoreTypeOK /\ OneUncommittedPerTenant /\ \A k \in Keys : RowInv(k)
  BY StoreInvParts, Zenon
<1>2. \A k \in Keys : saga[k] \in Records /\ saga[k].version \in Nat
  BY <1>1, Zenon DEF StoreTypeOK, Records
<1>3. ASSUME NEW q \in Requests, StoreReserve(q)
      PROVE  Written(q.key, ReservedRecord(q)) /\ ReservedRecord(q) \in Records
  <2> DEFINE r == ReservedRecord(q)
  <2>1. q.key \in Keys
    BY RequestsAssumption, Zenon
  <2>2. r \in Records /\ r.stage \in Stages
    BY Zenon DEF ReservedRecord, Records, Stages
  <2>3. saga[q.key].version = 0
    BY <1>3, Zenon DEF StoreReserve, ReserveInserts
  <2>4. r.version = saga[q.key].version + 1 /\ r.refs = {}
    BY <2>3, SMTT(20) DEF ReservedRecord
  <2>5. events[q.key] = {} /\ saga[q.key].stage = "none"
    <3>1. \A e \in events[q.key] : e.version >= 1 /\ e.version <= saga[q.key].version
      BY <1>1, <2>1, Zenon DEF RowInv, Evidence
    <3>3. \A e \in events[q.key] : e.version \in Nat
      BY <1>1, <2>1, SMTT(20) DEF StoreTypeOK
    <3>2. saga[q.key].stage = "none"
      BY <1>1, <2>1, <2>3, Zenon DEF RowInv, NoRowNoStage
    <3> QED BY <2>3, <3>1, <3>2, <3>3, SMTT(20)
  <2>6. UniqueLedgerIDs(q.key, r) /\ WriteRow(q.key, r)
    BY <1>3, Zenon DEF StoreReserve, ReserveInserts
  <2> HIDE DEF r
  <2>7. \A j \in Keys \ {q.key} :
          saga[j].version > 0 /\ TenantOf[j] = TenantOf[q.key] => "transfer" \in r.refs \cup saga[j].refs
    BY <2>6, Zenon DEF UniqueLedgerIDs
  <2>8. Written(q.key, r)
    BY <2>1, <2>2, <2>3, <2>4, <2>5, <2>6, <2>7, SMTT(20) DEF Written
  <2> QED BY <2>2, <2>8, Zenon DEF r
<1>4. ASSUME NEW k \in Keys, NEW next \in Stages, NEW refs \in Updates, StoreAdvance(k, next, refs)
      PROVE  LET r == recordWithUpdate(saga[k], next, refs) IN Written(k, r) /\ r \in Records
  <2> DEFINE r == recordWithUpdate(saga[k], next, refs)
  <2>1. r \in Records
    BY <1>2, UpdateType, UpdatesAssumption, Zenon
  <2>2. /\ r.stage = next /\ r.version = saga[k].version + 1 /\ r.req = saga[k].req
        /\ saga[k].refs \subseteq r.refs
    BY Zenon DEF recordWithUpdate
  <2>3. AdvanceAllowed(k, saga[k], next, refs) /\ WriteRow(k, r)
    BY <1>4, Zenon DEF StoreAdvance
  <2>4. saga[k].stage \notin TerminalStages
    BY <1>1, <2>3, AdvanceFromOpen, Zenon
  <2>5. \A e \in events[k] : e.stage \notin {"settled", "held"}
    BY <1>1, <2>4, OpenRow, Zenon DEF TerminalStages
  <2>6. UniqueLedgerIDs(k, r) /\ FreshEvent(k, r)
    BY <2>3, Zenon DEF AdvanceAllowed
  <2> HIDE DEF r
  <2>7. \A j \in Keys \ {k} :
          saga[j].version > 0 /\ TenantOf[j] = TenantOf[k] => "transfer" \in r.refs \cup saga[j].refs
    BY <2>6, Zenon DEF UniqueLedgerIDs
  <2>8. Written(k, r)
    BY <2>1, <2>2, <2>3, <2>4, <2>5, <2>6, <2>7, Zenon DEF Written, FreshEvent, TerminalStages
  <2> QED BY <2>1, <2>8, Zenon DEF r
<1>5. ASSUME NEW k \in Keys, NEW d, NEW refs \in Updates, StoreResolve(k, d, refs)
      PROVE  LET r == ResolvedRecord(saga[k], d, refs) IN Written(k, r) /\ r \in Records
  <2> DEFINE end == IF d = "commit" THEN "settled" ELSE "held"
             r == recordWithUpdate(saga[k], end, refs)
  <2>0. end \in {"settled", "held"} /\ end \in Stages /\ end \in TerminalStages
    BY Zenon DEF Stages, TerminalStages
  <2>00. ResolvedRecord(saga[k], d, refs) = r
    BY Zenon DEF ResolvedRecord
  <2> HIDE DEF end
  <2>1. r \in Records
    BY <1>2, <2>0, UpdateType, UpdatesAssumption, Zenon
  <2>2. /\ r.stage = end /\ r.version = saga[k].version + 1 /\ r.req = saga[k].req
        /\ saga[k].refs \subseteq r.refs
    BY Zenon DEF recordWithUpdate
  <2>3. saga[k].stage = "unknown" /\ WriteRow(k, r)
    BY <1>5, <2>00, Zenon DEF StoreResolve
  <2>4. \A e \in events[k] : e.stage \notin {"settled", "held"}
    BY <1>1, <2>3, OpenRow, Zenon
  <2> HIDE DEF r
  <2>5. saga[k].version > 0
    BY <1>1, <1>2, <2>3, SMTT(20) DEF RowInv, NoRowNoStage
  <2>6. \A j \in Keys \ {k} :
          saga[j].version > 0 /\ TenantOf[j] = TenantOf[k] => "transfer" \in r.refs \cup saga[j].refs
    BY <1>1, <2>2, <2>5, Zenon DEF OneUncommittedPerTenant
  <2>7. Written(k, r)
    BY <2>0, <2>1, <2>2, <2>3, <2>4, <2>6, Zenon DEF Written
  <2> QED BY <2>00, <2>1, <2>7, Zenon
<1> QED BY <1>3, <1>4, <1>5, RequestsAssumption, Zenon DEF StoreNext

\* A write keeps the invariant.
LEMMA StoreInductive == StoreInv /\ [StoreNext]_storeVars => StoreInv'
PROOF
<1> SUFFICES ASSUME StoreInv, [StoreNext]_storeVars PROVE StoreInv'
  OBVIOUS
<1>1. StoreTypeOK /\ OneUncommittedPerTenant /\ \A k \in Keys : RowInv(k)
  BY StoreInvParts, Zenon
<1>2. StoreTypeOK' /\ OneUncommittedPerTenant' /\ (\A k \in Keys : RowInv(k))' => StoreInv'
  BY StoreInvParts, PTL
<1>3. CASE UNCHANGED storeVars
  <2>1. StoreTypeOK' /\ OneUncommittedPerTenant'
    BY <1>1, <1>3, Zenon DEF storeVars, StoreTypeOK, OneUncommittedPerTenant
  <2>2. \A k \in Keys : RowInv(k)'
    BY <1>1, <1>3, RowFrame, Zenon DEF storeVars
  <2> QED BY <1>2, <2>1, <2>2, Zenon
<1>4. CASE StoreNext
  <2>1. PICK k \in Keys, r \in Records : Written(k, r)
    BY <1>4, StoreWrites, Zenon
  <2>2. WriteRow(k, r) /\ r.stage \in Stages
    BY <2>1, Zenon DEF Written
  <2>3. StoreTypeOK'
    BY <1>1, <2>2, WriteRowType, Zenon
  <2>4. /\ saga'[k] = r
        /\ \A j \in Keys \ {k} : saga'[j] = saga[j] /\ events'[j] = events[j]
    BY <1>1, <2>2, WriteEffect, Zenon
  <2>5. OneUncommittedPerTenant'
    BY <1>1, <2>1, <2>4, Zenon DEF OneUncommittedPerTenant, Written
  <2>6. RowInv(k)'
    BY <1>1, <2>1, <2>2, NextVersion, StageTypes, Zenon DEF Written
  <2>7. \A j \in Keys : RowInv(j)'
    BY <1>1, <2>4, <2>6, RowFrame, Zenon
  <2> QED BY <1>2, <2>3, <2>5, <2>7, Zenon
<1> QED BY <1>3, <1>4, Zenon

\* The empty store has the invariant.
LEMMA StoreInvInit == StoreInit => StoreInv
PROOF
<1> SUFFICES ASSUME StoreInit PROVE StoreInv
  OBVIOUS
<1>1. StoreTypeOK /\ OneUncommittedPerTenant
  BY SMTT(20) DEF StoreInit, StoreTypeOK, OneUncommittedPerTenant, EmptyRecord, Records
<1>2. \A k \in Keys : RowInv(k)
  <2>1. \A k \in Keys : saga[k].version = 0 /\ saga[k].stage = "none" /\ events[k] = {}
    BY Zenon DEF StoreInit, EmptyRecord
  <2>2. 1 .. 0 = {} /\ ~(0 > 0)
    OBVIOUS
  <2> QED BY <2>1, <2>2, Zenon DEF RowInv, Evidence, LastIsTerminal, NoRowNoStage
<1> QED BY <1>1, <1>2, StoreInvParts, Zenon

\* For any keys, requests and updates, the saga table is well typed, its event log has one
\* event for each version up to the row's and none of a stage twice, and a tenant has at most
\* one saga without a ledger transfer, whatever Reserve, Advance, MarkHeld, MarkUnknown and the
\* operator's resolution write (postgres_saga.go).
THEOREM StoreSafe == StoreSpec => []StoreSafety
PROOF
<1>1. StoreInv => StoreSafety
  BY Zenon DEF StoreInv
<1> QED BY <1>1, StoreInvInit, StoreInductive, PTL DEF StoreSpec

\* A settled or held saga is never written again, an unknown one only resolved, and no write
\* changes the request or drops a reference (stageAllowsRecord, and the stage that ResolveUnknownSaga asks for).
THEOREM StoreFinal == StoreSpec => TerminalIsFinal
PROOF
<1> DEFINE A == \A k \in Keys :
       /\ saga[k].stage \in {"settled", "held"} => saga'[k] = saga[k]
       /\ saga[k].stage = "unknown" => saga'[k].stage \in TerminalStages
       /\ saga[k].version > 0 => /\ saga'[k].req = saga[k].req
                                 /\ saga[k].refs \subseteq saga'[k].refs
<1>1. StoreInv /\ [StoreNext]_storeVars => [A]_storeVars
  <2> SUFFICES ASSUME StoreInv, StoreNext PROVE A
    OBVIOUS
  <2>1. PICK k \in Keys, r \in Records : Written(k, r)
    BY StoreWrites, Zenon
  <2>2. StoreTypeOK /\ WriteRow(k, r)
    BY <2>1, StoreInvParts, Zenon DEF Written
  <2>3. saga'[k] = r /\ \A j \in Keys \ {k} : saga'[j] = saga[j]
    BY <2>2, WriteEffect, Zenon
  <2> QED BY <2>1, <2>3, Zenon DEF Written, TerminalStages
<1> QED BY <1>1, StoreInvInit, StoreInductive, PTL DEF StoreSpec, TerminalIsFinal

-----------------------------------------------------------------------------
(* The invariant, by key and by call. *)

\* The facts of IInv about one key, and about the answer of one call.
KeyInv(k) ==
  /\ WireInv(k)
  /\ saga[k].stage = "settled" =>
       fiat[k] = "settled" /\ custody[k] = "final" /\ ledger[k] = "posted" /\ attested[k]
  /\ saga[k].stage = "held" =>
       /\ fiat[k] # "settled" /\ (<<k, "fiat">> \in wire => fiat[k] = "rejected")
       /\ custody[k] = "rejected" \/ (custody[k] = "none" /\ <<k, "custody">> \notin wire)
       /\ ledger[k] = "voided" \/ (ledger[k] = "none" /\ <<k, "prepare">> \notin wire)
  /\ ledger[k] = "posted" => fiat[k] = "settled" /\ custody[k] = "final"
  /\ ledger[k] = "voided" => fiat[k] = "rejected" /\ custody[k] \in {"none", "rejected"}
  /\ \A e \in MoneyCommands : issued[k][e] <= 1

ReplyInv(c) == reply[c] = "SETTLED" => saga[req[c].key].stage = "settled"

SameKey(k) ==
  /\ saga'[k] = saga[k] /\ ledger'[k] = ledger[k] /\ fiat'[k] = fiat[k]
  /\ custody'[k] = custody[k] /\ attested'[k] = attested[k] /\ issued'[k] = issued[k]
  /\ \A e \in Commands : <<k, e>> \in wire' <=> <<k, e>> \in wire

SameCall(c) ==
  phase'[c] = phase[c] /\ op'[c] = op[c] /\ req'[c] = req[c] /\ rec'[c] = rec[c] /\ reply'[c] = reply[c]

\* A step that is about call c and key k alone.
OwnStep(c, k) ==
  /\ req' = req /\ req[c].key = k
  /\ \A d \in Calls \ {c} : SameCall(d)
  /\ \A j \in Keys \ {k} : SameKey(j)

\* What the authorities know of key k.
SameParties(k) ==
  /\ ledger'[k] = ledger[k] /\ fiat'[k] = fiat[k] /\ custody'[k] = custody[k]
  /\ attested'[k] = attested[k] /\ issued'[k] = issued[k]
  /\ \A e \in Commands : <<k, e>> \in wire' <=> <<k, e>> \in wire

-----------------------------------------------------------------------------
(* Framing. *)

\* What is said of a call holds as long as neither it nor its key is touched.
LEMMA CallFrame ==
  ASSUME NEW c \in Calls, SameCall(c), CallInv(c), ReplyInv(c),
         Active(c) => SameKey(req[c].key),
         phase[c] = "done" /\ saga[req[c].key].stage = "settled" => saga'[req[c].key].stage = "settled"
  PROVE  CallInv(c)' /\ ReplyInv(c)'
PROOF
<1>1. ReplyInv(c)'
  BY Zenon DEF SameCall, ReplyInv, CallInv
<1>2. CASE ~Active(c)
  BY <1>1, <1>2, Zenon DEF SameCall, CallInv, Active
<1>3. CASE Active(c)
  <2>1. CallMatchesParties(c) => CallMatchesParties(c)'
    <3>1. /\ PrepareDone(c)' <=> PrepareDone(c)
          /\ FiatDone(c)' <=> FiatDone(c)
          /\ CustodyDone(c)' <=> CustodyDone(c)
      BY Zenon DEF SameCall, PrepareDone, FiatDone, CustodyDone
    <3>2. /\ FinalDone(c)' <=> FinalDone(c)
          /\ CommitDone(c)' <=> CommitDone(c)
          /\ AttestDone(c)' <=> AttestDone(c)
      BY Zenon DEF SameCall, FinalDone, CommitDone, AttestDone
    <3> QED BY <1>3, <3>1, <3>2, ZenonT(40) DEF SameCall, SameKey, CallMatchesParties
  <2> QED BY <1>1, <1>3, <2>1, ZenonT(40) DEF SameCall, SameKey, CallInv, Active, NothingOnWire
<1> QED BY <1>2, <1>3, Zenon

\* IInv is the conjunction of its facts about keys and about calls.
LEMMA IInvParts ==
  IInv <=> /\ TypeOK /\ OneOwner
           /\ \A c \in Calls : CallInv(c) /\ ReplyInv(c)
           /\ \A k \in Keys : KeyInv(k)
BY ZenonT(30) DEF IInv, KeyInv, ReplyInv, SettledMeansAllFacts, HeldMeansNothingMoves,
       LedgerFollowsTheMoney, CommandsIssuedOnce

\* The same after a step.
LEMMA NextParts ==
  ASSUME TypeOK', OneOwner', \A d \in Calls : CallInv(d)' /\ ReplyInv(d)', \A j \in Keys : KeyInv(j)'
  PROVE  IInv'
BY ZenonT(30) DEF IInv, KeyInv, ReplyInv, SettledMeansAllFacts, HeldMeansNothingMoves,
   LedgerFollowsTheMoney, CommandsIssuedOnce

\* What is said of a key holds as long as the key is not touched.
LEMMA KeyFrame ==
  ASSUME NEW k \in Keys, SameKey(k), KeyInv(k)
  PROVE  KeyInv(k)'
BY Zenon DEF SameKey, KeyInv, WireInv, NothingOnWire, Commands, LedgerCommands, MoneyCommands

\* A command for one key leaves the other keys alone.
LEMMA PartyFrame ==
  ASSUME PartiesTypeOK, NEW k \in Keys, NEW j \in Keys \ {k}
  PROVE  /\ \A e : ApplyLedger(k, e) /\ UNCHANGED <<wire, issued>> => SameParties(j)
         /\ \A a : ApplyFiat(k, a) /\ Count(k, "fiat") /\ UNCHANGED wire => SameParties(j)
         /\ \A a : ApplyCustody(k, a) /\ Count(k, "custody") /\ UNCHANGED wire => SameParties(j)
         /\ ApplyAttest(k) /\ UNCHANGED <<wire, issued>> => SameParties(j)
         /\ \A e : Abandon(k, e) => SameParties(j)
         /\ \A e : Land(k, e) => SameParties(j)
         /\ Finalise(k) => SameParties(j)
PROOF
<1> DEFINE Same == /\ ledger'[j] = ledger[j] /\ fiat'[j] = fiat[j]
                   /\ custody'[j] = custody[j] /\ attested'[j] = attested[j]
<1>1. \A e : Count(k, e) => issued'[j] = issued[j]
  BY Zenon DEF Count, PartiesTypeOK
<1>2. \A e : ApplyLedger(k, e) => Same
  BY Zenon DEF ApplyLedger, PartiesTypeOK
<1>3. \A a : ApplyFiat(k, a) => Same
  BY Zenon DEF ApplyFiat, PartiesTypeOK
<1>4. \A a : ApplyCustody(k, a) => Same
  BY Zenon DEF ApplyCustody, PartiesTypeOK
<1>5. ApplyAttest(k) => Same
  BY Zenon DEF ApplyAttest, PartiesTypeOK
<1>8. Finalise(k) => SameParties(j)
  BY Zenon DEF Finalise, SameParties, PartiesTypeOK
<1>6. \A e : Abandon(k, e) => SameParties(j)
  BY <1>1, Zenon DEF Abandon, SameParties
<1> HIDE DEF Same
<1>7. \A e : Land(k, e) => Same /\ issued' = issued /\ wire' = wire \ {<<k, e>>}
  BY <1>2, <1>3, <1>4, <1>5, Zenon DEF Land
<1>9. Same /\ issued'[j] = issued[j] /\ (wire' = wire \/ \E e : wire' = wire \ {<<k, e>>}) => SameParties(j)
  BY Zenon DEF Same, SameParties
<1>10. /\ \A e : ApplyLedger(k, e) /\ UNCHANGED <<wire, issued>> => SameParties(j)
       /\ \A a : ApplyFiat(k, a) /\ Count(k, "fiat") /\ UNCHANGED wire => SameParties(j)
  BY <1>1, <1>2, <1>3, <1>9, Zenon
<1>11. /\ \A a : ApplyCustody(k, a) /\ Count(k, "custody") /\ UNCHANGED wire => SameParties(j)
       /\ ApplyAttest(k) /\ UNCHANGED <<wire, issued>> => SameParties(j)
  BY <1>1, <1>4, <1>5, <1>9, Zenon
<1>12. \A e : Land(k, e) => SameParties(j)
  BY <1>7, <1>9, Zenon
<1> QED BY <1>6, <1>8, <1>10, <1>11, <1>12, Zenon

-----------------------------------------------------------------------------
(* Type correctness. *)

\* The values that the table-like operators take.
LEMMA TableTypes ==
  /\ StageOf \in [Ops -> Stages]
  /\ UpdateOf \in [Ops -> SUBSET References]
  /\ \A d, o : NextOp(d, o) \in Ops
  /\ EmptyRecord \in Records
  /\ \A r \in Requests : ReservedRecord(r) \in Records
PROOF
<1>1. StageOf \in [Ops -> Stages]
  BY Zenon DEF StageOf, Ops, Stages, TerminalStages
<1>2. UpdateOf \in [Ops -> SUBSET References]
  BY Zenon DEF UpdateOf, Ops, References
<1>3. \A d, o : NextOp(d, o) \in Ops
  BY Zenon DEF NextOp, Ops
<1>4. EmptyRecord \in Records /\ \A r \in Requests : ReservedRecord(r) \in Records
  BY Zenon DEF EmptyRecord, ReservedRecord, Records, Stages
<1> QED BY <1>1, <1>2, <1>3, <1>4, Zenon

\* One step of a call at its own phase keeps the call's variables well typed.
LEMMA GotoType ==
  ASSUME TypeOK, NEW c \in Calls, NEW p \in Phases, Goto(c, p), phase[c] # "idle", req' = req
  PROVE  /\ phase' \in [Calls -> Phases]
         /\ \A d \in Calls : phase'[d] # "idle" => req'[d] \in Requests
BY Zenon DEF TypeOK, Goto

\* Applying or abandoning a command keeps the authorities well typed.
LEMMA PartyTypes ==
  ASSUME PartiesTypeOK, NEW k \in Keys
  PROVE  /\ \A e \in LedgerCommands : ApplyLedger(k, e) /\ UNCHANGED <<wire, issued>> => PartiesTypeOK'
         /\ \A a \in {"settled", "rejected"} :
              ApplyFiat(k, a) /\ Count(k, "fiat") /\ UNCHANGED wire => PartiesTypeOK'
         /\ ApplyCustody(k, "submitted") /\ Count(k, "custody") /\ UNCHANGED wire => PartiesTypeOK'
         /\ ApplyAttest(k) /\ UNCHANGED <<wire, issued>> => PartiesTypeOK'
         /\ \A e \in Commands : Abandon(k, e) => PartiesTypeOK'
         /\ \A e \in Commands : Land(k, e) => PartiesTypeOK'
         /\ Finalise(k) => PartiesTypeOK'
PROOF
<1> USE DEF PartiesTypeOK, LedgerCommands, MoneyCommands, Commands
<1>0. \A s \in {"none", "pending", "posted", "voided"}, e \in LedgerCommands :
        LedgerAfter(s, e) \in {"none", "pending", "posted", "voided"}
  BY Zenon DEF LedgerAfter
<1>1. \A e \in Commands : Count(k, e) => issued' \in [Keys -> [MoneyCommands -> Nat]]
  BY SMTT(20) DEF Count
<1>2. ASSUME NEW e \in LedgerCommands, ApplyLedger(k, e)
      PROVE  ledger' \in [Keys -> {"none", "pending", "posted", "voided"}]
  BY <1>0, <1>2, Zenon DEF ApplyLedger
<1>3. ASSUME NEW a \in {"settled", "rejected"}, ApplyFiat(k, a)
      PROVE  fiat' \in [Keys -> {"none", "settled", "rejected"}]
  BY <1>3, Zenon DEF ApplyFiat
<1>4. ASSUME NEW a \in {"submitted", "rejected"}, ApplyCustody(k, a)
      PROVE  custody' \in [Keys -> {"none", "submitted", "final", "rejected"}]
  BY <1>4, Zenon DEF ApplyCustody
<1>5. ASSUME ApplyAttest(k)
      PROVE  attested' \in [Keys -> BOOLEAN]
  BY <1>5, Zenon DEF ApplyAttest
<1>6. ASSUME NEW e \in Commands, Abandon(k, e)
      PROVE  PartiesTypeOK'
  BY <1>1, <1>6, SMTT(20) DEF Abandon
<1>7. ASSUME NEW e \in Commands, Land(k, e)
      PROVE  PartiesTypeOK'
  <2>1. wire' \subseteq Keys \X Commands /\ issued' \in [Keys -> [MoneyCommands -> Nat]]
    BY <1>7, Zenon DEF Land
  <2>2. CASE e \in LedgerCommands /\ ApplyLedger(k, e)
    BY ZenonT(30), <2>1, <2>2, <1>2 DEF ApplyLedger
  <2>3. CASE e = "fiat" /\ \E a \in {"settled", "rejected"} : ApplyFiat(k, a)
    BY <2>1, <2>3, <1>3, Zenon DEF ApplyFiat
  <2>4. CASE e = "custody" /\ \E a \in {"submitted", "rejected"} : ApplyCustody(k, a)
    BY <2>1, <2>4, <1>4, Zenon DEF ApplyCustody
  <2>5. CASE e = "attest" /\ ApplyAttest(k)
    BY <2>1, <2>5, <1>5, Zenon DEF ApplyAttest
  <2> QED BY <1>7, <2>2, <2>3, <2>4, <2>5, Zenon DEF Land
<1>8. Finalise(k) => PartiesTypeOK'
  BY Zenon DEF Finalise
<1>9. \A e \in LedgerCommands : ApplyLedger(k, e) /\ UNCHANGED <<wire, issued>> => PartiesTypeOK'
  BY ZenonT(30), <1>2 DEF ApplyLedger
<1>10. \A a \in {"settled", "rejected"} :
         ApplyFiat(k, a) /\ Count(k, "fiat") /\ UNCHANGED wire => PartiesTypeOK'
  BY <1>1, <1>3, Zenon DEF ApplyFiat
<1>11. ApplyCustody(k, "submitted") /\ Count(k, "custody") /\ UNCHANGED wire => PartiesTypeOK'
  BY <1>1, <1>4, Zenon DEF ApplyCustody
<1>12. ApplyAttest(k) /\ UNCHANGED <<wire, issued>> => PartiesTypeOK'
  BY <1>5, Zenon DEF ApplyAttest
<1> QED BY <1>6, <1>7, <1>8, <1>9, <1>10, <1>11, <1>12, Zenon

\* What a step leaves alone stays well typed.
LEMMA UnchangedTypes ==
  /\ StoreTypeOK /\ UNCHANGED storeVars => StoreTypeOK'
  /\ PartiesTypeOK /\ UNCHANGED partyVars => PartiesTypeOK'
BY Zenon DEF StoreTypeOK, PartiesTypeOK, storeVars, partyVars

\* Asking an authority moves the call to another phase and keeps the rest of
\* its variables.
LEMMA CallGoesToType ==
  ASSUME TypeOK, NEW c \in Calls, NEW o \in Ops, NEW p \in Phases, CallGoesTo(c, o, p), PartiesTypeOK'
  PROVE  TypeOK' /\ req[c].key \in Keys
PROOF
<1>1. phase[c] # "idle" /\ req' = req /\ Goto(c, p)
  BY Zenon DEF CallGoesTo
<1>2. StoreTypeOK'
  BY UnchangedTypes, Zenon DEF TypeOK, CallGoesTo
<1> QED BY <1>1, <1>2, GotoType, RequestsAssumption, Zenon DEF TypeOK, CallGoesTo

\* Persisting a stage keeps the store and the fault counter well typed.
LEMMA PersistType ==
  ASSUME TypeOK, NEW c \in Calls, phase[c] # "idle", NEW next \in Stages,
         NEW refs \in SUBSET References
  PROVE  /\ Persist(c, next, refs) => StoreTypeOK' /\ saga'[req[c].key] \in Records
         /\ PersistFails(c, next, refs) => StoreTypeOK' /\ faults' \in 0 .. MaxFaults
PROOF
<1> DEFINE k == req[c].key
<1>1. k \in Keys
  BY RequestsAssumption, Zenon DEF TypeOK
<1>2. recordWithUpdate(saga[k], next, refs) \in Records
  BY <1>1, UpdateType, Zenon DEF TypeOK, StoreTypeOK
<1>3. recordWithUpdate(saga[k], next, refs).stage \in Stages
  BY Zenon DEF recordWithUpdate
<1>4. Persist(c, next, refs) => StoreTypeOK'
  BY <1>1, <1>2, <1>3, WriteRowType, Zenon DEF TypeOK, Persist
<1>5. Fault => faults' \in 0 .. MaxFaults
  BY CoordinatorAssumption, SMTT(20) DEF Fault, TypeOK
<1>6. PersistFails(c, next, refs) => StoreTypeOK' /\ faults' \in 0 .. MaxFaults
  BY <1>4, <1>5, UnchangedTypes, Zenon DEF PersistFails, TypeOK
<1> QED BY <1>1, <1>4, <1>6, Zenon DEF StoreTypeOK

\* The type invariant is inductive.
LEMMA TypeStep == TypeOK /\ [Next]_vars => TypeOK'
PROOF
<1> SUFFICES ASSUME TypeOK, [Next]_vars
             PROVE  TypeOK'
  OBVIOUS
<1> USE DEF Phases, Replies
<1>1. ASSUME NEW c \in Calls, NEW r \in Requests, Submit(c, r)
      PROVE  TypeOK'
  BY <1>1, UnchangedTypes, Zenon DEF Submit, Goto, TypeOK
<1>2. ASSUME NEW c \in Calls, Crash(c)
      PROVE  TypeOK'
  BY <1>2, UnchangedTypes, GotoType, Zenon DEF Crash, TypeOK
<1>3. ASSUME NEW c \in Calls, Reserve(c)
      PROVE  TypeOK'
  <2>1. phase[c] = "reserve" /\ req' = req /\ op' = op /\ PartiesTypeOK'
    BY <1>3, UnchangedTypes, Zenon DEF Reserve, ReserveOwned, ReserveExisting, ReserveFails, TypeOK
  <2>2. req[c] \in Requests /\ req[c].key \in Keys
    BY <2>1, RequestsAssumption, Zenon DEF TypeOK
  <2>3. Fault => faults' \in 0 .. MaxFaults
    BY CoordinatorAssumption, SMTT(20) DEF Fault, TypeOK
  <2>4. \A s \in Replies : Return(c, s) => Goto(c, "done") /\ reply' \in [Calls -> Replies]
    BY Zenon DEF Return, TypeOK
  <2>5. CASE ReserveOwned(c)
    <3>1. StoreTypeOK'
      <4>1. ReservedRecord(req[c]) \in Records /\ ReservedRecord(req[c]).stage \in Stages
        BY <2>2, TableTypes, Zenon DEF ReservedRecord, Stages
      <4> QED BY <2>2, <2>5, <4>1, WriteRowType, Zenon DEF ReserveOwned, TypeOK
    <3>2. rec' \in [Calls -> Records] /\ faults' \in 0 .. MaxFaults /\ reply' \in [Calls -> Replies]
      BY <2>2, <2>3, <2>4, <2>5, TableTypes, Zenon DEF ReserveOwned, TypeOK
    <3>3. Goto(c, "call") \/ Goto(c, "done")
      BY <2>5, Zenon DEF ReserveOwned, Return
    <3> QED BY <2>1, <3>1, <3>2, <3>3, GotoType, Zenon DEF TypeOK
  <2>6. CASE ReserveExisting(c)
    <3>1. resultFromRecord(saga[req[c].key]) \in Replies
      BY Zenon DEF resultFromRecord
    <3>2. Goto(c, "done") /\ reply' \in [Calls -> Replies]
      BY <2>4, <2>6, <3>1, Zenon DEF ReserveExisting
    <3> QED BY <2>1, <2>6, <3>2, GotoType, UnchangedTypes, Zenon DEF ReserveExisting, TypeOK
  <2>7. CASE ReserveFails(c)
    <3>1. Goto(c, "done") /\ reply' \in [Calls -> Replies]
      BY <2>4, <2>7, Zenon DEF ReserveFails
    <3> QED BY <2>1, <2>3, <2>7, <3>1, GotoType, UnchangedTypes, Zenon DEF ReserveFails, TypeOK
  <2> QED BY <1>3, <2>5, <2>6, <2>7, Zenon DEF Reserve
<1>4. ASSUME NEW c \in Calls, Call(c)
      PROVE  TypeOK'
  <2>1. PICK o \in Ops, p \in Phases : CallGoesTo(c, o, p)
    BY <1>4, Zenon DEF Call, CallCheck, CallLedger, CallFiat, CallFiatNoEffect, CallCustody,
                CallFinality, CallAttest, CallReconcile, CallAmbiguous, Ops
  <2>2. req[c].key \in Keys
    BY <2>1, RequestsAssumption, Zenon DEF CallGoesTo, TypeOK
  <2>3. PartiesTypeOK'
    <3>1. \A e \in {"prepare", "collect", "custody", "payout", "commit", "attest"} : CommandOf(e) \in Commands
      BY Zenon DEF CommandOf, Commands, LedgerCommands, MoneyCommands
    <3>2. {"prepare", "commit"} \subseteq LedgerCommands /\ PartiesTypeOK
      BY Zenon DEF LedgerCommands, TypeOK
    <3> QED BY <1>4, <2>2, <3>1, <3>2, PartyTypes, UnchangedTypes, Zenon
            DEF Call, CallCheck, CallLedger, CallFiat, CallFiatNoEffect, CallCustody,
                CallFinality, CallAttest, CallReconcile, CallAmbiguous
  <2> QED BY <2>1, <2>3, CallGoesToType, Zenon
<1>5. ASSUME NEW c \in Calls, VoidPending(c)
      PROVE  TypeOK'
  <2>1. phase[c] # "idle" /\ req' = req /\ req[c].key \in Keys
    BY <1>5, RequestsAssumption, Zenon DEF VoidPending, TypeOK
  <2>2. PartiesTypeOK' /\ (Goto(c, "hold") \/ Goto(c, "unknown"))
    BY <1>5, <2>1, PartyTypes, Zenon DEF VoidPending, TypeOK, LedgerCommands, Commands
  <2> QED BY <1>5, <2>1, <2>2, GotoType, UnchangedTypes, Zenon DEF VoidPending, TypeOK

<1>6. ASSUME NEW c \in Calls, AdvanceOk(c) \/ AdvanceFails(c)
      PROVE  TypeOK'
  <2>1. phase[c] # "idle" /\ req' = req /\ PartiesTypeOK'
    BY <1>6, UnchangedTypes, Zenon DEF AdvanceOk, AdvanceFails, TypeOK
  <2>2. StageOf[op[c]] \in Stages /\ UpdateOf[op[c]] \in SUBSET References
    BY TableTypes, Zenon DEF TypeOK
  <2>3. StoreTypeOK' /\ faults' \in 0 .. MaxFaults /\ rec' \in [Calls -> Records]
    <3>1. CASE AdvanceOk(c)
      BY <3>1, <2>1, <2>2, PersistType, TableTypes, Zenon DEF AdvanceOk, TypeOK
    <3>2. CASE AdvanceFails(c)
      BY <3>2, <2>1, <2>2, PersistType, TableTypes, Zenon DEF AdvanceFails, TypeOK
    <3> QED BY <1>6, <3>1, <3>2, Zenon
  <2>4. op' \in [Calls -> Ops] /\ reply' \in [Calls -> Replies]
    <3>1. op \in [Calls -> Ops] /\ reply \in [Calls -> Replies] /\ "SETTLED" \in Replies
      BY Zenon DEF TypeOK, Replies
    <3>2. CASE AdvanceOk(c)
      BY <3>1, <3>2, TableTypes, Zenon DEF AdvanceOk, Return
    <3>3. CASE AdvanceFails(c)
      BY <3>1, <3>3, Zenon DEF AdvanceFails
    <3> QED BY <1>6, <3>2, <3>3, Zenon
  <2>5. Goto(c, "done") \/ Goto(c, "call") \/ Goto(c, "unknown")
    BY <1>6, Zenon DEF AdvanceOk, AdvanceFails, Return
  <2> QED BY <2>1, <2>3, <2>4, <2>5, GotoType, Zenon DEF TypeOK
<1>7. ASSUME NEW c \in Calls, MarkHeld(c) \/ MarkUnknown(c)
      PROVE  TypeOK'
  <2>1. phase[c] # "idle" /\ req' = req /\ PartiesTypeOK' /\ {"held", "unknown"} \subseteq Stages
    BY <1>7, UnchangedTypes, Zenon DEF MarkHeld, MarkUnknown, TypeOK, Stages, TerminalStages
  <2>2. StoreTypeOK' /\ faults' \in 0 .. MaxFaults
    BY <1>7, <2>1, PersistType, Zenon DEF MarkHeld, MarkUnknown, TypeOK
  <2>3. (Goto(c, "done") \/ Goto(c, "unknown")) /\ reply' \in [Calls -> Replies]
    BY <1>7, Zenon DEF MarkHeld, MarkUnknown, Return, TypeOK
  <2> QED BY <1>7, <2>1, <2>2, <2>3, GotoType, Zenon DEF MarkHeld, MarkUnknown, TypeOK
<1>9. CASE Environment
  BY <1>9, PartyTypes, UnchangedTypes, Zenon DEF Environment, PartiesNext, callVars, TypeOK
<1>10. CASE UNCHANGED vars
  BY <1>10, UnchangedTypes, Zenon DEF vars, callVars, TypeOK
<1> QED BY <1>1, <1>2, <1>3, <1>4, <1>5, <1>6, <1>7, <1>9, <1>10, Zenon DEF Next, Step

\* The initial state is well typed.
LEMMA InitType == Init => TypeOK
PROOF
<1>1. StoreInit => StoreTypeOK
  BY TableTypes, Zenon DEF StoreInit, StoreTypeOK
<1>2. PartiesInit => PartiesTypeOK
  BY SMTT(20) DEF PartiesInit, PartiesTypeOK
<1>3. 0 \in 0 .. MaxFaults
  BY CoordinatorAssumption, SMTT(20)
<1> QED BY <1>1, <1>2, <1>3, TableTypes, SMTT(20) DEF Init, TypeOK, Phases, Ops, Replies

\* Every variable of the coordinator, the store and the authorities keeps its
\* type, for any number of keys, calls and store faults.
THEOREM TypeCorrect == Spec => []TypeOK
BY InitType, TypeStep, PTL DEF Spec

-----------------------------------------------------------------------------
(* One step. *)

\* A step of call c leaves the phase of every other call alone.
LEMMA GotoFrame ==
  ASSUME TypeOK, NEW c \in Calls, NEW p, Goto(c, p)
  PROVE  phase'[c] = p /\ \A d \in Calls \ {c} : phase'[d] = phase[d]
BY Zenon DEF TypeOK, Goto

\* A call that was submitted is about one of the keys.
LEMMA RunningKey ==
  ASSUME TypeOK, NEW c \in Calls, phase[c] # "idle"
  PROVE  req[c].key \in Keys
BY RequestsAssumption, Zenon DEF TypeOK

\* A step of call c touches only c and its key k, which no other running call
\* has; it remains to look at c and k.
LEMMA StepLemma ==
  ASSUME IInv, TypeOK', NEW c \in Calls, NEW k \in Keys, OwnStep(c, k),
         Active(c) \/ saga[k].version = 0 \/ (SameKey(k) /\ ~Active(c)'),
         saga[k].stage = "settled" => saga'[k].stage = "settled",
         CallInv(c)', ReplyInv(c)', KeyInv(k)'
  PROVE  IInv'
PROOF
<1>1. OneOwner /\ \A d \in Calls : CallInv(d) /\ ReplyInv(d)
  BY IInvParts, Zenon
<1>2. \A j \in Keys : KeyInv(j)'
  <2>1. ASSUME NEW j \in Keys \ {k} PROVE KeyInv(j)'
    <3>1. SameKey(j)
      BY Zenon DEF OwnStep
    <3> QED BY <3>1, IInvParts, KeyFrame, Zenon
  <2> QED BY <2>1, Zenon
<1>3. \A d \in Calls : phase[d] # "idle" => req[d].key \in Keys
  BY RunningKey, Zenon DEF IInv
<1>4. ASSUME NEW d \in Calls \ {c}, Active(d)
      PROVE  req[d].key # k \/ (SameKey(k) /\ ~Active(c)')
  <2>1. saga[req[d].key].version > 0
    BY <1>1, <1>4, Zenon DEF CallInv
  <2>2. Active(c) => req[d].key # k
    BY <1>1, <1>4, Zenon DEF OneOwner, OwnStep
  <2> QED BY <2>1, <2>2, SMTT(20)
<1>5. ASSUME NEW d \in Calls \ {c}
      PROVE  CallInv(d)' /\ ReplyInv(d)'
  <2>1. Active(d) => SameKey(req[d].key)
    <3>1. Active(d) => req[d].key \in Keys
      BY <1>3, Zenon DEF Active
    <3> QED BY <1>4, <3>1, Zenon DEF OwnStep
  <2>2. phase[d] = "done" /\ saga[req[d].key].stage = "settled" => saga'[req[d].key].stage = "settled"
    <3>1. phase[d] = "done" => req[d].key \in Keys
      BY <1>3, Zenon
    <3> QED BY <3>1, Zenon DEF OwnStep, SameKey
  <2>3. SameCall(d)
    BY Zenon DEF OwnStep
  <2> QED BY <1>1, <2>1, <2>2, <2>3, CallFrame, Zenon
<1>6. OneOwner'
  <2> SUFFICES ASSUME NEW a \in Calls, NEW b \in Calls, Active(a)', Active(b)',
                      req'[a].key = req'[b].key, a # b
               PROVE  FALSE
    BY Zenon DEF OneOwner
  <2>1. \A d \in Calls \ {c} : Active(d)' => Active(d)
    BY Zenon DEF OwnStep, SameCall, Active
  <2>2. req' = req /\ req[c].key = k
    BY Zenon DEF OwnStep
  <2>3. CASE a # c /\ b # c
    BY <1>1, <2>1, <2>2, <2>3, Zenon DEF OneOwner
  <2>4. CASE a = c
    BY <1>4, <2>1, <2>2, <2>4, Zenon
  <2>5. CASE b = c
    BY <1>4, <2>1, <2>2, <2>5, Zenon
  <2> QED BY <2>3, <2>4, <2>5, Zenon
<1>7. \A d \in Calls : CallInv(d)' /\ ReplyInv(d)'
  BY <1>5, Zenon
<1> QED BY <1>2, <1>6, <1>7, NextParts, Zenon

-----------------------------------------------------------------------------
(* What happens by itself. *)

\* However late an abandoned command lands or a transfer becomes final, the
\* facts about its key remain.
LEMMA PartyStepKey ==
  ASSUME NEW k \in Keys, PartiesTypeOK, KeyInv(k), UNCHANGED saga,
         Finalise(k) \/ \E command \in Commands : Land(k, command)
  PROVE  KeyInv(k)'
PROOF
<1>1. CASE Finalise(k)
  <2>1. /\ custody[k] = "submitted" /\ custody'[k] = "final"
        /\ UNCHANGED <<ledger, fiat, attested, wire, issued>>
    BY <1>1, Zenon DEF Finalise, PartiesTypeOK
  <2> QED BY <2>1, Zenon DEF KeyInv, WireInv, NothingOnWire
<1>2. ASSUME NEW command \in Commands, Land(k, command)
      PROVE  KeyInv(k)'
  <2>1. /\ <<k, command>> \in wire /\ issued' = issued /\ saga[k].version # 0
        /\ \A e \in Commands : <<k, e>> \in wire' <=> <<k, e>> \in wire /\ e # command
    BY <1>2, Zenon DEF Land, KeyInv, WireInv, NothingOnWire
  <2>2. CASE command \in LedgerCommands /\ ApplyLedger(k, command)
    <3>1. ledger'[k] = LedgerAfter(ledger[k], command) /\ UNCHANGED <<fiat, custody, attested>>
      BY <2>2, Zenon DEF ApplyLedger, PartiesTypeOK
    <3>2. ledger[k] \in {"none", "pending", "posted", "voided"}
      BY Zenon DEF PartiesTypeOK
    <3> QED BY <2>1, <2>2, <3>1, <3>2, Zenon DEF LedgerAfter, KeyInv, WireInv, NothingOnWire, Commands,
               LedgerCommands, MoneyCommands
  <2>3. CASE command = "fiat" /\ \E answer \in {"settled", "rejected"} : ApplyFiat(k, answer)
    <3>1. /\ fiat[k] # "none" => fiat'[k] = fiat[k]
          /\ UNCHANGED <<ledger, custody, attested>>
      BY <2>3, Zenon DEF ApplyFiat, PartiesTypeOK
    <3>2. fiat[k] = "none" => ledger[k] \notin {"posted", "voided"} /\ saga[k].stage \notin {"settled", "held"}
      BY <2>1, <2>3, Zenon DEF KeyInv, WireInv
    <3> QED BY <2>1, <2>3, <3>1, <3>2, Zenon DEF KeyInv, WireInv, NothingOnWire, Commands, LedgerCommands,
               MoneyCommands
  <2>4. CASE command = "custody" /\ \E answer \in {"submitted", "rejected"} : ApplyCustody(k, answer)
    <3>1. /\ custody[k] # "none" => custody'[k] = custody[k]
          /\ UNCHANGED <<ledger, fiat, attested>>
      BY <2>4, Zenon DEF ApplyCustody, PartiesTypeOK
    <3>2. custody[k] = "none" => /\ ledger[k] \notin {"posted", "voided"} /\ saga[k].stage \notin {"settled", "held"}
                                 /\ <<k, "void">> \notin wire
      BY <2>1, <2>4, Zenon DEF KeyInv, WireInv
    <3> QED BY <2>1, <2>4, <3>1, <3>2, Zenon DEF KeyInv, WireInv, NothingOnWire, Commands, LedgerCommands,
               MoneyCommands
  <2>5. CASE command = "attest" /\ ApplyAttest(k)
    <3>1. attested'[k] = TRUE /\ UNCHANGED <<ledger, fiat, custody>>
      BY <2>5, Zenon DEF ApplyAttest, PartiesTypeOK
    <3> QED BY <2>1, <2>5, <3>1, Zenon DEF KeyInv, WireInv, NothingOnWire, Commands, LedgerCommands,
               MoneyCommands
  <2> QED BY <1>2, <2>2, <2>3, <2>4, <2>5, Zenon DEF Land
<1> QED BY <1>1, <1>2, Zenon

\* Finality confirms what a running call relies on.
LEMMA FinalityConfirms ==
  ASSUME NEW c \in Calls, NEW k \in Keys, req[c].key = k, PartiesTypeOK, CallInv(c), Finalise(k),
         UNCHANGED <<saga, phase, op, req, rec, reply>>
  PROVE  CallInv(c)'
PROOF
<1>1. /\ custody[k] = "submitted" /\ custody'[k] = "final"
      /\ UNCHANGED <<ledger, fiat, attested, wire, issued>>
  BY Zenon DEF Finalise, PartiesTypeOK
<1>2. CallMatchesParties(c) => CallMatchesParties(c)'
  BY <1>1, Zenon DEF CallMatchesParties, PrepareDone, FiatDone, CustodyDone, FinalDone, CommitDone, AttestDone
<1> QED BY <1>1, <1>2, Zenon DEF CallInv, Active, NothingOnWire

\* A command lands on the key of a running call only when the call has given up.
LEMMA LandingFindsNobody ==
  ASSUME NEW c \in Calls, NEW k \in Keys, req[c].key = k, CallInv(c), Active(c),
         \E command \in Commands : Land(k, command),
         UNCHANGED <<saga, phase, op, req, rec, reply>>
  PROVE  CallInv(c)'
PROOF
<1>1. ~NothingOnWire(k)
  BY Zenon DEF Land, NothingOnWire
<1>2. phase[c] = "unknown" /\ saga[k].version > 0
  BY <1>1, Zenon DEF CallInv
<1> QED BY <1>2, Zenon DEF CallInv, Active

\* What happens by itself keeps the invariant: a command can land only on a key
\* whose call has given up, and finality only confirms what a call relies on.
LEMMA EnvironmentKeepsInv ==
  ASSUME IInv, TypeOK', Environment
  PROVE  IInv'
PROOF
<1>1. PICK k \in Keys : Finalise(k) \/ \E command \in Commands : Land(k, command)
  BY Zenon DEF Environment, PartiesNext
<1>2. UNCHANGED <<saga, phase, op, req, rec, reply>>
  BY Zenon DEF Environment, storeVars, callVars
<1>3. TypeOK /\ OneOwner /\ (\A d \in Calls : CallInv(d) /\ ReplyInv(d)) /\ \A j \in Keys : KeyInv(j)
  BY IInvParts, Zenon
<1>a. PartiesTypeOK
  BY <1>3, Zenon DEF TypeOK
<1>4. \A j \in Keys \ {k} : SameKey(j)
  <2>1. \A j \in Keys \ {k} : SameParties(j)
    BY <1>1, <1>a, PartyFrame, Zenon
  <2> QED BY <1>2, <2>1, Zenon DEF SameParties, SameKey
<1>5. \A j \in Keys : KeyInv(j)'
  <2>1. KeyInv(k)'
    BY <1>1, <1>2, <1>3, <1>a, PartyStepKey, Zenon
  <2> QED BY <1>3, <1>4, <2>1, KeyFrame, Zenon
<1>6. \A c \in Calls : SameCall(c)
  BY <1>2, Zenon DEF SameCall
<1>7. ASSUME NEW c \in Calls PROVE CallInv(c)' /\ ReplyInv(c)'
  <2>1. ReplyInv(c)'
    BY <1>2, <1>3, Zenon DEF ReplyInv
  <2>2. CASE ~Active(c) \/ req[c].key # k
    <3>1. Active(c) => SameKey(req[c].key)
      BY <1>3, <1>4, <2>2, RunningKey, Zenon DEF Active
    <3> QED BY <1>2, <1>3, <1>6, <3>1, CallFrame, Zenon
  <2>3. CASE Active(c) /\ req[c].key = k /\ Finalise(k)
    BY <1>2, <1>3, <1>a, <2>1, <2>3, FinalityConfirms, Zenon
  <2>4. CASE Active(c) /\ req[c].key = k /\ \E command \in Commands : Land(k, command)
    BY <1>2, <1>3, <2>1, <2>4, LandingFindsNobody, Zenon
  <2> QED BY <1>1, <2>2, <2>3, <2>4, Zenon
<1>8. OneOwner'
  BY <1>2, <1>3, Zenon DEF OneOwner, Active
<1> QED BY <1>5, <1>7, <1>8, NextParts, Zenon

-----------------------------------------------------------------------------
(* Submitting an intent, stopping, voiding. *)

\* Voiding after a proven absence of effect keeps the invariant.
LEMMA VoidKeepsInv ==
  ASSUME IInv, TypeOK', NEW c \in Calls, VoidPending(c)
  PROVE  IInv'
PROOF
<1>1. phase[c] = "void" /\ UNCHANGED <<saga, op, req, rec, reply>>
  BY Zenon DEF VoidPending, storeVars
<1>2. PICK k \in Keys : req[c].key = k
  BY <1>1, RunningKey, Zenon DEF IInv
<1>3. CallInv(c) /\ KeyInv(k) /\ PartiesTypeOK
  BY IInvParts, Zenon DEF TypeOK
<1>4. /\ Active(c) /\ saga[k].version > 0 /\ rec[c] = saga[k] /\ saga[k].stage \notin TerminalStages
      /\ NothingOnWire(k) /\ ledger[k] = "pending" /\ fiat[k] = "rejected" /\ custody[k] = "none"
      /\ reply[c] = "none"
  BY <1>1, <1>2, <1>3, Zenon DEF CallInv, Active, terminalStage
<1>5. PICK p \in {"hold", "unknown"} :
        /\ Goto(c, p)
        /\ p = "hold" => ApplyLedger(k, "void") /\ UNCHANGED <<wire, issued>>
        /\ p = "unknown" => Abandon(k, "void")
  BY <1>2, Zenon DEF VoidPending
<1>6. phase'[c] = p /\ \A d \in Calls \ {c} : SameCall(d)
  BY <1>1, <1>5, GotoFrame, Zenon DEF IInv, SameCall
<1>7. \A j \in Keys \ {k} : SameParties(j)
  BY <1>3, <1>5, PartyFrame, Zenon
<1>8. OwnStep(c, k)
  BY <1>1, <1>2, <1>6, <1>7, Zenon DEF OwnStep, SameKey, SameParties
<1>9. ReplyInv(c)'
  BY <1>1, <1>4, Zenon DEF ReplyInv
<1>10. /\ UNCHANGED <<fiat, custody, issued>>
       /\ p = "hold" => ledger'[k] = "voided" /\ wire' = wire
       /\ p = "unknown" => ledger' = ledger /\ wire' = wire \cup {<<k, "void">>}
  BY <1>3, <1>4, <1>5, Zenon DEF ApplyLedger, LedgerAfter, PartiesTypeOK, Abandon, Count, MoneyCommands
<1>11. CallInv(c)'
  BY <1>1, <1>2, <1>4, <1>6, <1>10, Zenon DEF CallInv, Active, terminalStage, NothingOnWire
<1>12. KeyInv(k)'
  <2>1. /\ <<k, "commit">> \notin wire' /\ <<k, "custody">> \notin wire'
    BY <1>4, <1>10, Zenon DEF NothingOnWire, Commands, LedgerCommands, MoneyCommands
  <2>2. WireInv(k)'
    BY <1>1, <1>4, <1>10, <2>1, SMTT(20) DEF WireInv
  <2>3. \A e \in MoneyCommands : issued'[k][e] <= 1
    BY <1>3, <1>10, Zenon DEF KeyInv
  <2> QED BY <1>1, <1>4, <1>10, <2>2, <2>3, Zenon DEF KeyInv, TerminalStages
<1> QED BY <1>4, <1>8, <1>9, <1>11, <1>12, StepLemma, Zenon DEF TerminalStages

\* Submitting an intent keeps the invariant.
LEMMA SubmitKeepsInv ==
  ASSUME IInv, TypeOK', NEW c \in Calls, NEW r \in Requests, Submit(c, r)
  PROVE  IInv'
PROOF
<1>1. /\ phase[c] = "idle" /\ UNCHANGED <<saga, op, rec, reply>> /\ UNCHANGED partyVars
      /\ Goto(c, "reserve")
  BY Zenon DEF Submit, storeVars
<1>2. OneOwner /\ \A d \in Calls : CallInv(d) /\ ReplyInv(d)
  BY IInvParts, Zenon
<1>3. phase'[c] = "reserve" /\ \A d \in Calls \ {c} : phase'[d] = phase[d]
  BY <1>1, GotoFrame, Zenon DEF IInv
<1>4. \A d \in Calls \ {c} : SameCall(d)
  BY <1>1, <1>3, Zenon DEF Submit, SameCall, IInv, TypeOK
<1>5. \A k : SameKey(k)
  BY <1>1, Zenon DEF SameKey, partyVars
<1>6. \A k \in Keys : KeyInv(k)'
  BY <1>5, IInvParts, KeyFrame, Zenon
<1>7. CallInv(c)' /\ ReplyInv(c)' /\ ~Active(c)'
  BY <1>1, <1>2, <1>3, Zenon DEF CallInv, ReplyInv, Active
<1>8. ASSUME NEW d \in Calls \ {c} PROVE CallInv(d)' /\ ReplyInv(d)'
  <2>1. saga[req[d].key].stage = "settled" => saga'[req[d].key].stage = "settled"
    BY <1>1, Zenon
  <2> QED BY <1>2, <1>4, <1>5, <2>1, CallFrame, Zenon
<1>9. OneOwner'
  <2>1. \A d \in Calls : Active(d)' => d # c /\ Active(d) /\ req'[d].key = req[d].key
    BY <1>4, <1>7, Zenon DEF SameCall, Active
  <2> QED BY <1>2, <2>1, Zenon DEF OneOwner
<1> QED BY <1>6, <1>7, <1>8, <1>9, NextParts, Zenon

\* A process that stops keeps the invariant.
LEMMA CrashKeepsInv ==
  ASSUME IInv, TypeOK', NEW c \in Calls, Crash(c)
  PROVE  IInv'
PROOF
<1>1. /\ phase[c] \notin {"idle", "done"} /\ UNCHANGED <<saga, op, req, rec, reply>>
      /\ UNCHANGED partyVars /\ Goto(c, "done")
  BY Zenon DEF Crash, storeVars
<1>2. PICK k \in Keys : req[c].key = k
  BY <1>1, RunningKey, Zenon DEF IInv
<1>3. phase'[c] = "done" /\ \A d \in Calls \ {c} : SameCall(d)
  BY <1>1, GotoFrame, Zenon DEF IInv, SameCall
<1>4. reply[c] = "none"
  BY <1>1, IInvParts, Zenon DEF CallInv
<1>5. \A j \in Keys : SameKey(j)
  BY <1>1, Zenon DEF SameKey, partyVars
<1>6. OwnStep(c, k)
  BY <1>1, <1>2, <1>3, <1>5, Zenon DEF OwnStep
<1>7. CallInv(c)' /\ ReplyInv(c)' /\ ~Active(c)'
  BY <1>1, <1>3, <1>4, Zenon DEF CallInv, ReplyInv, Active
<1>8. KeyInv(k)'
  BY <1>5, IInvParts, KeyFrame, Zenon
<1> QED BY <1>1, <1>5, <1>6, <1>7, <1>8, StepLemma, Zenon

-----------------------------------------------------------------------------
(* Asking an authority. *)

\* A call to an authority changes the call's phase and its key's authorities.
LEMMA CallStep ==
  ASSUME IInv, TypeOK', NEW c \in Calls, NEW o \in Ops, NEW p \in {"advance", "hold", "void", "unknown"},
         CallGoesTo(c, o, p), NEW k \in Keys, req[c].key = k,
         \A j \in Keys \ {k} : SameParties(j),
         CallInv(c)', KeyInv(k)'
  PROVE  IInv'
PROOF
<1>1. Goto(c, p) /\ Active(c) /\ UNCHANGED <<saga, op, req, rec, reply>>
  BY Zenon DEF CallGoesTo, Active, storeVars
<1>2. \A d \in Calls \ {c} : SameCall(d)
  BY <1>1, GotoFrame, Zenon DEF IInv, SameCall
<1>3. \A j \in Keys \ {k} : SameKey(j)
  BY <1>1, Zenon DEF SameParties, SameKey
<1>4. ReplyInv(c)'
  BY <1>1, IInvParts, Zenon DEF ReplyInv
<1>5. OwnStep(c, k)
  BY <1>1, <1>2, <1>3, Zenon DEF OwnStep
<1> QED BY <1>1, <1>4, <1>5, StepLemma, Zenon

\* What a call that is about to ask knows.
Asking(c, o, k) ==
  /\ phase[c] = "call" /\ op[c] = o /\ reply[c] = "none" /\ req[c].key = k
  /\ saga[k].version > 0 /\ rec[c] = saga[k] /\ ~terminalStage(saga[k].stage)
  /\ NothingOnWire(k) /\ CallMatchesParties(c) /\ KeyInv(k) /\ PartiesTypeOK

\* A call that asks an authority holds its saga's current record, nothing is under
\* way for its key, and asking changes only its phase.
LEMMA AtCall ==
  ASSUME IInv, NEW c \in Calls, NEW o, NEW p, CallGoesTo(c, o, p), NEW k \in Keys, req[c].key = k
  PROVE  Asking(c, o, k) /\ phase'[c] = p /\ UNCHANGED <<saga, op, req, rec, reply>>
PROOF
<1>1. phase[c] = "call" /\ op[c] = o /\ Goto(c, p) /\ UNCHANGED <<saga, op, req, rec, reply>>
  BY Zenon DEF CallGoesTo, storeVars
<1>2. phase'[c] = p
  BY <1>1, GotoFrame, Zenon DEF IInv
<1>3. CallInv(c) /\ KeyInv(k) /\ PartiesTypeOK
  BY IInvParts, Zenon DEF TypeOK
<1> QED BY <1>1, <1>2, <1>3, Zenon DEF CallInv, Active, Asking

\* The authorities are as far as the operations that were answered before o.
LEMMA AskingState ==
  ASSUME NEW c, NEW o \in Ops, NEW k, Asking(c, o, k)
  PROVE  /\ ledger[k] = CASE o \in {"screen", "route", "liquidity", "prepare"} -> "none"
                          [] o \in {"attest", "settle"} -> "posted"
                          [] OTHER -> "pending"
         /\ o \in {"screen", "route", "liquidity", "prepare", "collect", "payout"} =>
              fiat[k] = "none" /\ issued[k]["fiat"] = 0
         /\ o \in {"screen", "route", "liquidity", "prepare", "collect", "custody"} =>
              custody[k] = "none" /\ issued[k]["custody"] = 0
         /\ o \in {"commit", "attest", "settle"} => fiat[k] = "settled" /\ custody[k] = "final"
BY Zenon DEF Asking, CallMatchesParties, PrepareDone, FiatDone, CustodyDone, FinalDone, CommitDone, Ops

\* What is asked of a call that an answer has stopped.
LEMMA StoppedCall ==
  ASSUME NEW c, NEW k, NEW p \in {"hold", "void", "unknown"},
         phase'[c] = p, req'[c].key = k, reply'[c] = "none", saga'[k].version > 0,
         p # "unknown" => rec'[c] = saga'[k] /\ ~terminalStage(saga'[k].stage) /\ NothingOnWire(k)',
         p = "void" => ledger'[k] = "pending" /\ fiat'[k] = "rejected" /\ custody'[k] = "none",
         p = "hold" => ledger'[k] = "none" /\ fiat'[k] = "none" /\ custody'[k] = "none"
  PROVE  CallInv(c)'
BY Zenon DEF CallInv, Active

\* While a call asks, its key's row is live and nothing else is under way for it.
LEMMA AskingKey ==
  ASSUME NEW c, NEW o, NEW k, Asking(c, o, k), saga' = saga
  PROVE  /\ saga'[k].version > 0 /\ saga'[k].stage \notin TerminalStages
         /\ wire' = wire => NothingOnWire(k)'
         /\ issued[k]["fiat"] <= 1 /\ issued[k]["custody"] <= 1
BY Zenon DEF Asking, NothingOnWire, terminalStage, KeyInv, MoneyCommands

\* The facts about a key whose saga is neither new nor terminal: with nothing under
\* way, they only relate the ledger and the legs and count the commands.
LEMMA LiveKey ==
  ASSUME NEW k \in Keys,
         saga'[k].version > 0, saga'[k].stage \notin TerminalStages, NothingOnWire(k)',
         ledger'[k] = "posted" => fiat'[k] = "settled" /\ custody'[k] = "final",
         ledger'[k] # "voided",
         issued'[k]["fiat"] <= 1, issued'[k]["custody"] <= 1
  PROVE  KeyInv(k)'
PROOF
<1>1. WireInv(k)'
  BY SMTT(20) DEF WireInv, NothingOnWire, Commands, LedgerCommands, MoneyCommands
<1>2. \A e \in MoneyCommands : issued'[k][e] <= 1
  BY Zenon DEF MoneyCommands
<1> QED BY <1>1, <1>2, Zenon DEF KeyInv, TerminalStages

\* What a confirmed answer to operation o leaves with the authorities of key k.
Answered(o, k) ==
  /\ ledger'[k] = CASE o = "prepare" -> "pending" [] o = "commit" -> "posted" [] OTHER -> ledger[k]
  /\ fiat'[k] = IF o \in {"collect", "payout"} THEN "settled" ELSE fiat[k]
  /\ custody'[k] = IF o = "custody" THEN "submitted" ELSE custody[k]
  /\ o = "finality" => custody[k] = "final"
  /\ attested[k] \/ o = "attest" => attested'[k]
  /\ issued'[k]["fiat"] = IF o \in {"collect", "payout"} THEN 1 ELSE issued[k]["fiat"]
  /\ issued'[k]["custody"] = IF o = "custody" THEN 1 ELSE issued[k]["custody"]
  /\ wire' = wire

\* After a confirmed answer the call is again exactly as far as the authorities.
LEMMA AnsweredCall ==
  ASSUME NEW c \in Calls, NEW o \in Ops, NEW k, Asking(c, o, k), Answered(o, k),
         phase'[c] = "advance", UNCHANGED <<saga, op, req, rec, reply>>
  PROVE  CallInv(c)'
PROOF
<1>1. /\ phase[c] = "call" /\ op[c] = o /\ req[c].key = k /\ CallMatchesParties(c)
      /\ reply[c] = "none" /\ saga[k].version > 0 /\ rec[c] = saga[k]
      /\ ~terminalStage(saga[k].stage) /\ NothingOnWire(k)
  BY Zenon DEF Asking
<1>2. CallMatchesParties(c)'
  <2>1. /\ PrepareDone(c)' <=> PrepareDone(c) \/ o = "prepare"
        /\ FiatDone(c)' <=> FiatDone(c) \/ o \in {"collect", "payout"}
        /\ CustodyDone(c)' <=> CustodyDone(c) \/ o = "custody"
    BY <1>1, Zenon DEF PrepareDone, FiatDone, CustodyDone
  <2>2. /\ FinalDone(c)' <=> FinalDone(c) \/ o = "finality"
        /\ CommitDone(c)' <=> CommitDone(c) \/ o = "commit"
        /\ AttestDone(c)' <=> AttestDone(c) \/ o = "attest"
    BY <1>1, Zenon DEF FinalDone, CommitDone, AttestDone
  <2>3. /\ o = "prepare" => ~CommitDone(c)
        /\ o = "commit" => ~CommitDone(c)
        /\ o = "custody" => ~CustodyDone(c) /\ ~FinalDone(c)
    BY <1>1, Zenon DEF CustodyDone, FinalDone, CommitDone
  <2> QED BY <1>1, <2>1, <2>2, <2>3, ZenonT(40) DEF CallMatchesParties, Answered
<1> QED BY <1>1, <1>2, Zenon DEF CallInv, Active, NothingOnWire, Answered

\* A confirmed answer keeps the facts about its key.
LEMMA AnsweredKey ==
  ASSUME NEW c \in Calls, NEW o \in Ops, NEW k \in Keys, Asking(c, o, k), Answered(o, k), saga' = saga
  PROVE  KeyInv(k)'
PROOF
<1>1. /\ saga'[k].version > 0 /\ saga'[k].stage \notin TerminalStages /\ NothingOnWire(k)'
      /\ issued[k]["fiat"] <= 1 /\ issued[k]["custody"] <= 1
  BY AskingKey, Zenon DEF Answered
<1>2. issued'[k]["fiat"] <= 1 /\ issued'[k]["custody"] <= 1
  BY <1>1, SMTT(20) DEF Answered
<1>3. ledger'[k] # "voided" /\ (ledger'[k] = "posted" => fiat'[k] = "settled" /\ custody'[k] = "final")
  BY AskingState, ZenonT(40) DEF Answered
<1> QED BY <1>1, <1>2, <1>3, LiveKey, Zenon

\* A confirmed answer keeps the invariant.
LEMMA CallAdvances ==
  ASSUME IInv, TypeOK', NEW c \in Calls, NEW o \in Ops, CallGoesTo(c, o, "advance"),
         NEW k \in Keys, req[c].key = k, Answered(o, k), \A j \in Keys \ {k} : SameParties(j)
  PROVE  IInv'
PROOF
<1>1. Asking(c, o, k) /\ phase'[c] = "advance" /\ UNCHANGED <<saga, op, req, rec, reply>>
  BY AtCall, Zenon
<1>2. CallInv(c)'
  BY <1>1, AnsweredCall, Zenon
<1>3. KeyInv(k)'
  BY <1>1, AnsweredKey, Zenon
<1> QED BY <1>2, <1>3, CallStep, Zenon

\* An answer without effect on the authorities keeps the invariant.
LEMMA CallUnchanged ==
  ASSUME IInv, TypeOK', NEW c \in Calls, NEW o \in Ops, NEW p \in {"advance", "hold", "unknown"},
         CallGoesTo(c, o, p), NEW k \in Keys, req[c].key = k, UNCHANGED partyVars,
         p = "advance" => o \in {"screen", "route", "liquidity", "settle"} \/ (o = "finality" /\ custody[k] = "final"),
         p = "hold" => o \in {"screen", "route", "liquidity"}
  PROVE  IInv'
PROOF
<1>1. Asking(c, o, k) /\ phase'[c] = p /\ UNCHANGED <<saga, op, req, rec, reply>>
  BY AtCall, SMTT(20)
<1>2. UNCHANGED <<ledger, fiat, custody, attested, wire, issued>>
  BY Zenon DEF partyVars
<1>3. \A j \in Keys \ {k} : SameParties(j)
  BY <1>2, Zenon DEF SameParties
<1>4. CASE p = "advance"
  <2>1. Answered(o, k)
    BY <1>2, <1>4, Zenon DEF Answered
  <2> QED BY <1>3, <1>4, <2>1, CallAdvances, Zenon
<1>5. CASE p # "advance"
  <2>1. /\ reply[c] = "none" /\ req[c].key = k /\ saga[k].version > 0 /\ rec[c] = saga[k]
        /\ ~terminalStage(saga[k].stage) /\ NothingOnWire(k) /\ KeyInv(k)
    BY <1>1, Zenon DEF Asking
  <2>2. p = "hold" => ledger[k] = "none" /\ fiat[k] = "none" /\ custody[k] = "none"
    BY <1>1, AskingState, SMTT(20)
  <2>3. CallInv(c)'
    <3>1. NothingOnWire(k)'
      BY <1>2, <2>1, Zenon DEF NothingOnWire
    <3> QED BY <1>1, <1>2, <1>5, <2>1, <2>2, <3>1, StoppedCall, Zenon
  <2>4. SameKey(k)
    BY <1>1, <1>2, Zenon DEF SameKey
  <2>5. KeyInv(k)'
    BY <2>1, <2>4, KeyFrame, Zenon
  <2> QED BY <1>3, <2>3, <2>5, CallStep, Zenon
<1> QED BY <1>4, <1>5, Zenon

\* The authorities are well typed, and a command leaves the other keys alone.
LEMMA OtherKeys ==
  ASSUME IInv, NEW k \in Keys
  PROVE  /\ \A e : ApplyLedger(k, e) /\ UNCHANGED <<wire, issued>> => \A j \in Keys \ {k} : SameParties(j)
         /\ \A a : ApplyFiat(k, a) /\ Count(k, "fiat") /\ UNCHANGED wire => \A j \in Keys \ {k} : SameParties(j)
         /\ \A a : ApplyCustody(k, a) /\ Count(k, "custody") /\ UNCHANGED wire =>
              \A j \in Keys \ {k} : SameParties(j)
         /\ ApplyAttest(k) /\ UNCHANGED <<wire, issued>> => \A j \in Keys \ {k} : SameParties(j)
         /\ \A e : Abandon(k, e) => \A j \in Keys \ {k} : SameParties(j)
BY PartyFrame, Zenon DEF IInv, TypeOK

\* A money-moving command that was not sent before has been sent once.
LEMMA CountOne ==
  ASSUME PartiesTypeOK, NEW k \in Keys, NEW e \in MoneyCommands, Count(k, e)
  PROVE  /\ issued'[k][e] = issued[k][e] + 1
         /\ \A f \in MoneyCommands \ {e} : issued'[k][f] = issued[k][f]
         /\ issued[k][e] \in Nat
BY Zenon DEF Count, PartiesTypeOK

\* The answers of policy, route and liquidity, of the finality check and of the final
\* reconciliation keep the invariant.
LEMMA ChecksKeepInv ==
  ASSUME IInv, TypeOK', NEW c \in Calls, NEW k \in Keys, req[c].key = k, 
         CallCheck(c) \/ CallFinality(c) \/ CallReconcile(c)
  PROVE  IInv'
PROOF
<1>1. CASE CallCheck(c)
  <2>1. PICK o \in {"screen", "route", "liquidity"}, p \in {"advance", "hold"} :
          CallGoesTo(c, o, p) /\ UNCHANGED partyVars
    BY <1>1, Zenon DEF CallCheck
  <2> QED BY <2>1, CallUnchanged, Zenon DEF Ops
<1>2. CASE CallFinality(c)
  <2>1. PICK p \in {"advance", "unknown"} :
          CallGoesTo(c, "finality", p) /\ UNCHANGED partyVars /\ (p = "advance" => custody[k] = "final")
    BY <1>2, Zenon DEF CallFinality
  <2> QED BY <2>1, CallUnchanged, Zenon DEF Ops
<1>3. CASE CallReconcile(c)
  <2>1. PICK p \in {"advance", "unknown"} : CallGoesTo(c, "settle", p) /\ UNCHANGED partyVars
    BY <1>3, Zenon DEF CallReconcile
  <2> QED BY <2>1, CallUnchanged, Zenon DEF Ops
<1> QED BY <1>1, <1>2, <1>3, Zenon

\* A prepared or committed ledger posting keeps the invariant.
LEMMA LedgerKeepsInv ==
  ASSUME IInv, TypeOK', NEW c \in Calls, NEW k \in Keys, req[c].key = k, CallLedger(c)
  PROVE  IInv'
PROOF
<1>1. PICK o \in {"prepare", "commit"} :
        CallGoesTo(c, o, "advance") /\ ApplyLedger(k, o) /\ UNCHANGED <<wire, issued>>
  BY Zenon DEF CallLedger
<1>2. o \in Ops /\ Asking(c, o, k) /\ PartiesTypeOK
  <2>1. Asking(c, o, k)
    BY <1>1, AtCall, Zenon
  <2>2. o \in Ops
    BY <1>1, Zenon DEF Ops
  <2> QED BY <2>1, <2>2, Zenon DEF Asking
<1>3. ledger[k] = IF o = "prepare" THEN "none" ELSE "pending"
  BY <1>2, AskingState, SMTT(20)
<1>4. ledger'[k] = (IF o = "prepare" THEN "pending" ELSE "posted") /\ UNCHANGED <<fiat, custody, attested>>
  BY <1>1, <1>2, <1>3, Zenon DEF ApplyLedger, LedgerAfter, PartiesTypeOK
<1>5. Answered(o, k)
  BY <1>1, <1>4, Zenon DEF Answered
<1>6. \A j \in Keys \ {k} : SameParties(j)
  BY <1>1, OtherKeys, Zenon
<1> QED BY <1>1, <1>2, <1>5, <1>6, CallAdvances, Zenon

\* A settled fiat leg keeps the invariant.
LEMMA FiatKeepsInv ==
  ASSUME IInv, TypeOK', NEW c \in Calls, NEW k \in Keys, req[c].key = k, CallFiat(c)
  PROVE  IInv'
PROOF
<1>1. PICK o \in {"collect", "payout"} :
        /\ CallGoesTo(c, o, "advance")
        /\ ApplyFiat(k, "settled") /\ Count(k, "fiat") /\ UNCHANGED wire
  BY Zenon DEF CallFiat
<1>2. o \in Ops /\ Asking(c, o, k) /\ PartiesTypeOK
  <2>1. Asking(c, o, k)
    BY <1>1, AtCall, Zenon
  <2>2. o \in Ops
    BY <1>1, Zenon DEF Ops
  <2> QED BY <2>1, <2>2, Zenon DEF Asking
<1>3. fiat[k] = "none" /\ issued[k]["fiat"] = 0
  BY <1>2, AskingState, SMTT(20)
<1>4. fiat'[k] = "settled" /\ UNCHANGED <<ledger, custody, attested>>
  BY <1>1, <1>2, <1>3, Zenon DEF ApplyFiat, PartiesTypeOK
<1>5. issued'[k]["fiat"] = 1 /\ issued'[k]["custody"] = issued[k]["custody"]
  BY <1>1, <1>2, <1>3, CountOne, SMTT(20) DEF MoneyCommands
<1>6. Answered(o, k)
  BY <1>1, <1>4, <1>5, Zenon DEF Answered
<1>7. \A j \in Keys \ {k} : SameParties(j)
  BY <1>1, OtherKeys, Zenon
<1> QED BY <1>1, <1>2, <1>6, <1>7, CallAdvances, Zenon

\* A submitted custody leg keeps the invariant.
LEMMA CustodyKeepsInv ==
  ASSUME IInv, TypeOK', NEW c \in Calls, NEW k \in Keys, req[c].key = k, CallCustody(c)
  PROVE  IInv'
PROOF
<1>1. /\ CallGoesTo(c, "custody", "advance")
      /\ ApplyCustody(k, "submitted") /\ Count(k, "custody") /\ UNCHANGED wire
  BY Zenon DEF CallCustody
<1>2. "custody" \in Ops /\ Asking(c, "custody", k) /\ PartiesTypeOK
  <2>1. Asking(c, "custody", k)
    BY <1>1, AtCall, Zenon
  <2>2. "custody" \in Ops
    BY <1>1, Zenon DEF Ops
  <2> QED BY <2>1, <2>2, Zenon DEF Asking
<1>3. custody[k] = "none" /\ issued[k]["custody"] = 0
  BY <1>2, AskingState, SMTT(20)
<1>4. custody'[k] = "submitted" /\ UNCHANGED <<ledger, fiat, attested>>
  BY <1>1, <1>2, <1>3, Zenon DEF ApplyCustody, PartiesTypeOK
<1>5. issued'[k]["custody"] = 1 /\ issued'[k]["fiat"] = issued[k]["fiat"]
  BY <1>1, <1>2, <1>3, CountOne, SMTT(20) DEF MoneyCommands
<1>6. Answered("custody", k)
  BY <1>1, <1>4, <1>5, Zenon DEF Answered
<1>7. \A j \in Keys \ {k} : SameParties(j)
  BY <1>1, OtherKeys, Zenon
<1> QED BY <1>1, <1>2, <1>6, <1>7, CallAdvances, Zenon

\* A verified attestation keeps the invariant.
LEMMA AttestKeepsInv ==
  ASSUME IInv, TypeOK', NEW c \in Calls, NEW k \in Keys, req[c].key = k, CallAttest(c)
  PROVE  IInv'
PROOF
<1>1. CallGoesTo(c, "attest", "advance") /\ ApplyAttest(k) /\ UNCHANGED <<wire, issued>>
  BY Zenon DEF CallAttest
<1>2. PartiesTypeOK
  BY Zenon DEF IInv, TypeOK
<1>3. attested'[k] = TRUE /\ UNCHANGED <<ledger, fiat, custody>>
  BY <1>1, <1>2, Zenon DEF ApplyAttest, PartiesTypeOK
<1>4. Answered("attest", k)
  BY <1>1, <1>3, Zenon DEF Answered
<1>5. \A j \in Keys \ {k} : SameParties(j)
  BY <1>1, OtherKeys, Zenon
<1> QED BY <1>1, <1>4, <1>5, CallAdvances, Zenon DEF Ops

\* A fiat leg refused without effect keeps the invariant.
LEMMA NoFiatKeepsInv ==
  ASSUME IInv, TypeOK', NEW c \in Calls, NEW k \in Keys, req[c].key = k, CallFiatNoEffect(c)
  PROVE  IInv'
PROOF
<1>1. /\ CallGoesTo(c, "collect", "void")
      /\ ApplyFiat(k, "rejected") /\ Count(k, "fiat") /\ UNCHANGED wire
  BY Zenon DEF CallFiatNoEffect
<1>2. Asking(c, "collect", k) /\ phase'[c] = "void" /\ UNCHANGED <<saga, op, req, rec, reply>>
  BY <1>1, AtCall, Zenon
<1>3. "collect" \in Ops /\ PartiesTypeOK
  BY <1>2, Zenon DEF Ops, Asking
<1>4. ledger[k] = "pending" /\ fiat[k] = "none" /\ issued[k]["fiat"] = 0 /\ custody[k] = "none"
  BY <1>2, <1>3, AskingState, SMTT(20)
<1>5. fiat'[k] = "rejected" /\ UNCHANGED <<ledger, custody, attested>>
  BY <1>1, <1>3, <1>4, Zenon DEF ApplyFiat, PartiesTypeOK
<1>6. issued'[k]["fiat"] = 1 /\ issued'[k]["custody"] = issued[k]["custody"]
  BY <1>1, <1>3, <1>4, CountOne, SMTT(20) DEF MoneyCommands
<1>7. CallInv(c)'
  <2>1. /\ reply[c] = "none" /\ req[c].key = k /\ saga[k].version > 0 /\ rec[c] = saga[k]
        /\ ~terminalStage(saga[k].stage) /\ NothingOnWire(k)
    BY <1>2, Zenon DEF Asking
  <2>2. NothingOnWire(k)'
    BY <1>1, <2>1, Zenon DEF NothingOnWire
  <2> QED BY <1>2, <1>4, <1>5, <2>1, <2>2, StoppedCall, Zenon
<1>8. KeyInv(k)'
  <2>1. /\ saga'[k].version > 0 /\ saga'[k].stage \notin TerminalStages /\ NothingOnWire(k)'
        /\ issued[k]["custody"] <= 1
    BY <1>1, <1>2, AskingKey, Zenon
  <2> QED BY <1>4, <1>5, <1>6, <2>1, LiveKey, SMTT(20)
<1>9. \A j \in Keys \ {k} : SameParties(j)
  BY <1>1, OtherKeys, Zenon
<1> QED BY <1>1, <1>3, <1>7, <1>8, <1>9, CallStep, Zenon

\* An answer that never comes keeps the invariant.
LEMMA SilenceKeepsInv ==
  ASSUME IInv, TypeOK', NEW c \in Calls, NEW k \in Keys, req[c].key = k, CallAmbiguous(c)
  PROVE  IInv'
PROOF
<1>1. PICK o \in {"prepare", "collect", "custody", "payout", "commit", "attest"} :
        CallGoesTo(c, o, "unknown") /\ Abandon(k, CommandOf(o))
  BY Zenon DEF CallAmbiguous
<1>2. Asking(c, o, k) /\ phase'[c] = "unknown" /\ UNCHANGED <<saga, op, req, rec, reply>>
  BY <1>1, AtCall, Zenon
<1>3. UNCHANGED <<ledger, fiat, custody, attested>> /\ wire' = wire \cup {<<k, CommandOf(o)>>}
  BY <1>1, Zenon DEF Abandon
<1>a. /\ reply[c] = "none" /\ req[c].key = k /\ saga[k].version > 0 /\ PartiesTypeOK
      /\ NothingOnWire(k) /\ KeyInv(k) /\ ~terminalStage(saga[k].stage)
  BY <1>2, Zenon DEF Asking
<1>4. CallInv(c)'
  BY <1>2, <1>a, Zenon DEF CallInv, Active
<1>5. \A e \in MoneyCommands : issued'[k][e] <= 1
  <2>1. /\ CommandOf(o) = "fiat" => issued[k]["fiat"] = 0
        /\ CommandOf(o) = "custody" => issued[k]["custody"] = 0
    BY <1>2, AskingState, SMTT(20) DEF Ops, CommandOf
  <2>2. \A e \in MoneyCommands : issued[k][e] <= 1
    BY <1>a, Zenon DEF KeyInv
  <2>3. CASE CommandOf(o) \in MoneyCommands
    BY <1>1, <1>a, <2>1, <2>2, <2>3, CountOne, SMTT(20) DEF Abandon, MoneyCommands
  <2>4. CASE CommandOf(o) \notin MoneyCommands
    BY <1>1, <2>2, <2>4, Zenon DEF Abandon, Count
  <2> QED BY <2>3, <2>4, Zenon
<1>6. o = "commit" => fiat[k] = "settled" /\ custody[k] = "final"
  BY <1>2, AskingState, SMTT(20) DEF Ops
<1>7. ledger[k] # "voided" /\ saga[k].stage \notin TerminalStages
  BY <1>2, <1>a, AskingState, SMTT(20) DEF Ops, terminalStage
<1>8. KeyInv(k)'
  <2>1. \A e \in Commands : <<k, e>> \in wire' <=> e = CommandOf(o)
    BY <1>3, <1>a, Zenon DEF NothingOnWire
  <2>2. CommandOf(o) # "void" /\ (CommandOf(o) = "commit" => o = "commit")
    BY Zenon DEF CommandOf
  <2>3. WireInv(k)'
    <3>1. /\ <<k, "commit">> \in wire' => o = "commit"
          /\ <<k, "void">> \notin wire'
      BY <2>1, <2>2, Zenon DEF Commands, LedgerCommands
    <3>2. UNCHANGED <<saga, ledger, fiat, custody>> /\ saga[k].version > 0
      BY <1>2, <1>3, <1>a, Zenon
    <3> QED BY <1>6, <1>7, <3>1, <3>2, SMTT(20) DEF WireInv
  <2> QED BY <1>2, <1>3, <1>5, <1>7, <1>a, <2>3, Zenon DEF KeyInv, TerminalStages
<1>9. \A j \in Keys \ {k} : SameParties(j)
  BY <1>1, OtherKeys, Zenon
<1> QED BY <1>1, <1>4, <1>8, <1>9, CallStep, Zenon DEF Ops

\* Every answer of an authority, and every silence, keeps the invariant.
LEMMA CallKeepsInv ==
  ASSUME IInv, TypeOK', NEW c \in Calls, Call(c)
  PROVE  IInv'
PROOF
<1>1. \E o \in Ops, p \in Phases : CallGoesTo(c, o, p)
  BY Zenon DEF Call, CallCheck, CallLedger, CallFiat, CallFiatNoEffect, CallCustody, Phases,
         CallFinality, CallAttest, CallReconcile, CallAmbiguous, Ops
<1>2. PICK k \in Keys : req[c].key = k
  BY <1>1, RequestsAssumption, Zenon DEF CallGoesTo, IInv, TypeOK
<1> QED BY <1>2, ChecksKeepInv, LedgerKeepsInv, FiatKeepsInv, NoFiatKeepsInv, CustodyKeepsInv,
           AttestKeepsInv, SilenceKeepsInv DEF Call

-----------------------------------------------------------------------------
(* Writing to the saga store. *)

\* The row after a transaction of the saga store.
LEMMA PersistRow ==
  ASSUME TypeOK, NEW c \in Calls, NEW k \in Keys, req[c].key = k, NEW next \in Stages,
         NEW refs \in SUBSET References, Persist(c, next, refs)
  PROVE  /\ saga'[k].stage = next /\ saga'[k].version > 0
         /\ saga'[k] = recordWithUpdate(saga[k], next, refs)
         /\ \A j \in Keys \ {k} : saga'[j] = saga[j]
PROOF
<1>1. saga \in [Keys -> Records] /\ saga[k].version \in Nat
  BY Zenon DEF TypeOK, StoreTypeOK, Records
<1>2. saga' = [saga EXCEPT ![k] = recordWithUpdate(saga[k], next, refs)]
  BY Zenon DEF Persist, WriteRow
<1> QED BY <1>1, <1>2, SMTT(20) DEF recordWithUpdate

\* A transaction of call c leaves every other call and key alone.
LEMMA WriteFrame ==
  ASSUME IInv, NEW c \in Calls, NEW k \in Keys, req[c].key = k, NEW next \in Stages,
         NEW refs \in SUBSET References,
         Persist(c, next, refs) \/ PersistFails(c, next, refs), UNCHANGED partyVars, req' = req,
         \A d \in Calls \ {c} : SameCall(d)
  PROVE  /\ OwnStep(c, k)
         /\ \/ saga'[k] = saga[k]
            \/ Persist(c, next, refs) /\ saga'[k].stage = next /\ saga'[k].version > 0
PROOF
<1>1. /\ \A j \in Keys \ {k} : saga'[j] = saga[j]
      /\ \/ saga'[k] = saga[k]
         \/ Persist(c, next, refs) /\ saga'[k].stage = next /\ saga'[k].version > 0
  BY PersistRow DEF PersistFails, storeVars, IInv
<1>2. \A j \in Keys \ {k} : SameKey(j)
  BY <1>1, Zenon DEF SameKey, partyVars
<1> QED BY <1>1, <1>2, Zenon DEF OwnStep

\* Writing a stage keeps the facts about the key, if the facts that SETTLED and
\* HELD stand for are there.
LEMMA PersistKey ==
  ASSUME NEW k \in Keys, KeyInv(k), UNCHANGED partyVars,
         \/ saga'[k] = saga[k]
         \/ /\ saga'[k].version > 0
            /\ saga'[k].stage = "settled" =>
                 fiat[k] = "settled" /\ custody[k] = "final" /\ ledger[k] = "posted" /\ attested[k]
            /\ saga'[k].stage = "held" =>
                 /\ fiat[k] # "settled" /\ custody[k] = "none" /\ NothingOnWire(k)
                 /\ ledger[k] \in {"none", "voided"}
  PROVE  KeyInv(k)'
BY SMTT(20) DEF KeyInv, WireInv, NothingOnWire, partyVars, Commands, LedgerCommands, MoneyCommands

\* What a call that is about to persist an answer knows.
LEMMA AtAdvance ==
  ASSUME IInv, NEW c \in Calls, phase[c] = "advance", NEW k \in Keys, req[c].key = k
  PROVE  /\ Active(c) /\ saga[k].version > 0 /\ saga[k].stage \notin TerminalStages
         /\ NothingOnWire(k) /\ CallMatchesParties(c) /\ reply[c] = "none" /\ KeyInv(k)
         /\ op[c] = "settle" =>
              fiat[k] = "settled" /\ custody[k] = "final" /\ ledger[k] = "posted" /\ attested[k]
PROOF
<1>1. CallInv(c) /\ KeyInv(k)
  BY IInvParts, Zenon
<1>2. /\ Active(c) /\ saga[k].version > 0 /\ saga[k].stage \notin TerminalStages
      /\ NothingOnWire(k) /\ CallMatchesParties(c) /\ reply[c] = "none"
  BY <1>1, Zenon DEF CallInv, Active, terminalStage
<1> QED BY <1>1, <1>2, Zenon DEF CallMatchesParties, FiatDone, FinalDone, CommitDone, AttestDone

\* Once an answer is persisted, the call is as far as the authorities with its next
\* operation.
LEMMA NextMatches ==
  ASSUME NEW c \in Calls, NEW o \in Ops \ {"settle"}, op[c] = o, phase[c] = "advance",
         req[c].direction \in Directions, CallMatchesParties(c),
         phase'[c] = "call", op'[c] = NextOp(req[c].direction, o), req' = req, UNCHANGED partyVars
  PROVE  CallMatchesParties(c)'
BY ZenonT(40) DEF CallMatchesParties, PrepareDone, FiatDone, CustodyDone,
       FinalDone, CommitDone, AttestDone, NextOp, Ops, Directions, partyVars

\* Persisting the stage an answer allows keeps the invariant.
LEMMA AdvanceKeepsInv ==
  ASSUME IInv, TypeOK', NEW c \in Calls, AdvanceOk(c) \/ AdvanceFails(c)
  PROVE  IInv'
PROOF
<1>1. phase[c] = "advance" /\ req' = req /\ UNCHANGED partyVars /\ TypeOK
  BY Zenon DEF AdvanceOk, AdvanceFails, IInv
<1>2. PICK k \in Keys : req[c].key = k
  BY <1>1, RunningKey, Zenon
<1>3. PICK o \in Ops : op[c] = o
  BY <1>1, Zenon DEF TypeOK
<1>4. /\ StageOf[o] \in Stages /\ UpdateOf[o] \in SUBSET References
      /\ StageOf[o] # "held" /\ (StageOf[o] = "settled" <=> o = "settle") /\ StageOf[o] # "unknown"
  BY TableTypes, Zenon DEF StageOf, Ops
<1>5. Persist(c, StageOf[o], UpdateOf[o]) \/ PersistFails(c, StageOf[o], UpdateOf[o])
  BY <1>3, Zenon DEF AdvanceOk, AdvanceFails
<1>6. /\ Active(c) /\ saga[k].version > 0 /\ saga[k].stage \notin TerminalStages
      /\ NothingOnWire(k) /\ CallMatchesParties(c) /\ reply[c] = "none" /\ KeyInv(k)
      /\ o = "settle" =>
           fiat[k] = "settled" /\ custody[k] = "final" /\ ledger[k] = "posted" /\ attested[k]
  BY <1>1, <1>2, <1>3, AtAdvance, Zenon
<1>7. \A d \in Calls \ {c} : SameCall(d)
  BY <1>1, SMTT(20) DEF AdvanceOk, AdvanceFails, SameCall, Goto, Return, TypeOK
<1>8. /\ OwnStep(c, k)
      /\ saga'[k] = saga[k] \/ (saga'[k].stage = StageOf[o] /\ saga'[k].version > 0)
  BY <1>1, <1>2, <1>4, <1>5, <1>7, WriteFrame, Zenon
<1>9. KeyInv(k)'
  BY <1>1, <1>4, <1>6, <1>8, PersistKey, Zenon
<1>10. saga[k].stage # "settled" /\ saga'[k].version > 0 /\ Active(c)
  BY <1>6, <1>8, Zenon DEF TerminalStages
<1>11. CallInv(c)' /\ ReplyInv(c)'
  <2>1. CASE AdvanceFails(c)
    <3>1. phase'[c] = "unknown" /\ reply' = reply
      BY <1>1, <2>1, Zenon DEF AdvanceFails, Goto, TypeOK
    <3> QED BY <1>1, <1>2, <1>6, <1>10, <3>1, Zenon DEF CallInv, ReplyInv, Active
  <2>2. CASE AdvanceOk(c) /\ o = "settle"
    <3>1. phase'[c] = "done" /\ reply'[c] = "SETTLED"
      BY <1>1, <1>3, <2>2, Zenon DEF AdvanceOk, Return, Goto, TypeOK
    <3>2. Persist(c, StageOf[o], UpdateOf[o])
      BY <1>3, <2>2, Zenon DEF AdvanceOk
    <3>3. saga'[k].stage = "settled"
      BY <1>1, <1>2, <1>4, <2>2, <3>2, PersistRow, Zenon
    <3> QED BY <1>1, <1>2, <3>1, <3>3, Zenon DEF CallInv, ReplyInv, Active
  <2>3. CASE AdvanceOk(c) /\ o # "settle"
    <3>1. phase'[c] = "call" /\ reply' = reply
      BY <1>1, <1>3, <2>3, Zenon DEF AdvanceOk, Goto, TypeOK
    <3>2. op'[c] = NextOp(req[c].direction, o) /\ rec'[c] = saga'[k]
      BY <1>1, <1>2, <1>3, <2>3, Zenon DEF AdvanceOk, TypeOK
    <3>3. Persist(c, StageOf[o], UpdateOf[o])
      BY <1>3, <2>3, Zenon DEF AdvanceOk
    <3>4. saga'[k].stage \notin TerminalStages
      <4>1. saga'[k].stage = StageOf[o]
        BY <1>1, <1>2, <1>4, <3>3, PersistRow, SMTT(20)
      <4> QED BY <1>4, <2>3, <4>1, Zenon DEF TerminalStages
    <3>5. req[c].direction \in Directions
      BY <1>1, RequestsAssumption, Zenon DEF TypeOK
    <3>6. CallMatchesParties(c)'
      BY <1>1, <1>3, <1>6, <2>3, <3>1, <3>2, <3>5, NextMatches, Zenon
    <3> QED BY <1>1, <1>2, <1>6, <1>10, <3>1, <3>2, <3>4, <3>6, Zenon
            DEF CallInv, ReplyInv, Active, terminalStage, NothingOnWire, partyVars
  <2> QED BY <2>1, <2>2, <2>3, Zenon
<1> QED BY <1>8, <1>9, <1>10, <1>11, StepLemma, Zenon

\* Only a saga that is not terminal can be held or marked unknown.
LEMMA MarkNotTerminal ==
  ASSUME NEW record, NEW to \in {"held", "unknown"}, stageAllowsRecord(record, to)
  PROVE  record.stage \notin TerminalStages
BY Zenon DEF stageAllowsRecord, stageAllows, terminalStage, TerminalStages

\* Holding a saga and marking it unknown keep the invariant.
LEMMA MarkKeepsInv ==
  ASSUME IInv, TypeOK', NEW c \in Calls, MarkHeld(c) \/ MarkUnknown(c)
  PROVE  IInv'
PROOF
<1>1. PICK next \in {"held", "unknown"} :
        /\ next = "held" => phase[c] = "hold"
        /\ next = "unknown" => phase[c] = "unknown"
        /\ Persist(c, next, {}) \/ PersistFails(c, next, {})
  BY Zenon DEF MarkHeld, MarkUnknown
<1>2. UNCHANGED <<op, req, rec>> /\ UNCHANGED partyVars /\ TypeOK
  BY Zenon DEF MarkHeld, MarkUnknown, IInv
<1>3. PICK k \in Keys : req[c].key = k
  BY <1>1, <1>2, RunningKey, Zenon
<1>4. CallInv(c) /\ KeyInv(k) /\ next \in Stages /\ {} \in SUBSET References
  BY IInvParts, Zenon DEF Stages, TerminalStages
<1>5. \/ phase'[c] = "unknown" /\ reply' = reply
      \/ phase'[c] = "done" /\ reply'[c] \in {"HELD", "UNKNOWN"}
  BY <1>2, Zenon DEF MarkHeld, MarkUnknown, Goto, Return, TypeOK
<1>6. \A d \in Calls \ {c} : SameCall(d)
  BY <1>2, Zenon DEF MarkHeld, MarkUnknown, SameCall, Goto, Return, TypeOK
<1>7. /\ OwnStep(c, k)
      /\ \/ saga'[k] = saga[k]
         \/ Persist(c, next, {}) /\ saga'[k].stage = next /\ saga'[k].version > 0
  BY <1>1, <1>2, <1>3, <1>4, <1>6, WriteFrame, Zenon
<1>8. /\ Active(c) /\ saga[k].version > 0 /\ reply[c] = "none"
      /\ next = "held" => /\ fiat[k] # "settled" /\ custody[k] = "none" /\ NothingOnWire(k)
                          /\ ledger[k] \in {"none", "voided"}
  BY <1>1, <1>3, <1>4, Zenon DEF CallInv, Active
<1>9. KeyInv(k)' /\ saga'[k].version > 0
  BY <1>2, <1>4, <1>7, <1>8, PersistKey, Zenon
<1>10. saga[k].stage = "settled" => saga'[k].stage = "settled"
  <2>1. Persist(c, next, {}) => saga[k].stage \notin TerminalStages
    BY <1>3, MarkNotTerminal, Zenon DEF Persist, AdvanceAllowed
  <2> QED BY <1>7, <2>1, Zenon DEF TerminalStages
<1>11. CallInv(c)' /\ ReplyInv(c)'
  BY <1>2, <1>3, <1>5, <1>8, <1>9, Zenon DEF CallInv, ReplyInv, Active
<1> QED BY <1>7, <1>8, <1>9, <1>10, <1>11, StepLemma, Zenon

-----------------------------------------------------------------------------
(* Reserving. *)

\* Finding the row of an intent, or failing to reserve it, keeps the invariant.
LEMMA NotReserved ==
  ASSUME IInv, TypeOK', NEW c \in Calls, ReserveExisting(c) \/ ReserveFails(c)
  PROVE  IInv'
PROOF
<1>1. phase[c] = "reserve" /\ saga' = saga /\ UNCHANGED <<op, req, rec>> /\ UNCHANGED partyVars
  BY Zenon DEF ReserveExisting, ReserveFails, storeVars
<1>2. PICK k \in Keys : req[c].key = k
  BY <1>1, RunningKey, Zenon DEF IInv
<1>3. phase'[c] = "done" /\ (reply'[c] = "SETTLED" => saga[k].stage = "settled")
  BY <1>2, Zenon DEF ReserveExisting, ReserveFails, Return, Goto, IInv, TypeOK, resultFromRecord
<1>4. \A d \in Calls \ {c} : SameCall(d)
  BY <1>1, Zenon DEF ReserveExisting, ReserveFails, SameCall, Goto, Return, IInv, TypeOK
<1>5. \A j \in Keys : SameKey(j)
  BY <1>1, Zenon DEF SameKey, partyVars
<1>6. OwnStep(c, k)
  BY <1>1, <1>2, <1>4, <1>5, Zenon DEF OwnStep
<1>7. op[c] = "screen"
  BY <1>1, IInvParts, Zenon DEF CallInv
<1>8. CallInv(c)' /\ ReplyInv(c)' /\ ~Active(c)'
  BY <1>1, <1>2, <1>3, Zenon DEF CallInv, ReplyInv, Active
<1>9. KeyInv(k)'
  BY <1>5, IInvParts, KeyFrame, Zenon
<1> QED BY <1>1, <1>5, <1>6, <1>8, <1>9, StepLemma, Zenon

\* Reserving a saga keeps the invariant: its key had no row and no command.
LEMMA ReservedKeepsInv ==
  ASSUME IInv, TypeOK', NEW c \in Calls, ReserveOwned(c)
  PROVE  IInv'
PROOF
<1>1. phase[c] = "reserve" /\ UNCHANGED <<op, req>> /\ UNCHANGED partyVars
  BY Zenon DEF ReserveOwned
<1>2. PICK k \in Keys : req[c].key = k
  BY <1>1, RunningKey, Zenon DEF IInv
<1>3. saga[k].version = 0 /\ WriteRow(k, ReservedRecord(req[c])) /\ saga \in [Keys -> Records]
  BY <1>2, Zenon DEF ReserveOwned, ReserveInserts, IInv, TypeOK, StoreTypeOK
<1>4. /\ saga'[k] = ReservedRecord(req[c]) /\ \A j \in Keys \ {k} : saga'[j] = saga[j]
      /\ saga'[k].version = 1 /\ saga'[k].stage = "received"
  BY <1>3, Zenon DEF WriteRow, ReservedRecord
<1>5. CallInv(c) /\ KeyInv(k)
  BY IInvParts, Zenon
<1>6. reply[c] = "none" /\ op[c] = "screen"
  BY <1>1, <1>5, Zenon DEF CallInv
<1>7. /\ ledger[k] = "none" /\ fiat[k] = "none" /\ custody[k] = "none" /\ NothingOnWire(k)
      /\ issued[k]["fiat"] = 0 /\ issued[k]["custody"] = 0 /\ saga[k].stage = "none"
  <2>1. WireInv(k)
    BY <1>5, Zenon DEF KeyInv
  <2> QED BY <1>3, <2>1, Zenon DEF WireInv
<1>8. \A d \in Calls \ {c} : SameCall(d)
  BY <1>1, Zenon DEF ReserveOwned, SameCall, Goto, Return, IInv, TypeOK
<1>9. OwnStep(c, k)
  <2>1. \A j \in Keys \ {k} : SameKey(j)
    BY <1>1, <1>4, Zenon DEF SameKey, partyVars
  <2> QED BY <1>1, <1>2, <1>8, <2>1, Zenon DEF OwnStep
<1>10. KeyInv(k)'
  BY <1>1, <1>4, <1>5, PersistKey, SMTT(20)
<1>11. \/ phase'[c] = "call" /\ rec'[c] = ReservedRecord(req[c]) /\ reply' = reply
       \/ phase'[c] = "done" /\ reply'[c] = "UNKNOWN"
  <2>1. CASE Return(c, "UNKNOWN")
    BY <2>1, Zenon DEF Goto, Return, IInv, TypeOK
  <2>2. CASE rec' = [rec EXCEPT ![c] = ReservedRecord(req[c])] /\ Goto(c, "call") /\ reply' = reply
    BY <2>2, Zenon DEF Goto, IInv, TypeOK
  <2> QED BY <2>1, <2>2, Zenon DEF ReserveOwned
<1>12. phase'[c] = "call" => CallMatchesParties(c)'
  BY <1>1, <1>2, <1>6, <1>7, Zenon DEF CallMatchesParties, PrepareDone, FiatDone, CustodyDone, FinalDone,
     CommitDone, AttestDone, partyVars
<1>13. CallInv(c)' /\ ReplyInv(c)'
  BY <1>1, <1>2, <1>4, <1>6, <1>7, <1>11, <1>12, SMTT(20) DEF CallInv, ReplyInv, Active, terminalStage,
     TerminalStages, NothingOnWire, partyVars
<1> QED BY <1>3, <1>7, <1>9, <1>10, <1>13, StepLemma, Zenon

-----------------------------------------------------------------------------
(* The theorems. *)

\* Before anything is submitted the invariant holds.
LEMMA InitInv == Init => IInv
PROOF
<1> SUFFICES ASSUME Init PROVE IInv
  OBVIOUS
<1>1. TypeOK
  BY InitType, Zenon
<1>2. \A k \in Keys : saga[k].stage = "none" /\ saga[k].version = 0
  BY Zenon DEF Init, StoreInit, EmptyRecord
<1>3. \A k \in Keys : /\ ledger[k] = "none" /\ fiat[k] = "none" /\ custody[k] = "none"
                      /\ issued[k]["fiat"] = 0 /\ issued[k]["custody"] = 0 /\ wire = {}
  BY Zenon DEF Init, PartiesInit, MoneyCommands
<1>4. \A c \in Calls : phase[c] = "idle" /\ reply[c] = "none" /\ op[c] = "screen"
  BY Zenon DEF Init
<1>5. \A k \in Keys : KeyInv(k)
  <2>1. \A k \in Keys : NothingOnWire(k)
    BY <1>3, Zenon DEF NothingOnWire
  <2>a. \A k \in Keys, e \in MoneyCommands : issued[k][e] = 0
    BY <1>3, Zenon DEF MoneyCommands
  <2>b. \A k \in Keys, e \in MoneyCommands : issued[k][e] <= 1
    BY <2>a, SMTT(20)
  <2>2. \A k \in Keys : WireInv(k)
    BY <1>2, <1>3, <2>1, Zenon DEF WireInv
  <2> QED BY <1>2, <1>3, <2>b, <2>2, Zenon DEF KeyInv
<1>6. (\A c \in Calls : CallInv(c) /\ ReplyInv(c)) /\ OneOwner
  BY <1>4, Zenon DEF CallInv, ReplyInv, OneOwner, Active
<1> QED BY <1>1, <1>5, <1>6, IInvParts, Zenon

\* Every step of the coordinator and of the authorities keeps it.
LEMMA NextKeepsInv == IInv /\ [Next]_vars => IInv'
PROOF
<1> SUFFICES ASSUME IInv, [Next]_vars PROVE IInv'
  OBVIOUS
<1>1. TypeOK'
  BY TypeStep, Zenon DEF IInv
<1>2. ASSUME NEW c \in Calls, Step(c) PROVE IInv'
  BY <1>1, <1>2, NotReserved, ReservedKeepsInv, CallKeepsInv, VoidKeepsInv, AdvanceKeepsInv, MarkKeepsInv, Zenon DEF Step, Reserve
<1>3. ASSUME NEW c \in Calls, Crash(c) PROVE IInv'
  BY <1>1, <1>3, CrashKeepsInv, Zenon
<1>4. ASSUME NEW c \in Calls, NEW r \in Requests, Submit(c, r) PROVE IInv'
  BY <1>1, <1>4, SubmitKeepsInv, Zenon
<1>5. CASE Environment
  BY <1>1, <1>5, EnvironmentKeepsInv, Zenon
<1>6. CASE UNCHANGED vars
  <2>1. UNCHANGED <<saga, phase, op, req, rec, reply>> /\ UNCHANGED partyVars
    BY <1>6, Zenon DEF vars, storeVars, callVars
  <2>2. TypeOK /\ OneOwner /\ (\A d \in Calls : CallInv(d) /\ ReplyInv(d)) /\ \A j \in Keys : KeyInv(j)
    BY IInvParts, Zenon
  <2>3. (\A d \in Calls : SameCall(d)) /\ \A k : SameKey(k)
    BY <2>1, Zenon DEF SameCall, SameKey, partyVars
  <2>4. \A k \in Keys : KeyInv(k)'
    BY <2>2, <2>3, KeyFrame, Zenon
  <2>5. \A d \in Calls : CallInv(d)' /\ ReplyInv(d)'
    BY <2>1, <2>2, <2>3, CallFrame, Zenon
  <2>6. OneOwner'
    BY <2>1, <2>2, Zenon DEF OneOwner, Active
  <2> QED BY <1>1, <2>4, <2>5, <2>6, NextParts, Zenon
<1> QED BY <1>2, <1>3, <1>4, <1>5, <1>6, Zenon DEF Next

\* IInv holds in every state of the coordinator.
THEOREM Inductive == Spec => []IInv
BY InitInv, NextKeepsInv, PTL DEF Spec

\* For any number of intents, calls and store failures, a saga is SETTLED, and a
\* caller is told so, only when fiat, custody, ledger and attestation all agree.
THEOREM SettledIsSound == Spec => []SettledMeansAllFacts
PROOF
<1>1. IInv => SettledMeansAllFacts
  BY Zenon DEF IInv
<1> QED BY <1>1, Inductive, PTL

\* A held saga moved no money and no command under way can move any.
THEOREM HeldIsSafe == Spec => []HeldMeansNothingMoves
PROOF
<1>1. IInv => HeldMeansNothingMoves
  BY Zenon DEF IInv
<1> QED BY <1>1, Inductive, PTL

\* The ledger posts only completed settlements and voids only those that can no
\* longer complete.
THEOREM LedgerIsSound == Spec => []LedgerFollowsTheMoney
PROOF
<1>1. IInv => LedgerFollowsTheMoney
  BY Zenon DEF IInv
<1> QED BY <1>1, Inductive, PTL

\* No money-moving command is sent twice for one saga.
THEOREM IssuedOnce == Spec => []CommandsIssuedOnce
PROOF
<1>1. IInv => CommandsIssuedOnce
  BY Zenon DEF IInv
<1> QED BY <1>1, Inductive, PTL

\* Terminal states and the ledger agree with the money, in every state of any number of
\* racing, failing and repeated calls.
THEOREM SettlementSafe == Spec => []SettlementSafety
  BY SettledIsSound, HeldIsSafe, LedgerIsSound, PTL DEF SettlementSafety


\* When the fiat leg is persisted, and what precedes a payout.
LEMMA FiatStages ==
  ASSUME NEW o \in Ops, StageOf[o] = "fiat_submitted"
  PROVE  o \in {"collect", "payout"}
BY Zenon DEF StageOf, Ops

\* What a call persists is a legal advance of the row as it stands: the call holds
\* the current record, or it gives its saga up, which any stage that is not
\* terminal allows.
LEMMA PersistIsAdvance ==
  ASSUME IInv, NEW c \in Calls, NEW k \in Keys, req[c].key = k, NEW next, NEW refs, Active(c),
         phase[c] = "unknown" => next = "unknown", Persist(c, next, refs)
  PROVE  StoreAdvance(k, next, refs)
PROOF
<1>1. AdvanceAllowed(k, rec[c], next, refs) /\ WriteRow(k, recordWithUpdate(saga[k], next, refs))
  BY Zenon DEF Persist
<1>2. CASE phase[c] # "unknown"
  <2>1. rec[c] = saga[k]
    BY <1>2, IInvParts, Zenon DEF CallInv
  <2> QED BY <1>1, <2>1, Zenon DEF StoreAdvance
<1>3. CASE phase[c] = "unknown"
  <2>1. stageAllowsRecord(rec[c], "unknown") /\ rec[c].stage = saga[k].stage /\ rec[c].version = saga[k].version
    BY <1>1, <1>3, Zenon DEF AdvanceAllowed
  <2>2. stageAllowsRecord(saga[k], "unknown")
    BY <2>1, Zenon DEF stageAllowsRecord
  <2>3. AdvanceAllowed(k, saga[k], next, refs)
    BY <1>1, <1>3, <2>1, <2>2, Zenon DEF AdvanceAllowed
  <2> QED BY <1>1, <2>3, Zenon DEF StoreAdvance
<1> QED BY <1>2, <1>3, Zenon

\* What a step does to the store, and by which call.
StoreMove(c, k) ==
  \/ phase[c] = "reserve" /\ ReserveOwned(c)
  \/ \E o \in Ops : /\ op[c] = o /\ phase[c] = "advance"
                    /\ AdvanceOk(c) \/ AdvanceFails(c)
                    /\ Persist(c, StageOf[o], UpdateOf[o])
  \/ \E next \in {"held", "unknown"} :
       /\ phase[c] = (IF next = "held" THEN "hold" ELSE "unknown")
       /\ MarkHeld(c) \/ MarkUnknown(c)
       /\ Persist(c, next, {})

\* A step that writes to the store is a reservation, an advance or a mark of the
\* call that owns the saga.
LEMMA StoreMoves ==
  ASSUME TypeOK, Next, ~UNCHANGED storeVars
  PROVE  \E c \in Calls, k \in Keys : req[c].key = k /\ StoreMove(c, k)
PROOF
<1>1. PICK c \in Calls : ReserveOwned(c) \/ AdvanceOk(c) \/ AdvanceFails(c) \/ MarkHeld(c) \/ MarkUnknown(c)
  <2>1. ASSUME NEW c \in Calls, Call(c) PROVE UNCHANGED storeVars
    BY <2>1, Zenon DEF Call, CallCheck, CallLedger, CallFiat, CallFiatNoEffect, CallCustody, CallFinality,
       CallAttest, CallReconcile, CallAmbiguous, CallGoesTo
  <2>2. ASSUME NEW c \in Calls, VoidPending(c) \/ Crash(c) \/ ReserveExisting(c) \/ ReserveFails(c)
        PROVE  UNCHANGED storeVars
    BY <2>2, Zenon DEF VoidPending, Crash, ReserveExisting, ReserveFails
  <2>3. ASSUME NEW c \in Calls, NEW r \in Requests, Submit(c, r) PROVE UNCHANGED storeVars
    BY <2>3, Zenon DEF Submit
  <2>4. Environment => UNCHANGED storeVars
    BY Zenon DEF Environment
  <2> QED BY <2>1, <2>2, <2>3, <2>4, Zenon DEF Next, Step, Reserve
<1>2. phase[c] \notin {"idle", "done"}
  BY <1>1, Zenon DEF ReserveOwned, AdvanceOk, AdvanceFails, MarkHeld, MarkUnknown
<1>3. PICK k \in Keys : req[c].key = k
  BY <1>2, RunningKey, Zenon
<1>4. op[c] \in Ops
  BY Zenon DEF TypeOK
<1>5. StoreMove(c, k)
  <2>1. CASE ReserveOwned(c)
    BY <2>1, Zenon DEF StoreMove, ReserveOwned
  <2>2. CASE AdvanceOk(c) \/ AdvanceFails(c)
    BY <1>4, <2>2, Zenon DEF StoreMove, AdvanceOk, AdvanceFails, PersistFails
  <2>3. CASE MarkHeld(c) \/ MarkUnknown(c)
    BY <2>3, Zenon DEF StoreMove, MarkHeld, MarkUnknown, PersistFails
  <2> QED BY <1>1, <2>1, <2>2, <2>3, Zenon
<1> QED BY <1>3, <1>5, Zenon

\* Every step of the coordinator is a step of the store, or leaves it alone.
LEMMA StoreStep ==
  ASSUME IInv, [Next]_vars
  PROVE  [StoreNext]_storeVars
PROOF
<1> SUFFICES ASSUME Next, ~UNCHANGED storeVars PROVE StoreNext
  BY Zenon DEF vars
<1>1. TypeOK
  BY Zenon DEF IInv
<1>2. PICK c \in Calls, k \in Keys : req[c].key = k /\ StoreMove(c, k)
  BY <1>1, StoreMoves, Zenon
<1>3. CASE phase[c] = "reserve" /\ ReserveOwned(c)
  <2>1. req[c] \in Requests
    BY <1>1, <1>3, Zenon DEF TypeOK
  <2>2. StoreReserve(req[c])
    BY <1>3, Zenon DEF ReserveOwned, StoreReserve
  <2> QED BY <2>1, <2>2, Zenon DEF StoreNext
<1>4. ASSUME NEW o \in Ops, phase[c] = "advance", Persist(c, StageOf[o], UpdateOf[o]) PROVE StoreNext
  <2>1. StoreAdvance(k, StageOf[o], UpdateOf[o])
    BY <1>2, <1>4, PersistIsAdvance, SMTT(20) DEF Active
  <2>2. StageOf[o] \in Stages /\ UpdateOf[o] \in Updates
    BY TableTypes, RecordedUpdates, Zenon
  <2> QED BY <2>1, <2>2, Zenon DEF StoreNext
<1>5. ASSUME NEW next \in {"held", "unknown"}, phase[c] = (IF next = "held" THEN "hold" ELSE "unknown"),
             Persist(c, next, {})
      PROVE  StoreNext
  <2>1. StoreAdvance(k, next, {})
    BY <1>2, <1>5, PersistIsAdvance, SMTT(20) DEF Active
  <2>2. {} \in Updates
    BY RecordedUpdates, Zenon DEF UpdateOf, Ops
  <2>3. next \in Stages
    BY Zenon DEF Stages, TerminalStages
  <2> QED BY <2>1, <2>2, <2>3, Zenon DEF StoreNext
<1> QED BY <1>2, <1>3, <1>4, <1>5, Zenon DEF StoreMove

\* The coordinator uses the store as its contract says: every behaviour of the
\* calls of Execute is, for the saga table, a behaviour of StoreSpec.
THEOREM ImplementsStore == Spec => StoreSpec
PROOF
<1>1. Init => StoreInit
  BY Zenon DEF Init
<1>2. IInv /\ [Next]_vars => [StoreNext]_storeVars
  BY StoreStep, Zenon
<1> QED BY <1>1, <1>2, Inductive, PTL DEF Spec, StoreSpec

\* So what the store promises by itself holds while Execute runs: the event log is complete
\* evidence of each saga, and what was settled or held stays so.
THEOREM SagaKeepsStoreSafety == Spec => []StoreSafety /\ TerminalIsFinal
BY ImplementsStore, StoreSafe, StoreFinal, Zenon

-----------------------------------------------------------------------------
(* Off-ramps. *)

\* The saga of key k has persisted the finality of its redemption.
Finalised(k) == \E e \in events[k] : e.stage = "finality_confirmed"

\* What makes the order of an off-ramp inductive: a call that pays out has
\* persisted that the redemption is final, and its row names its own intent.
PaysAfterFinality(c) ==
  phase[c] \in {"call", "advance"} =>
    /\ saga[req[c].key].req = req[c]
    /\ op[c] = "payout" => Finalised(req[c].key)

\* The inductive invariant of that order, relative to IInv.
FinalityInv == OfframpFiatAfterFinality /\ \A c \in Calls : PaysAfterFinality(c)

\* Call d moves to phase p and leaves the other calls alone; it goes on asking and
\* persisting only after its answer, a reservation or a persisted answer.
Moves(d, p) ==
  /\ Goto(d, p)
  /\ \A c \in Calls \ {d} : op'[c] = op[c] /\ req'[c] = req[c]
  /\ p \in {"call", "advance"} =>
       \/ phase[d] = "call" /\ op' = op /\ req' = req
       \/ ReserveOwned(d) \/ AdvanceOk(d)

\* Every step is a move of one call or leaves the calls alone.
LEMMA EveryoneMoves ==
  ASSUME TypeOK, [Next]_vars
  PROVE  UNCHANGED <<phase, op, req>> \/ \E d \in Calls : \E p : Moves(d, p)
PROOF
<1>1. ASSUME NEW d \in Calls, Call(d) PROVE \E p : Moves(d, p)
  <2>1. \A o, p : CallGoesTo(d, o, p) => Moves(d, p)
    BY Zenon DEF CallGoesTo, Moves
  <2>2. \E o, p : CallGoesTo(d, o, p)
    BY <1>1, Zenon DEF Call, CallCheck, CallLedger, CallFiat, CallFiatNoEffect, CallCustody, CallFinality,
       CallAttest, CallReconcile, CallAmbiguous
  <2> QED BY <2>1, <2>2, Zenon
<1>2. ASSUME NEW d \in Calls, Reserve(d) PROVE \E p : Moves(d, p)
  BY <1>2, SMTT(20) DEF Reserve, ReserveOwned, ReserveExisting, ReserveFails, Return, Moves
<1>3. ASSUME NEW d \in Calls, VoidPending(d) \/ Crash(d) \/ AdvanceFails(d) \/ MarkHeld(d) \/ MarkUnknown(d)
      PROVE  \E p : Moves(d, p)
  <2>1. op' = op /\ req' = req
    BY <1>3, Zenon DEF VoidPending, Crash, AdvanceFails, MarkHeld, MarkUnknown
  <2>2. \E p \in {"hold", "unknown", "done"} : Goto(d, p)
    BY <1>3, Zenon DEF VoidPending, Crash, AdvanceFails, MarkHeld, MarkUnknown, Return
  <2> QED BY <2>1, <2>2, Zenon DEF Moves
<1>4. ASSUME NEW d \in Calls, AdvanceOk(d) PROVE \E p : Moves(d, p)
  <2>1. \E p : Goto(d, p)
    BY <1>4, Zenon DEF AdvanceOk, Return
  <2>2. \A c \in Calls \ {d} : op'[c] = op[c] /\ req'[c] = req[c]
    BY <1>4, Zenon DEF AdvanceOk, TypeOK
  <2> QED BY <1>4, <2>1, <2>2, Zenon DEF Moves
<1>5. ASSUME NEW d \in Calls, NEW r \in Requests, Submit(d, r) PROVE \E p : Moves(d, p)
  BY <1>5, SMTT(20) DEF Submit, Moves, TypeOK
<1>6. Environment \/ UNCHANGED vars => UNCHANGED <<phase, op, req>>
  BY Zenon DEF Environment, vars, callVars
<1> QED BY <1>1, <1>2, <1>3, <1>4, <1>5, <1>6, Zenon DEF Next, Step

\* The call that goes on asking and persisting did so before, has just reserved its
\* saga, or has persisted an answer.
LEMMA AskingCall ==
  ASSUME TypeOK, [Next]_vars, NEW c \in Calls, phase'[c] \in {"call", "advance"}
  PROVE  \/ phase[c] \in {"call", "advance"} /\ op'[c] = op[c] /\ req'[c] = req[c]
         \/ ReserveOwned(c) \/ AdvanceOk(c)
PROOF
<1>1. ASSUME NEW d \in Calls, NEW p, Moves(d, p)
      PROVE  \/ phase[c] \in {"call", "advance"} /\ op'[c] = op[c] /\ req'[c] = req[c]
             \/ ReserveOwned(c) \/ AdvanceOk(c)
  <2>1. phase'[d] = p /\ \A e \in Calls \ {d} : phase'[e] = phase[e]
    BY <1>1, GotoFrame, Zenon DEF Moves
  <2>2. CASE c = d
    BY <1>1, <2>1, <2>2, Zenon DEF Moves
  <2>3. CASE c # d
    BY <1>1, <2>1, <2>3, Zenon DEF Moves
  <2> QED BY <2>2, <2>3, Zenon
<1> QED BY <1>1, EveryoneMoves, Zenon

\* A row keeps its intent and its evidence.
LEMMA StoreKeeps ==
  ASSUME IInv, [Next]_vars, NEW k \in Keys
  PROVE  events[k] \subseteq events'[k] /\ (saga[k].version > 0 => saga'[k].req = saga[k].req)
PROOF
<1>1. saga \in [Keys -> Records] /\ events \in [Keys -> SUBSET [version : Nat, stage : Stages]]
  BY Zenon DEF IInv, TypeOK, StoreTypeOK
<1>2. ASSUME NEW j \in Keys, NEW r, WriteRow(j, r), saga[j].version > 0 => r.req = saga[j].req
      PROVE  events[k] \subseteq events'[k] /\ (saga[k].version > 0 => saga'[k].req = saga[k].req)
  BY <1>1, <1>2, Zenon DEF WriteRow, insertTransitionAndOutbox
<1>3. ASSUME NEW q \in Requests, StoreReserve(q)
      PROVE  q.key \in Keys /\ WriteRow(q.key, ReservedRecord(q)) /\ ~(saga[q.key].version > 0)
  BY <1>3, RequestsAssumption, SMTT(20) DEF StoreReserve, ReserveInserts
<1>4. \A rr, next, refs : recordWithUpdate(rr, next, refs).req = rr.req
  BY Zenon DEF recordWithUpdate
<1>5. [StoreNext]_storeVars
  BY StoreStep, Zenon
<1>6. CASE UNCHANGED storeVars
  BY <1>6, Zenon DEF storeVars
<1>7. CASE StoreNext
  BY <1>2, <1>3, <1>4, <1>7, SMTT(20) DEF StoreNext, StoreAdvance, StoreResolve, ResolvedRecord
<1> QED BY <1>5, <1>6, <1>7, Zenon

\* What a call that persists an answer writes.
LEMMA AdvanceWrites ==
  ASSUME TypeOK, NEW c \in Calls, NEW k \in Keys, req[c].key = k, NEW next, NEW refs, Persist(c, next, refs)
  PROVE  /\ saga'[k].stage = next
         /\ \E e \in events'[k] : e.stage = next
         /\ \A j \in Keys \ {k} : saga'[j] = saga[j] /\ events'[j] = events[j]
PROOF
<1> DEFINE r == recordWithUpdate(saga[k], next, refs)
<1>1. saga \in [Keys -> Records] /\ events \in [Keys -> SUBSET [version : Nat, stage : Stages]]
  BY Zenon DEF TypeOK, StoreTypeOK
<1>2. r.stage = next
  BY Zenon DEF recordWithUpdate
<1>3. /\ saga' = [saga EXCEPT ![k] = r]
      /\ events' = [events EXCEPT ![k] = @ \cup {[version |-> r.version, stage |-> r.stage]}]
  BY Zenon DEF Persist, WriteRow, insertTransitionAndOutbox
<1> HIDE DEF r
<1>4. saga'[k] = r /\ \A j \in Keys \ {k} : saga'[j] = saga[j] /\ events'[j] = events[j]
  BY <1>1, <1>3, Zenon
<1>5. [version |-> r.version, stage |-> r.stage] \in events'[k]
  BY <1>1, <1>3, Zenon
<1> QED BY <1>2, <1>4, <1>5, Zenon

\* The calls of a step pay out only after finality, if they did so before.
LEMMA PaysKept ==
  ASSUME IInv, FinalityInv, [Next]_vars, NEW c \in Calls
  PROVE  PaysAfterFinality(c)'
PROOF
<1> SUFFICES ASSUME phase'[c] \in {"call", "advance"} PROVE PaysAfterFinality(c)'
  BY Zenon DEF PaysAfterFinality
<1>0. ASSUME NEW k, req'[c].key = k, saga'[k].req = req'[c], op'[c] = "payout" => Finalised(k)'
      PROVE  PaysAfterFinality(c)'
  BY <1>0, Zenon DEF PaysAfterFinality, Finalised
<1>1. TypeOK /\ CallInv(c) /\ PaysAfterFinality(c)
  BY IInvParts, Zenon DEF FinalityInv
<1>2. CASE phase[c] \in {"call", "advance"} /\ op'[c] = op[c] /\ req'[c] = req[c]
  <2>1. PICK k \in Keys : req[c].key = k
    BY <1>1, <1>2, RunningKey, Zenon
  <2>2. saga[k].version > 0 /\ saga[k].req = req[c] /\ (op[c] = "payout" => Finalised(k))
    BY <1>1, <1>2, <2>1, Zenon DEF CallInv, Active, PaysAfterFinality
  <2>3. events[k] \subseteq events'[k] /\ saga'[k].req = saga[k].req
    BY <2>2, StoreKeeps, Zenon
  <2>4. Finalised(k) => Finalised(k)'
    BY <2>3, Zenon DEF Finalised
  <2> QED BY <1>0, <1>2, <2>1, <2>2, <2>3, <2>4, Zenon
<1>3. CASE ReserveOwned(c)
  <2>1. phase[c] = "reserve" /\ op' = op /\ req' = req /\ WriteRow(req[c].key, ReservedRecord(req[c]))
    BY <1>3, Zenon DEF ReserveOwned
  <2>2. PICK k \in Keys : req[c].key = k
    BY <1>1, <2>1, RunningKey, Zenon
  <2>3. saga'[k].req = req[c]
    BY <1>1, <2>1, <2>2, Zenon DEF WriteRow, ReservedRecord, TypeOK, StoreTypeOK
  <2>4. op[c] = "screen"
    BY <1>1, <2>1, Zenon DEF CallInv
  <2> QED BY <1>0, <2>1, <2>2, <2>3, <2>4, Zenon
<1>4. CASE AdvanceOk(c)
  <2>1. phase[c] = "advance" /\ req' = req /\ Persist(c, StageOf[op[c]], UpdateOf[op[c]])
    BY <1>4, Zenon DEF AdvanceOk
  <2>2. PICK k \in Keys : req[c].key = k
    BY <1>1, <2>1, RunningKey, Zenon
  <2>3. PICK o \in Ops : op[c] = o
    BY <1>1, Zenon DEF TypeOK
  <2>4. op'[c] = NextOp(req[c].direction, o)
    BY <1>1, <1>4, <2>3, Zenon DEF AdvanceOk, TypeOK
  <2>5. op'[c] = "payout" => StageOf[o] = "finality_confirmed"
    BY <2>4, Zenon DEF NextOp, StageOf, Ops
  <2>6. saga[k].version > 0 /\ saga[k].req = req[c]
    BY <1>1, <2>1, <2>2, Zenon DEF CallInv, Active, PaysAfterFinality
  <2>7. saga'[k].req = saga[k].req
    BY <2>6, StoreKeeps, Zenon
  <2>8. \E e \in events'[k] : e.stage = StageOf[o]
    BY <1>1, <2>1, <2>2, <2>3, AdvanceWrites, SMTT(20)
  <2>9. op'[c] = "payout" => Finalised(k)'
    BY <2>5, <2>8, Zenon DEF Finalised
  <2> QED BY <1>0, <2>1, <2>2, <2>6, <2>7, <2>9, Zenon
<1> QED BY <1>1, <1>2, <1>3, <1>4, AskingCall, Zenon

\* A row that a step writes has its payout after its finality.
LEMMA OrderKept ==
  ASSUME IInv, FinalityInv, [Next]_vars
  PROVE  OfframpFiatAfterFinality'
PROOF
<1> DEFINE Ordered(k) == saga[k].req.direction = "offramp" /\ saga[k].stage = "fiat_submitted" => Finalised(k)
<1>0. OfframpFiatAfterFinality <=> \A k \in Keys : Ordered(k)
  BY Zenon DEF OfframpFiatAfterFinality, Finalised
<1>00. (\A k \in Keys : Ordered(k)') => OfframpFiatAfterFinality'
  BY Zenon DEF OfframpFiatAfterFinality, Finalised
<1>1. \A k \in Keys : saga'[k] = saga[k] => Ordered(k)'
  BY <1>0, StoreKeeps, Zenon DEF FinalityInv, Finalised
<1>2. CASE UNCHANGED storeVars
  BY <1>00, <1>1, <1>2, Zenon DEF storeVars
<1>3. CASE Next /\ ~UNCHANGED storeVars
  <2>1. TypeOK
    BY Zenon DEF IInv
  <2>2. PICK c \in Calls, k \in Keys : req[c].key = k /\ StoreMove(c, k)
    BY <1>3, <2>1, StoreMoves, Zenon
  <2>3. CASE phase[c] = "reserve" /\ ReserveOwned(c)
    <3>1. saga'[k].stage = "received" /\ \A j \in Keys \ {k} : saga'[j] = saga[j]
      BY <2>1, <2>2, <2>3, Zenon DEF ReserveOwned, WriteRow, ReservedRecord, TypeOK, StoreTypeOK
    <3> QED BY <1>00, <1>1, <3>1, Zenon
  <2>4. ASSUME NEW o \in Ops, op[c] = o, phase[c] = "advance", Persist(c, StageOf[o], UpdateOf[o])
        PROVE  OfframpFiatAfterFinality'
    <3>1. saga'[k].stage = StageOf[o] /\ \A j \in Keys \ {k} : saga'[j] = saga[j]
      BY <2>1, <2>2, <2>4, AdvanceWrites, SMTT(20)
    <3>2. StageOf[o] = "fiat_submitted" => o \in {"collect", "payout"}
      BY FiatStages, Zenon
    <3>3. saga[k].version > 0 /\ CallMatchesParties(c)
      BY <2>2, <2>4, IInvParts, Zenon DEF CallInv, Active
    <3>4. saga[k].req = req[c] /\ (o = "payout" => Finalised(k))
      BY <2>2, <2>4, Zenon DEF FinalityInv, PaysAfterFinality
    <3>5. events[k] \subseteq events'[k] /\ saga'[k].req = saga[k].req
      BY <3>3, StoreKeeps, Zenon
    <3>6. o = "collect" => saga'[k].req.direction # "offramp"
      BY <2>4, <3>3, <3>4, <3>5, Zenon DEF CallMatchesParties
    <3>7. o = "payout" => Finalised(k)'
      BY <3>4, <3>5, Zenon DEF Finalised
    <3>8. Ordered(k)'
      BY <3>1, <3>2, <3>6, <3>7, Zenon
    <3> QED BY <1>00, <1>1, <3>1, <3>8, Zenon
  <2>5. ASSUME NEW next \in {"held", "unknown"}, Persist(c, next, {})
        PROVE  OfframpFiatAfterFinality'
    <3>1. saga'[k].stage = next /\ \A j \in Keys \ {k} : saga'[j] = saga[j]
      BY <2>1, <2>2, <2>5, AdvanceWrites, Zenon
    <3>2. Ordered(k)'
      BY <3>1, Zenon
    <3> QED BY <1>00, <1>1, <3>1, <3>2, Zenon
  <2> QED BY <2>2, <2>3, <2>4, <2>5, Zenon DEF StoreMove
<1> QED BY <1>2, <1>3, Zenon DEF vars

\* An off-ramp's fiat leg is persisted only after its redemption was persisted as
\* final, whatever other calls, crashes and lost answers do: Execute asks in this
\* order, and no second call can persist for the same saga.
THEOREM FiatAfterFinality == Spec => []OfframpFiatAfterFinality
PROOF
<1>1. Init => FinalityInv
  BY SMTT(20) DEF Init, StoreInit, EmptyRecord, FinalityInv, OfframpFiatAfterFinality, PaysAfterFinality
<1>2. IInv /\ FinalityInv /\ [Next]_vars => FinalityInv'
  BY PaysKept, OrderKept, Zenon DEF FinalityInv
<1>3. FinalityInv => OfframpFiatAfterFinality
  BY Zenon DEF FinalityInv
<1> QED BY <1>1, <1>2, <1>3, Inductive, PTL DEF Spec
=============================================================================
