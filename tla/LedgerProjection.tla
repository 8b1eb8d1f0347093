-------------------------- MODULE LedgerProjection --------------------------
(***************************************************************************)
(* The way of one transfer from the payment engine to the control plane's  *)
(* table of ledger facts: PostingService posts it to TigerBeetle, stamps   *)
(* the fact with its own clock, signs a projection request, and the        *)
(* control plane stores the fact once.  Two workers may post the same      *)
(* transfer, an answer may be lost, a request may arrive after its sender  *)
(* gave up, and a failed posting is tried again from the start.            *)
(***************************************************************************)
EXTENDS Naturals

CONSTANTS
  Posters,     \* workers that post the transfer
  PostAmounts, \* amounts they may ask for (the request of one transfer id)
  TransferIds, \* 64-bit transfer ids derived by the engine
  MaxBigint,   \* largest id the BIGINT column holds
  MaxTime,     \* bound: clock
  MaxAge       \* accepted age of a signature

ASSUME ProjectionAssumption ==
  TransferIds \subseteq Nat \ {0} /\ PostAmounts \subseteq Nat \ {0} /\ MaxTime \in Nat /\ MaxAge \in Nat

VARIABLES
  transferId,  \* the transfer's id
  ledgerClock, \* time
  tigerbeetle, \* amount of the transfer TigerBeetle holds, 0 before
  bindings,    \* both accounts are bound, in the transfer's currency
  posting,     \* worker -> its attempt
  wire,        \* signed projection requests under way
  fact         \* the row of tigerbeetle_transfer_facts

projectionVars == <<transferId, ledgerClock, tigerbeetle, bindings, posting, wire, fact>>

NotPosting == [step |-> "idle", amount |-> 0, postedAt |-> 0]
NoFact == [amount |-> 0, postedAt |-> 0, evidence |-> <<0, 0>>]
Stored == fact # NoFact

(* The digest covers the time of posting as well as the transfer.          *)
EvidenceDigest(amount, postedAt) == <<amount, postedAt>>

ProjectionInit ==
  /\ transferId \in TransferIds
  /\ ledgerClock = 0 /\ tigerbeetle = 0 /\ bindings \in BOOLEAN
  /\ posting = [w \in Posters |-> NotPosting]
  /\ wire = {}
  /\ fact = NoFact

-----------------------------------------------------------------------------
(* The payment engine.                                                     *)

Ended(w) == posting[w].step \in {"idle", "projected", "pending", "refused", "mismatch"}

(* postTransfer up to the projection: TigerBeetle creates the transfer or  *)
(* finds exactly it; anything else is refused.  The fact is stamped now.   *)
PostTransfer(w, a) ==
  /\ Ended(w) /\ posting[w].step # "projected"
  /\ IF tigerbeetle \in {0, a}
     THEN /\ tigerbeetle' = a
          /\ posting' = [posting EXCEPT ![w] = [step |-> "posted", amount |-> a, postedAt |-> ledgerClock]]
     ELSE /\ posting' = [posting EXCEPT ![w] = [step |-> "refused", amount |-> a, postedAt |-> 0]]
          /\ UNCHANGED tigerbeetle
  /\ UNCHANGED <<transferId, ledgerClock, bindings, wire, fact>>

(* ProjectPostedTransfer: the request is signed with its own timestamp.    *)
ProjectPostedTransfer(w) ==
  /\ posting[w].step = "posted"
  /\ wire' = wire \cup {[sender |-> w, amount |-> posting[w].amount,
                         postedAt |-> posting[w].postedAt, signedAt |-> ledgerClock]}
  /\ posting' = [posting EXCEPT ![w].step = "sent"]
  /\ UNCHANGED <<transferId, ledgerClock, tigerbeetle, bindings, fact>>

(* No answer within the client's timeout: "confirmed but projection is     *)
(* pending".  The request may still be under way.                          *)
AnswerLost(w) ==
  /\ posting[w].step = "sent"
  /\ posting' = [posting EXCEPT ![w].step = "pending"]
  /\ UNCHANGED <<transferId, ledgerClock, tigerbeetle, bindings, wire, fact>>

-----------------------------------------------------------------------------
(* The control plane.                                                      *)

VerifyRequest(r) == ledgerClock - r.signedAt <= MaxAge

(* Plausible bug: a conflicting row is overwritten.                        *)
RecordProjectionUpsert(r) ==
  IF ~bindings THEN [row |-> fact, answer |-> "pending"]
  ELSE [row |-> [amount |-> r.amount, postedAt |-> r.postedAt,
                 evidence |-> EvidenceDigest(r.amount, r.postedAt)], answer |-> "projected"]

(* recordInternalLedgerProjection: bound accounts, an id that fits the     *)
(* column, then insert if absent; a stored row must carry the same         *)
(* evidence.                                                               *)
RecordInternalLedgerProjection(r) ==
  IF ~bindings \/ transferId > MaxBigint THEN [row |-> fact, answer |-> "pending"]
  ELSE IF ~Stored
  THEN [row |-> [amount |-> r.amount, postedAt |-> r.postedAt,
                 evidence |-> EvidenceDigest(r.amount, r.postedAt)], answer |-> "projected"]
  ELSE IF fact.amount # r.amount \/ fact.evidence # EvidenceDigest(r.amount, r.postedAt)
  THEN [row |-> fact, answer |-> "mismatch"]
  ELSE [row |-> fact, answer |-> "projected"]

(* The handler of one request; the answer reaches a sender that waits.     *)
RegisterInternalLedgerProjection(r) ==
  /\ r \in wire
  /\ wire' = wire \ {r}
  /\ LET outcome == IF VerifyRequest(r) THEN RecordInternalLedgerProjection(r)
                    ELSE [row |-> fact, answer |-> "pending"]
     IN  /\ fact' = outcome.row
         /\ posting' = IF posting[r.sender].step = "sent" /\ posting[r.sender].postedAt = r.postedAt
                       THEN [posting EXCEPT ![r.sender].step = outcome.answer] ELSE posting
  /\ UNCHANGED <<transferId, ledgerClock, tigerbeetle, bindings>>

BindingsRecorded ==
  /\ ~bindings /\ bindings' = TRUE
  /\ UNCHANGED <<transferId, ledgerClock, tigerbeetle, posting, wire, fact>>

TimePasses ==
  /\ ledgerClock < MaxTime /\ ledgerClock' = ledgerClock + 1
  /\ UNCHANGED <<transferId, tigerbeetle, bindings, posting, wire, fact>>

ProjectionNext ==
  \/ \E w \in Posters, a \in PostAmounts : PostTransfer(w, a)
  \/ \E w \in Posters : ProjectPostedTransfer(w) \/ AnswerLost(w)
  \/ \E r \in wire : RegisterInternalLedgerProjection(r)
  \/ BindingsRecorded \/ TimePasses

ProjectionSpec == ProjectionInit /\ [][ProjectionNext]_projectionVars

-----------------------------------------------------------------------------
(* Amounts, steps and rows.                                                *)
ProjectionTypeOK ==
  /\ transferId \in TransferIds /\ tigerbeetle \in PostAmounts \cup {0} /\ bindings \in BOOLEAN
  /\ \A w \in Posters : posting[w].step \in
       {"idle", "posted", "sent", "projected", "pending", "refused", "mismatch"}
  /\ \A r \in wire : r.sender \in Posters /\ r.amount \in PostAmounts

(* The stored fact is the transfer TigerBeetle holds: whatever order the   *)
(* workers post in and the requests arrive in, none of them projects a     *)
(* transfer that was refused or that differs from the one in the ledger.   *)
FactMirrorsTransfer == Stored => fact.amount = tigerbeetle

(* A worker is told that the projection succeeded only when the fact it    *)
(* posted is stored.                                                       *)
SuccessMeansStored ==
  \A w \in Posters : posting[w].step = "projected" => Stored /\ fact.amount = posting[w].amount

(* A stored fact is immutable accounting evidence: no retry, duplicate or  *)
(* late request rewrites it.                                               *)
FactNeverRewritten == Stored => fact' = fact

\* Every step leaves the stored fact a mirror of the transfer, tells the poster the
\* truth about it, and never rewrites it (posting.go, internalLedgerProjection.ts).
ProjectionSafety ==
  [][/\ ProjectionTypeOK' /\ FactMirrorsTransfer' /\ SuccessMeansStored'
     /\ FactNeverRewritten]_projectionVars
=============================================================================
