----------------------- MODULE PaymentPlatformProofs ------------------------
(***************************************************************************)
(* Payments over two rails and payment orders, for any processes, keys,    *)
(* digests, deliveries, locks and rates. First the part of the inductive   *)
(* invariant RailInv about the rails and the coordinators (PaymentInv):    *)
(* each of their steps keeps it and lets the books only grow. Then the     *)
(* queue of unknown outcomes and those who decide them keep the other part *)
(* (DecisionInv), so that RailSafety holds. Last, payment orders are       *)
(* drafted on locked rates as the quote contract says.                     *)
(***************************************************************************)
EXTENDS ProviderReconciliation, PaymentDrafting, TLAPS

\* The requests of the handler.
CallRecords == [phase : Phases, of : Deliveries \cup {NoDelivery}, reply : Replies]

\* c carries out the payment of its key in its process.
Leading(c) == call[c].phase \in {"primary", "query", "secondary"}

\* A call that has begun serves a delivery.
CallInv(c) ==
  /\ call[c].phase = "idle" => call[c].reply = "none"
  /\ call[c].phase # "idle" => call[c].of \in Deliveries

\* While a call leads, the coordinator holds its key in flight; before its submission none
\* was made.
LeadInv(c) ==
  /\ Leading(c) => memory[call[c].of.process][call[c].of.key].state = "inflight"
  /\ call[c].phase = "primary" => submitted[call[c].of.process][call[c].of.key] = 0

\* One call leads per process and key.
OneLeader ==
  \A c, e \in Calls :
    /\ Leading(c) /\ Leading(e)
    /\ call[c].of.process = call[e].of.process /\ call[c].of.key = call[e].of.key
    => c = e

\* What a process remembers of a key: nothing before the first submission, and an
\* acceptance only of what is booked.
MemoryInv(p, k) ==
  /\ memory[p][k].state = "none" => submitted[p][k] = 0
  /\ memory[p][k].state \in Rails => books[memory[p][k].state][k] # "none"

\* The secondary rail is used, or about to be, only where the primary has refused for good.
FallbackInv(k) ==
  \/ books["secondary"][k] # "none" \/ <<"secondary", k>> \in wire
  \/ \E c \in Calls : call[c].phase = "secondary" /\ call[c].of.key = k
  => books["primary"][k] = "refused"

\* What a worker is about to record is what the primary provider holds.
WorkerInv(w) ==
  /\ worker[w].phase # "idle" => worker[w].key \in Keys
  /\ worker[w].phase = "decide" =>
       /\ worker[w].decision # "none"
       /\ worker[w].decision = "provider_accepted" => books["primary"][worker[w].key] # "none"
       /\ worker[w].decision = "confirmed_non_submission" => books["primary"][worker[w].key] = "refused"

\* No lease and no decision without a row; the row is resolved with the first decision, and
\* while none is awaiting there is one, of the attempt that was claimed last.
RowInv(k) ==
  LET all == {d \in decisions : d.key = k}
  IN /\ ~queue[k].present => queue[k].lease = "none" /\ ~queue[k].resolved
     /\ queue[k].resolved <=> all # {}
     /\ (\A d \in all : d.decision # "awaiting") =>
          \A d, e \in all : d = e /\ d.attempt = queue[k].attempts

\* The types of the rails and the coordinators.
RailTypeOK ==
  /\ books \in [Rails -> [Keys -> Books]] /\ wire \subseteq Rails \X Keys
  /\ memory \in [Processes -> [Keys -> Memory]] /\ call \in [Calls -> CallRecords]
  /\ submitted \in [Processes -> [Keys -> Nat]] /\ restarts \in 0 .. MaxRestarts

\* The types of the queue and of those who work on it.
WorkTypeOK ==
  /\ queue \in [Keys -> Rows] /\ decisions \subseteq Decisions
  /\ worker \in [Workers -> WorkerStates] /\ batch \in [Batches -> BatchStates]
  /\ faults \in 0 .. MaxFaults

\* The calls and what their processes remember agree.
Coordination ==
  /\ \A c \in Calls : CallInv(c) /\ LeadInv(c)
  /\ OneLeader
  /\ \A p \in Processes, k \in Keys : MemoryInv(p, k)

\* The payments: the rails and the coordinators.
PaymentInv ==
  /\ RailTypeOK /\ Coordination
  /\ SubmittedOncePerProcess /\ AcceptedMeansBooked
  /\ \A k \in Keys : FallbackInv(k)

\* The decisions: the queue and who works on it.
DecisionInv ==
  /\ WorkTypeOK /\ DecisionsMatchPrimary
  /\ \A k \in Keys : RowInv(k)
  /\ \A w \in Workers : WorkerInv(w)

\* The inductive invariant of failover and reconciliation.
RailInv == PaymentInv /\ DecisionInv

\* What an adapter's answer says of the book entry.
LEMMA NormalizedSays ==
  ASSUME NEW b \in Books, NEW answer \in Normalized(b)
  PROVE  /\ answer \in {"accepted", "noEffect", "unknown", "failed", "error"}
         /\ answer = "noEffect" => b = "refused"
         /\ answer = "accepted" => b # "none"
BY Zenon DEF Normalized, Books, normalizeYellowCardResult, normalizeNigerianRailResult,
   normalizeMojaloopTransferState, validateStablecoinResponse

\* A book entry is recorded for one rail and key.
LEMMA RecordEffect ==
  ASSUME RailTypeOK, NEW r \in Rails, NEW k \in Keys, NEW b \in Books, Record(r, k, b)
  PROVE  /\ books' \in [Rails -> [Keys -> Books]] /\ books'[r][k] = b
         /\ \A q \in Rails, j \in Keys : <<q, j>> # <<r, k>> => books'[q][j] = books[q][j]
PROOF
<1>1. books \in [Rails -> [Keys -> Books]]
  BY Zenon DEF RailTypeOK
<1>2. books' = [books EXCEPT ![r] = [books[r] EXCEPT ![k] = b]]
  BY <1>1, Zenon DEF Record
<1>3. books'[r] = [books[r] EXCEPT ![k] = b] /\ \A q \in Rails \ {r} : books'[q] = books[q]
  BY <1>1, <1>2, Zenon
<1>4. books' \in [Rails -> [Keys -> Books]]
  BY <1>1, <1>2, Zenon
<1> QED BY <1>1, <1>3, <1>4, Zenon

\* A call changes its phase.
LEMMA GotoEffect ==
  ASSUME RailTypeOK, NEW c \in Calls, NEW p \in Phases, Goto(c, p)
  PROVE  /\ call' \in [Calls -> CallRecords]
         /\ call'[c].phase = p /\ call'[c].of = call[c].of /\ call'[c].reply = call[c].reply
         /\ \A e \in Calls \ {c} : call'[e] = call[e]
PROOF
<1>1. call \in [Calls -> CallRecords]
  BY Zenon DEF RailTypeOK
<1>2. call' = [call EXCEPT ![c] = [call[c] EXCEPT !.phase = p]]
  BY <1>1, Zenon DEF Goto
<1>3. [call[c] EXCEPT !.phase = p] \in CallRecords
  BY <1>1, Zenon DEF CallRecords
<1> QED BY <1>1, <1>2, <1>3, Zenon DEF CallRecords

\* A call is answered.
LEMMA AnsweredEffect ==
  ASSUME NEW entry \in CallRecords, NEW outcome \in Outcomes
  PROVE  /\ Answered(entry, outcome) \in CallRecords
         /\ Answered(entry, outcome).phase \in {"enqueue", "done"}
         /\ Answered(entry, outcome).of = entry.of /\ Answered(entry, outcome).reply = outcome
BY Zenon DEF Answered, CallRecords, Phases, Replies

\* The leader records what Execute returned, and is answered.
LEMMA FinishEffect ==
  ASSUME RailTypeOK, NEW c \in Calls, NEW p \in Processes, NEW k \in Keys, NEW outcome \in Outcomes,
         call[c].of.process = p, call[c].of.key = k, finish(c, outcome)
  PROVE  /\ call' \in [Calls -> CallRecords]
         /\ call'[c].phase \in {"enqueue", "done"} /\ call'[c].of = call[c].of /\ call'[c].reply = outcome
         /\ \A e \in Calls \ {c} : call'[e] = call[e]
         /\ memory' \in [Processes -> [Keys -> Memory]] /\ memory'[p][k].state = outcome
         /\ \A q \in Processes, j \in Keys : <<q, j>> # <<p, k>> => memory'[q][j] = memory[q][j]
PROOF
<1>1. call \in [Calls -> CallRecords] /\ memory \in [Processes -> [Keys -> Memory]]
  BY Zenon DEF RailTypeOK
<1>2. call' = [call EXCEPT ![c] = Answered(call[c], outcome)]
  BY Zenon DEF finish
<1>3. /\ call' \in [Calls -> CallRecords]
      /\ call'[c].phase \in {"enqueue", "done"} /\ call'[c].of = call[c].of /\ call'[c].reply = outcome
      /\ \A e \in Calls \ {c} : call'[e] = call[e]
  BY <1>1, <1>2, AnsweredEffect, Zenon
<1> DEFINE m == [memory[p][k] EXCEPT !.state = outcome]
<1>4. memory' = [memory EXCEPT ![p] = [memory[p] EXCEPT ![k] = m]]
  BY <1>1, Zenon DEF finish
<1>5. m \in Memory /\ m.state = outcome
  BY <1>1, SMTT(20) DEF Memory
<1> HIDE DEF m
<1>6. memory' \in [Processes -> [Keys -> Memory]] /\ memory'[p][k] = m
      /\ \A q \in Processes, j \in Keys : <<q, j>> # <<p, k>> => memory'[q][j] = memory[q][j]
  BY <1>1, <1>4, <1>5, Zenon
<1> QED BY <1>3, <1>5, <1>6, Zenon


-----------------------------------------------------------------------------
(* What a step of a rail or of the coordinator may do. *)

\* A provider's record stays a record, a refusal stays a refusal.
BooksGrow ==
  \A r \in Rails, k \in Keys :
    /\ books[r][k] # "none" => books'[r][k] # "none"
    /\ books[r][k] = "refused" => books'[r][k] = "refused"

\* Whatever newly reaches the secondary rail is refused by the primary.
FallbackMoves ==
  \A k \in Keys :
    <<"secondary", k>> \in wire' \/ books'["secondary"][k] # "none" =>
      \/ <<"secondary", k>> \in wire \/ books["secondary"][k] # "none"
      \/ books'["primary"][k] = "refused"

\* A call serving key k in process p touches no other call and no other key.
CallFrame(c, p, k) ==
  /\ call'[c].phase # "idle" /\ call'[c].of \in Deliveries
  /\ call'[c].of.process = p /\ call'[c].of.key = k /\ (Leading(c) => call[c].of = call'[c].of)
  /\ \A e \in Calls \ {c} : call'[e] = call[e]
  /\ \A q \in Processes, j \in Keys :
       <<q, j>> # <<p, k>> => memory'[q][j] = memory[q][j] /\ submitted'[q][j] = submitted[q][j]

\* Nobody but c leads for key k in process p.
Alone(c, p, k) == Leading(c) \/ memory[p][k].state = "none"

\* Only a leader submits and changes what its process remembers, and it never forgets; the
\* secondary rail comes after a refusal, an acceptance is booked.
CallMoves(c, p, k) ==
  /\ \/ memory'[p][k] = memory[p][k] /\ submitted'[p][k] = submitted[p][k]
     \/ Alone(c, p, k) /\ memory'[p][k].state # "none" /\ submitted'[p][k] <= 1
  /\ Leading(c)' => Alone(c, p, k) /\ memory'[p][k].state = "inflight"
  /\ call'[c].phase = "primary" => submitted'[p][k] = 0
  /\ memory'[p][k].state \in Rails =>
       memory'[p][k] = memory[p][k] \/ books'[memory'[p][k].state][k] # "none"
  /\ call'[c].reply \in Rails => books'[call'[c].reply][k] # "none"
  /\ call'[c].phase = "secondary" => books'["primary"][k] = "refused"

\* The request of a call that has begun.
LEMMA Served ==
  ASSUME RailTypeOK, NEW c \in Calls, CallInv(c), call[c].phase # "idle"
  PROVE  call[c].of.process \in Processes /\ call[c].of.key \in Keys /\ call[c].of.digest \in Digests
BY RailAssumption, Zenon DEF CallInv

\* A rail that answers a submission records it, and a key that is in its books stays as it is.
LEMMA ReceivedGrows ==
  ASSUME RailTypeOK, NEW r \in Rails, NEW k \in Keys, NEW b \in Received(r, k), Record(r, k, b)
  PROVE  /\ b \in Books /\ b # "none" /\ BooksGrow
         /\ books' \in [Rails -> [Keys -> Books]] /\ books'[r][k] = b
         /\ \A q \in Rails, j \in Keys : <<q, j>> # <<r, k>> => books'[q][j] = books[q][j]
PROOF
<1>1. books[r][k] \in Books
  BY Zenon DEF RailTypeOK
<1>2. b \in Books /\ b # "none" /\ (books[r][k] # "none" => b = books[r][k])
  BY <1>1, Zenon DEF Received, Books
<1>3. /\ books' \in [Rails -> [Keys -> Books]] /\ books'[r][k] = b
      /\ \A q \in Rails, j \in Keys : <<q, j>> # <<r, k>> => books'[q][j] = books[q][j]
  BY <1>2, RecordEffect, Zenon
<1>4. BooksGrow
  <2>1. SUFFICES ASSUME NEW q \in Rails, NEW j \in Keys
                 PROVE  /\ books[q][j] # "none" => books'[q][j] # "none"
                        /\ books[q][j] = "refused" => books'[q][j] = "refused"
    BY Zenon DEF BooksGrow
  <2>2. CASE q = r /\ j = k
    BY <2>2, <1>2, <1>3, Zenon
  <2>3. CASE ~(q = r /\ j = k)
    BY <2>3, <1>3, Zenon
  <2> QED BY <2>2, <2>3, Zenon
<1> QED BY <1>2, <1>3, <1>4, Zenon

\* The calls, the leaders, the memory and the fallback after a call has moved.
LEMMA CallMovesKeeps ==
  ASSUME PaymentInv, RailTypeOK', BooksGrow, FallbackMoves, NEW c \in Calls,
         NEW p \in Processes, NEW k \in Keys, CallFrame(c, p, k), CallMoves(c, p, k)
  PROVE  PaymentInv'
PROOF
<1>1. /\ RailTypeOK /\ OneLeader /\ \A e \in Calls : CallInv(e) /\ LeadInv(e)
      /\ \A j \in Keys : FallbackInv(j)
  BY Zenon DEF PaymentInv, Coordination
<1>2. \A e \in Calls \ {c} : call'[e] = call[e]
  BY Zenon DEF CallFrame
<1>3. \A q \in Processes, j \in Keys :
        <<q, j>> # <<p, k>> => memory'[q][j] = memory[q][j] /\ submitted'[q][j] = submitted[q][j]
  BY Zenon DEF CallFrame
<1>4. \/ memory'[p][k] = memory[p][k] /\ submitted'[p][k] = submitted[p][k]
      \/ Alone(c, p, k) /\ memory'[p][k].state # "none" /\ submitted'[p][k] <= 1
  BY Zenon DEF CallMoves
<1>5. ASSUME NEW e \in Calls \ {c}, Leading(e)
      PROVE  /\ call[e].of.process \in Processes /\ call[e].of.key \in Keys
             /\ Alone(c, p, k) => <<call[e].of.process, call[e].of.key>> # <<p, k>>
  <2>1. CallInv(e) /\ LeadInv(e) /\ call[e].phase # "idle"
    BY <1>1, <1>5, Zenon DEF Leading
  <2>2. Leading(c) => call[c].of.process = p /\ call[c].of.key = k
    BY Zenon DEF CallFrame
  <2> QED BY <1>1, <1>5, <2>1, <2>2, Served, Zenon DEF Alone, OneLeader, LeadInv
<1>6. ASSUME NEW e \in Calls
      PROVE  CallInv(e)' /\ LeadInv(e)'
  <2>1. CASE e = c
    BY <2>1, Zenon DEF CallInv, LeadInv, CallFrame, CallMoves
  <2>2. CASE e # c /\ ~Leading(e)
    <3>1. call'[e] = call[e] /\ CallInv(e)
      BY <2>2, <1>1, <1>2, Zenon
    <3> QED BY <2>2, <3>1, Zenon DEF CallInv, LeadInv, Leading
  <2>3. CASE e # c /\ Leading(e)
    <3>1. call'[e] = call[e] /\ CallInv(e) /\ LeadInv(e)
      BY <2>3, <1>1, <1>2, Zenon
    <3> DEFINE q == call[e].of.process
               j == call[e].of.key
    <3>2. q \in Processes /\ j \in Keys /\ (Alone(c, p, k) => <<q, j>> # <<p, k>>)
      BY <2>3, <1>5, Zenon
    <3>3. memory'[q][j] = memory[q][j] /\ submitted'[q][j] = submitted[q][j]
      <4> HIDE DEF q, j
      <4> QED BY <3>2, <1>3, <1>4, Zenon
    <3> QED BY <3>1, <3>3, Zenon DEF CallInv, LeadInv, Leading
  <2> QED BY <2>1, <2>2, <2>3, Zenon
<1>7. OneLeader'
  <2>1. Leading(c)' => Alone(c, p, k)
    BY Zenon DEF CallMoves
  <2>2. call'[c].of.process = p /\ call'[c].of.key = k
    BY Zenon DEF CallFrame
  <2> QED BY <1>1, <1>2, <1>5, <2>1, <2>2, SMTT(20) DEF OneLeader, Leading
<1>8. ASSUME NEW q \in Processes, NEW j \in Keys
      PROVE  MemoryInv(q, j)' /\ submitted'[q][j] <= 1
  <2>1. MemoryInv(q, j) /\ submitted[q][j] <= 1
    BY Zenon DEF PaymentInv, Coordination, SubmittedOncePerProcess
  <2>2. CASE memory'[q][j] = memory[q][j] /\ submitted'[q][j] = submitted[q][j]
    BY <2>1, <2>2, Zenon DEF MemoryInv, BooksGrow
  <2>3. CASE q = p /\ j = k /\ memory'[p][k].state # "none" /\ submitted'[p][k] <= 1
    BY <2>1, <2>3, Zenon DEF MemoryInv, BooksGrow, CallMoves
  <2> QED BY <2>2, <2>3, <1>3, <1>4, Zenon
<1>9. ASSUME NEW e \in Calls, call'[e].reply \in Rails
      PROVE  books'[call'[e].reply][call'[e].of.key] # "none"
  <2>1. CASE e = c
    BY <2>1, <1>9, Zenon DEF CallMoves, CallFrame
  <2>2. CASE e # c
    <3>1. call'[e] = call[e] /\ call[e].phase # "idle" /\ CallInv(e)
      BY <2>2, <1>1, <1>2, <1>9, Zenon DEF CallInv, Rails
    <3>2. call[e].of.key \in Keys
      BY <3>1, <1>1, Served, Zenon
    <3>3. books[call[e].reply][call[e].of.key] # "none"
      BY <3>1, <1>9, Zenon DEF PaymentInv, AcceptedMeansBooked
    <3> QED BY <3>1, <3>2, <3>3, <1>9, Zenon DEF BooksGrow
  <2> QED BY <2>1, <2>2, Zenon
<1>10. ASSUME NEW j \in Keys
       PROVE  FallbackInv(j)'
  <2>1. CASE <<"secondary", j>> \in wire' \/ books'["secondary"][j] # "none"
    BY <2>1, <1>1, Zenon DEF FallbackInv, FallbackMoves, BooksGrow, Rails
  <2>2. ASSUME NEW e \in Calls, call'[e].phase = "secondary", call'[e].of.key = j
        PROVE  books'["primary"][j] = "refused"
    <3>1. CASE e = c
      BY <2>2, <3>1, Zenon DEF CallFrame, CallMoves
    <3>2. CASE e # c
      <4>1. books["primary"][j] = "refused"
        BY <2>2, <3>2, <1>1, <1>2, Zenon DEF FallbackInv
      <4> QED BY <4>1, Zenon DEF BooksGrow, Rails
    <3> QED BY <3>1, <3>2, Zenon
  <2> QED BY <2>1, <2>2, Zenon DEF FallbackInv
<1> QED BY <1>6, <1>7, <1>8, <1>9, <1>10, Zenon
        DEF PaymentInv, Coordination, SubmittedOncePerProcess, AcceptedMeansBooked

\* Nothing happens on the rails.
LEMMA QuietRails ==
  ASSUME UNCHANGED railVars
  PROVE  BooksGrow /\ FallbackMoves
BY Zenon DEF railVars, BooksGrow, FallbackMoves

\* The request of a leader.
LEMMA LeaderServes ==
  ASSUME PaymentInv, NEW c \in Calls, Leading(c)
  PROVE  /\ call[c].of \in Deliveries
         /\ \E p \in Processes, k \in Keys : call[c].of.process = p /\ call[c].of.key = k
PROOF
<1>1. call[c].of \in Deliveries
  BY Zenon DEF Leading, PaymentInv, Coordination, CallInv
<1> QED BY <1>1, RailAssumption, Zenon

\* A call that leads nowhere is answered, or waits: it shares what the process remembers.
LEMMA SharesKeeps ==
  ASSUME PaymentInv, NEW c \in Calls, ~Leading(c), NEW e \in CallRecords, e.of \in Deliveries,
         call' = [call EXCEPT ![c] = e], e.phase \in {"wait", "enqueue", "done"},
         e.reply \in Rails => memory[e.of.process][e.of.key].state = e.reply,
         UNCHANGED <<memory, submitted, restarts, railVars>>
  PROVE  PaymentInv' /\ BooksGrow
PROOF
<1>1. RailTypeOK /\ call \in [Calls -> CallRecords]
  BY Zenon DEF PaymentInv, RailTypeOK
<1>2. PICK p \in Processes, k \in Keys : e.of.process = p /\ e.of.key = k
  BY RailAssumption, Zenon
<1>3. call' \in [Calls -> CallRecords] /\ call'[c] = e /\ \A f \in Calls \ {c} : call'[f] = call[f]
  BY <1>1, Zenon
<1>4. RailTypeOK'
  BY <1>1, <1>3, Zenon DEF RailTypeOK, railVars
<1>5. CallFrame(c, p, k)
  BY <1>2, <1>3, Zenon DEF CallFrame
<1>6. MemoryInv(p, k)
  BY Zenon DEF PaymentInv, Coordination
<1>7. CallMoves(c, p, k)
  BY <1>2, <1>3, <1>6, Zenon DEF CallMoves, MemoryInv, Leading, railVars
<1>8. BooksGrow /\ FallbackMoves
  BY QuietRails, Zenon
<1> QED BY <1>4, <1>5, <1>7, <1>8, CallMovesKeeps, Zenon

\* The submissions of key k in process p are counted, those of others are not.
SubmittedAt(p, k) ==
  /\ submitted' \in [Processes -> [Keys -> Nat]] /\ submitted'[p][k] <= 1
  /\ \A q \in Processes, j \in Keys : <<q, j>> # <<p, k>> => submitted'[q][j] = submitted[q][j]

\* A leader that returns an outcome: an acceptance is booked.
LEMMA FinishMoves ==
  ASSUME PaymentInv, NEW c \in Calls, NEW p \in Processes, NEW k \in Keys, NEW outcome \in Outcomes,
         call[c].of.process = p, call[c].of.key = k, Leading(c), finish(c, outcome), SubmittedAt(p, k),
         outcome \in Rails => books'[outcome][k] # "none"
  PROVE  /\ CallFrame(c, p, k) /\ CallMoves(c, p, k)
         /\ call' \in [Calls -> CallRecords] /\ memory' \in [Processes -> [Keys -> Memory]]
PROOF
<1>1. RailTypeOK
  BY Zenon DEF PaymentInv
<1>2. /\ call' \in [Calls -> CallRecords]
      /\ call'[c].phase \in {"enqueue", "done"} /\ call'[c].of = call[c].of /\ call'[c].reply = outcome
      /\ \A e \in Calls \ {c} : call'[e] = call[e]
      /\ memory' \in [Processes -> [Keys -> Memory]] /\ memory'[p][k].state = outcome
      /\ \A q \in Processes, j \in Keys : <<q, j>> # <<p, k>> => memory'[q][j] = memory[q][j]
  BY <1>1, FinishEffect
<1>3. CallFrame(c, p, k)
  BY <1>2, LeaderServes DEF CallFrame, SubmittedAt
<1>4. outcome # "none"
  BY Zenon DEF Outcomes
<1>5. CallMoves(c, p, k)
  BY <1>2, <1>4, Zenon DEF CallMoves, SubmittedAt, Alone, Leading
<1> QED BY <1>2, <1>3, <1>5, Zenon

\* A leader that goes on to its query, or to the secondary rail after a refusal.
LEMMA GotoMoves ==
  ASSUME PaymentInv, BooksGrow, NEW c \in Calls, NEW p \in Processes, NEW k \in Keys,
         NEW phase \in {"query", "secondary"},
         call[c].of.process = p, call[c].of.key = k, Leading(c), Goto(c, phase), UNCHANGED memory,
         SubmittedAt(p, k), phase = "secondary" => books'["primary"][k] = "refused"
  PROVE  /\ CallFrame(c, p, k) /\ CallMoves(c, p, k)
         /\ call' \in [Calls -> CallRecords]
PROOF
<1>1. RailTypeOK /\ phase \in Phases
  BY Zenon DEF PaymentInv, Phases
<1>2. /\ call' \in [Calls -> CallRecords]
      /\ call'[c].phase = phase /\ call'[c].of = call[c].of /\ call'[c].reply = call[c].reply
      /\ \A e \in Calls \ {c} : call'[e] = call[e]
  BY <1>1, GotoEffect, Zenon
<1>3. CallFrame(c, p, k)
  BY <1>2, LeaderServes, Zenon DEF CallFrame, SubmittedAt
<1>4. memory[p][k].state = "inflight"
  BY Zenon DEF PaymentInv, Coordination, LeadInv
<1>5. call[c].reply \in Rails => books'[call[c].reply][k] # "none"
  BY Zenon DEF PaymentInv, AcceptedMeansBooked, BooksGrow
<1>6. CallMoves(c, p, k)
  BY <1>2, <1>4, <1>5, Zenon DEF CallMoves, SubmittedAt, Alone, Rails
<1> QED BY <1>2, <1>3, <1>6, Zenon

\* The first submission of a process; the primary rail records it unless the answer is lost.
LEMMA SubmitPrimaryKeeps ==
  ASSUME PaymentInv, NEW c \in Calls, SubmitPrimary(c)
  PROVE  PaymentInv' /\ BooksGrow
PROOF
<1>0. RailTypeOK /\ call[c].phase = "primary" /\ Leading(c) /\ UNCHANGED restarts
  BY Zenon DEF PaymentInv, SubmitPrimary, Leading
<1>1. PICK p \in Processes, k \in Keys : call[c].of.process = p /\ call[c].of.key = k
  BY <1>0, LeaderServes, Zenon
<1>2. SubmittedAt(p, k)
  <2>1. submitted \in [Processes -> [Keys -> Nat]] /\ submitted[p][k] = 0
    BY <1>0, <1>1, Zenon DEF RailTypeOK, PaymentInv, Coordination, LeadInv
  <2>2. submitted' = [submitted EXCEPT ![p] = [submitted[p] EXCEPT ![k] = 1]]
    BY <1>1, <2>1, SMTT(20) DEF SubmitPrimary
  <2> QED BY <2>1, <2>2, SMTT(20) DEF SubmittedAt
<1>3. CASE /\ wire' = wire \cup {<<"primary", k>>}
           /\ Goto(c, "query")
           /\ UNCHANGED <<books, memory>>
  <2>1. BooksGrow /\ FallbackMoves
    BY <1>3, Zenon DEF BooksGrow, FallbackMoves
  <2>2. CallFrame(c, p, k) /\ CallMoves(c, p, k) /\ call' \in [Calls -> CallRecords]
    BY <1>0, <1>1, <1>2, <1>3, <2>1, GotoMoves, Zenon
  <2>3. RailTypeOK'
    BY <1>0, <1>2, <1>3, <2>2, SMTT(20) DEF RailTypeOK, SubmittedAt, Rails
  <2> QED BY <1>0, <1>1, <2>1, <2>2, <2>3, CallMovesKeeps, Zenon
<1>4. ASSUME NEW b \in Received("primary", k), NEW answer \in Normalized(b), Record("primary", k, b),
             \/ answer = "accepted" /\ finish(c, "primary")
             \/ answer = "noEffect" /\ Goto(c, "secondary") /\ UNCHANGED memory
             \/ answer \in {"unknown", "failed"} /\ finish(c, "unknown"),
             UNCHANGED wire
      PROVE  PaymentInv' /\ BooksGrow
  <2>1. /\ b \in Books /\ b # "none" /\ BooksGrow
        /\ books' \in [Rails -> [Keys -> Books]] /\ books'["primary"][k] = b
        /\ \A q \in Rails, j \in Keys : <<q, j>> # <<"primary", k>> => books'[q][j] = books[q][j]
    BY <1>0, <1>4, ReceivedGrows, Zenon DEF Rails
  <2>2. FallbackMoves
    BY <2>1, <1>4, Zenon DEF FallbackMoves, Rails
  <2>3. /\ CallFrame(c, p, k) /\ CallMoves(c, p, k)
        /\ call' \in [Calls -> CallRecords] /\ memory' \in [Processes -> [Keys -> Memory]]
    <3>1. CASE answer = "accepted" /\ finish(c, "primary")
      BY <1>0, <1>1, <1>2, <2>1, <3>1, FinishMoves, Zenon DEF Outcomes
    <3>2. CASE answer = "noEffect" /\ Goto(c, "secondary") /\ UNCHANGED memory
      <4>1. books'["primary"][k] = "refused"
        BY <2>1, <1>4, <3>2, NormalizedSays, Zenon
      <4> QED BY <1>0, <1>1, <1>2, <2>1, <3>2, <4>1, GotoMoves, Zenon DEF RailTypeOK
    <3>3. CASE answer \in {"unknown", "failed"} /\ finish(c, "unknown")
      BY <1>0, <1>1, <1>2, <3>3, FinishMoves, Zenon DEF Outcomes, Rails
    <3> QED BY <1>4, <3>1, <3>2, <3>3, Zenon
  <2>4. RailTypeOK'
    BY <1>0, <1>2, <1>4, <2>1, <2>3, Zenon DEF RailTypeOK, SubmittedAt
  <2> QED BY <1>0, <1>1, <2>1, <2>2, <2>3, <2>4, CallMovesKeeps, Zenon
<1> QED BY <1>1, <1>3, <1>4, Zenon DEF SubmitPrimary

\* Only a refusal that the primary rail has on record opens the way to the secondary.
LEMMA QueryPrimaryKeeps ==
  ASSUME PaymentInv, NEW c \in Calls, QueryPrimary(c)
  PROVE  PaymentInv' /\ BooksGrow
PROOF
<1>0. RailTypeOK /\ call[c].phase = "query" /\ Leading(c) /\ UNCHANGED <<submitted, restarts, railVars>>
  BY Zenon DEF PaymentInv, QueryPrimary, Leading
<1>1. PICK p \in Processes, k \in Keys : call[c].of.process = p /\ call[c].of.key = k
  BY <1>0, LeaderServes, Zenon
<1>2. SubmittedAt(p, k)
  BY <1>0, Zenon DEF RailTypeOK, PaymentInv, SubmittedOncePerProcess, SubmittedAt
<1>3. BooksGrow /\ FallbackMoves
  BY <1>0, QuietRails, Zenon
<1>4. /\ CallFrame(c, p, k) /\ CallMoves(c, p, k)
      /\ call' \in [Calls -> CallRecords] /\ memory' \in [Processes -> [Keys -> Memory]]
  <2>1. CASE "noEffect" \in Normalized(books["primary"][k]) /\ Goto(c, "secondary") /\ UNCHANGED memory
    <3>1. books["primary"][k] \in Books /\ UNCHANGED books
      BY <1>0, Zenon DEF RailTypeOK, Rails, railVars
    <3>2. books'["primary"][k] = "refused"
      BY <3>1, <2>1, NormalizedSays, Zenon
    <3> QED BY <1>0, <1>1, <1>2, <1>3, <2>1, <3>2, GotoMoves, Zenon DEF RailTypeOK
  <2>2. CASE finish(c, "unknown")
    BY <1>0, <1>1, <1>2, <2>2, FinishMoves, Zenon DEF Outcomes, Rails
  <2> QED BY <1>1, <2>1, <2>2, Zenon DEF QueryPrimary
<1>5. RailTypeOK'
  BY <1>0, <1>4, Zenon DEF RailTypeOK, railVars
<1> QED BY <1>0, <1>1, <1>3, <1>4, <1>5, CallMovesKeeps, Zenon

\* The secondary rail gets a submission only of what the primary has refused.
LEMMA SubmitSecondaryKeeps ==
  ASSUME PaymentInv, NEW c \in Calls, SubmitSecondary(c)
  PROVE  PaymentInv' /\ BooksGrow
PROOF
<1>0. RailTypeOK /\ call[c].phase = "secondary" /\ Leading(c) /\ UNCHANGED <<submitted, restarts>>
  BY Zenon DEF PaymentInv, SubmitSecondary, Leading
<1>1. PICK p \in Processes, k \in Keys : call[c].of.process = p /\ call[c].of.key = k
  BY <1>0, LeaderServes, Zenon
<1>2. SubmittedAt(p, k)
  BY <1>0, Zenon DEF RailTypeOK, PaymentInv, SubmittedOncePerProcess, SubmittedAt
<1>3. books["primary"][k] = "refused"
  BY <1>0, <1>1, Zenon DEF PaymentInv, FallbackInv
<1>4. ASSUME NEW outcome \in {"unknown", "error"}, wire' = wire \cup {<<"secondary", k>>},
             finish(c, outcome), UNCHANGED books
      PROVE  PaymentInv' /\ BooksGrow
  <2>1. BooksGrow /\ FallbackMoves
    BY <1>3, <1>4, Zenon DEF BooksGrow, FallbackMoves
  <2>2. /\ CallFrame(c, p, k) /\ CallMoves(c, p, k)
        /\ call' \in [Calls -> CallRecords] /\ memory' \in [Processes -> [Keys -> Memory]]
    BY <1>0, <1>1, <1>2, <1>4, FinishMoves, Zenon DEF Outcomes, Rails
  <2>3. RailTypeOK'
    BY <1>0, <1>4, <2>2, SMTT(20) DEF RailTypeOK, Rails
  <2> QED BY <1>0, <1>1, <2>1, <2>2, <2>3, CallMovesKeeps, Zenon
<1>5. ASSUME NEW b \in Received("secondary", k), NEW answer \in Normalized(b), Record("secondary", k, b),
             finish(c, IF answer = "accepted" THEN "secondary" ELSE "unknown"), UNCHANGED wire
      PROVE  PaymentInv' /\ BooksGrow
  <2>1. /\ b \in Books /\ b # "none" /\ BooksGrow
        /\ books' \in [Rails -> [Keys -> Books]] /\ books'["secondary"][k] = b
        /\ \A q \in Rails, j \in Keys : <<q, j>> # <<"secondary", k>> => books'[q][j] = books[q][j]
    BY <1>0, <1>5, ReceivedGrows, Zenon DEF Rails
  <2>2. FallbackMoves
    BY <2>1, <1>3, <1>5, Zenon DEF FallbackMoves, Rails
  <2>3. /\ CallFrame(c, p, k) /\ CallMoves(c, p, k)
        /\ call' \in [Calls -> CallRecords] /\ memory' \in [Processes -> [Keys -> Memory]]
    <3>1. CASE answer = "accepted"
      BY <1>0, <1>1, <1>2, <1>5, <2>1, <3>1, FinishMoves, Zenon DEF Outcomes
    <3>2. CASE answer # "accepted"
      BY <1>0, <1>1, <1>2, <1>5, <3>2, FinishMoves, Zenon DEF Outcomes, Rails
    <3> QED BY <3>1, <3>2, Zenon
  <2>4. RailTypeOK'
    BY <1>0, <1>5, <2>1, <2>3, Zenon DEF RailTypeOK
  <2> QED BY <1>0, <1>1, <2>1, <2>2, <2>3, <2>4, CallMovesKeeps, Zenon
<1> QED BY <1>1, <1>4, <1>5, Zenon DEF SubmitSecondary

\* The providers act alone: a submission lands or a provisional payment is settled.
LEMMA ProvidersKeep ==
  ASSUME PaymentInv, Providers, UNCHANGED execVars
  PROVE  PaymentInv' /\ BooksGrow
PROOF
<1>0. RailTypeOK /\ UNCHANGED <<memory, call, submitted, restarts>>
  BY Zenon DEF PaymentInv, execVars
<1>1. PICK r \in Rails, k \in Keys : Land(r, k) \/ Progress(r, k)
  BY Zenon DEF Providers
<1>2. BooksGrow /\ FallbackMoves /\ wire' \subseteq wire /\ books' \in [Rails -> [Keys -> Books]]
  <2>1. CASE Land(r, k)
    <3>1. PICK b \in Received(r, k) : Record(r, k, b)
      BY <2>1, Zenon DEF Land
    <3>2. /\ BooksGrow /\ books' \in [Rails -> [Keys -> Books]]
          /\ \A q \in Rails, j \in Keys : <<q, j>> # <<r, k>> => books'[q][j] = books[q][j]
      BY <1>0, <3>1, ReceivedGrows, Zenon
    <3>3. wire' \subseteq wire /\ <<r, k>> \in wire
      BY <2>1, Zenon DEF Land
    <3> QED BY <3>2, <3>3, Zenon DEF FallbackMoves, Rails
  <2>2. CASE Progress(r, k)
    <3>1. PICK b \in {"paid", "refused", "failed"} : Record(r, k, b)
      BY <2>2, Zenon DEF Progress
    <3>2. /\ books' \in [Rails -> [Keys -> Books]] /\ books'[r][k] = b
          /\ \A q \in Rails, j \in Keys : <<q, j>> # <<r, k>> => books'[q][j] = books[q][j]
      BY <1>0, <3>1, RecordEffect, SMTT(20) DEF Books
    <3>3. books[r][k] = "open" /\ wire' = wire
      BY <2>2, Zenon DEF Progress
    <3>4. BooksGrow
      <4>1. ASSUME NEW q \in Rails, NEW j \in Keys
            PROVE  /\ books[q][j] # "none" => books'[q][j] # "none"
                   /\ books[q][j] = "refused" => books'[q][j] = "refused"
        BY <3>2, <3>3, Zenon
      <4> QED BY <4>1, Zenon DEF BooksGrow
    <3> QED BY <3>2, <3>3, <3>4, Zenon DEF FallbackMoves, Rails
  <2> QED BY <1>1, <2>1, <2>2, Zenon
<1>3. RailTypeOK'
  BY <1>0, <1>2, Zenon DEF RailTypeOK
<1>4. ASSUME NEW c \in Calls
      PROVE  CallInv(c)' /\ LeadInv(c)'
  BY <1>0, Zenon DEF PaymentInv, Coordination, CallInv, LeadInv, Leading
<1>5. OneLeader' /\ SubmittedOncePerProcess'
  BY <1>0, Zenon DEF PaymentInv, Coordination, OneLeader, Leading, SubmittedOncePerProcess
<1>6. ASSUME NEW p \in Processes, NEW j \in Keys
      PROVE  MemoryInv(p, j)'
  BY <1>0, <1>2, Zenon DEF PaymentInv, Coordination, MemoryInv, BooksGrow
<1>7. ASSUME NEW c \in Calls, call[c].reply \in Rails
      PROVE  books'[call[c].reply][call[c].of.key] # "none"
  <2>1. CallInv(c) /\ call[c].phase # "idle"
    BY <1>7, Zenon DEF PaymentInv, Coordination, CallInv, Rails
  <2>2. call[c].of.key \in Keys /\ books[call[c].reply][call[c].of.key] # "none"
    BY <1>0, <1>7, <2>1, Served, Zenon DEF PaymentInv, AcceptedMeansBooked
  <2> QED BY <1>2, <1>7, <2>2, Zenon DEF BooksGrow
<1>8. AcceptedMeansBooked'
  BY <1>0, <1>7, Zenon DEF AcceptedMeansBooked
<1>9. ASSUME NEW j \in Keys
      PROVE  FallbackInv(j)'
  <2>1. FallbackInv(j)
    BY Zenon DEF PaymentInv
  <2> QED BY <1>0, <1>2, <2>1, Zenon DEF FallbackInv, FallbackMoves, BooksGrow, Rails
<1> QED BY <1>2, <1>3, <1>4, <1>5, <1>6, <1>8, <1>9, Zenon DEF PaymentInv, Coordination

\* A request enters as the leader of a key the process does not remember, or shares what it
\* remembers.
Leads(e, d, p, k) ==
  /\ e.phase = "primary" /\ e.reply = "none" /\ memory[p][k].state = "none"
  /\ memory' = [memory EXCEPT ![p][k] = [bound |-> d.digest, state |-> "inflight"]]

\* It waits for the leader, or is answered with the remembered outcome.
Shares(e, p, k) ==
  /\ e.phase \in {"wait", "enqueue", "done"} /\ UNCHANGED memory
  /\ e.reply \in Rails => memory[p][k].state = e.reply

\* What Execute does with a request.
LEMMA ExecuteEffect ==
  ASSUME NEW c \in Calls, NEW d \in Deliveries, Execute(c, d),
         NEW p, NEW k, d.process = p, d.key = k
  PROVE  \E e \in CallRecords :
           call' = [call EXCEPT ![c] = e] /\ e.of = d /\ (Leads(e, d, p, k) \/ Shares(e, p, k))
PROOF
<1> DEFINE entry == [IdleCall EXCEPT !.of = d]
           first == [entry EXCEPT !.phase = "primary"]
           other == [entry EXCEPT !.phase = "done", !.reply = "conflict"]
           waits == [entry EXCEPT !.phase = "wait"]
           told == Answered(entry, memory[p][k].state)
<1>1. entry \in CallRecords /\ entry.of = d /\ entry.reply = "none"
  BY Zenon DEF IdleCall, CallRecords, Phases, Replies
<1>2. \/ /\ memory[p][k].state = "none"
         /\ memory' = [memory EXCEPT ![p][k] = [bound |-> d.digest, state |-> "inflight"]]
         /\ call' = [call EXCEPT ![c] = first]
      \/ call' = [call EXCEPT ![c] = other] /\ UNCHANGED memory
      \/ call' = [call EXCEPT ![c] = waits] /\ UNCHANGED memory
      \/ call' = [call EXCEPT ![c] = told] /\ memory[p][k].state \in Outcomes /\ UNCHANGED memory
  BY Zenon DEF Execute
<1> HIDE DEF entry
<1>3. first \in CallRecords /\ first.of = d /\ first.phase = "primary" /\ first.reply = "none"
  BY <1>1, Zenon DEF CallRecords, Phases
<1>4. other \in CallRecords /\ other.of = d /\ other.phase = "done" /\ other.reply = "conflict"
  BY <1>1, Zenon DEF CallRecords, Phases, Replies
<1>5. waits \in CallRecords /\ waits.of = d /\ waits.phase = "wait" /\ waits.reply = "none"
  BY <1>1, Zenon DEF CallRecords, Phases
<1>6. ASSUME memory[p][k].state \in Outcomes
      PROVE  /\ told \in CallRecords /\ told.of = d /\ told.phase \in {"enqueue", "done"}
             /\ told.reply = memory[p][k].state
  BY <1>1, <1>6, AnsweredEffect, Zenon
<1> HIDE DEF first, other, waits, told
<1> QED BY <1>2, <1>3, <1>4, <1>5, <1>6, Zenon DEF Leads, Shares, Rails

\* The first request of a key leads, and none leads beside it; the others share its outcome.
LEMMA ExecuteKeeps ==
  ASSUME PaymentInv, NEW c \in Calls, NEW d \in Deliveries, Execute(c, d)
  PROVE  PaymentInv' /\ BooksGrow
PROOF
<1>1. ~Leading(c) /\ UNCHANGED <<submitted, restarts, railVars>>
  BY Zenon DEF Execute, Leading
<1>2. PICK p \in Processes, k \in Keys : d.process = p /\ d.key = k /\ d.digest \in Digests
  BY RailAssumption, Zenon
<1>3. PICK e \in CallRecords :
        call' = [call EXCEPT ![c] = e] /\ e.of = d /\ (Leads(e, d, p, k) \/ Shares(e, p, k))
  BY <1>2, ExecuteEffect, Zenon
<1>4. CASE Shares(e, p, k)
  BY <1>1, <1>2, <1>3, <1>4, SharesKeeps, Zenon DEF Shares
<1>5. CASE Leads(e, d, p, k)
  <2>1. RailTypeOK /\ MemoryInv(p, k)
    BY Zenon DEF PaymentInv, Coordination
  <2>2. call' \in [Calls -> CallRecords] /\ call'[c] = e /\ \A f \in Calls \ {c} : call'[f] = call[f]
    BY <2>1, <1>3, Zenon DEF RailTypeOK
  <2> DEFINE m == [bound |-> d.digest, state |-> "inflight"]
  <2>3. m \in Memory /\ m.state = "inflight"
    BY <1>2, Zenon DEF Memory
  <2>4. memory' = [memory EXCEPT ![p] = [memory[p] EXCEPT ![k] = m]]
    BY <1>5, <2>1, Zenon DEF Leads, RailTypeOK
  <2> HIDE DEF m
  <2>5. memory' \in [Processes -> [Keys -> Memory]] /\ memory'[p][k] = m
        /\ \A q \in Processes, j \in Keys : <<q, j>> # <<p, k>> => memory'[q][j] = memory[q][j]
    BY <2>1, <2>3, <2>4, Zenon DEF RailTypeOK
  <2>6. RailTypeOK'
    BY <1>1, <2>1, <2>2, <2>5, Zenon DEF RailTypeOK, railVars
  <2>7. CallFrame(c, p, k)
    BY <1>1, <1>2, <1>3, <1>5, <2>2, <2>5, Zenon DEF CallFrame, Leads
  <2>8. CallMoves(c, p, k)
    BY <1>1, <1>5, <2>1, <2>2, <2>3, <2>5, SMTT(20) DEF CallMoves, Leads, Alone, MemoryInv, Rails
  <2>9. BooksGrow /\ FallbackMoves
    BY <1>1, QuietRails, Zenon
  <2> QED BY <2>6, <2>7, <2>8, <2>9, CallMovesKeeps, Zenon
<1> QED BY <1>3, <1>4, <1>5, Zenon

\* A follower is told what the process remembers, an unknown outcome is queued.
LEMMA FollowKeeps ==
  ASSUME PaymentInv, NEW c \in Calls, Follow(c) \/ Enqueue(c)
  PROVE  PaymentInv' /\ BooksGrow
PROOF
<1>1. /\ call[c].phase \in {"wait", "enqueue"} /\ ~Leading(c)
      /\ UNCHANGED <<memory, submitted, restarts, railVars>>
  BY Zenon DEF Follow, Enqueue, Leading
<1>2. call \in [Calls -> CallRecords] /\ call[c] \in CallRecords /\ call[c].of \in Deliveries
  BY <1>1, Zenon DEF PaymentInv, RailTypeOK, Coordination, CallInv
<1>3. ASSUME NEW outcome \in Outcomes, call' = [call EXCEPT ![c] = Answered(call[c], outcome)],
             outcome = "error" \/ memory[call[c].of.process][call[c].of.key].state = outcome
      PROVE  PaymentInv' /\ BooksGrow
  <2>1. /\ Answered(call[c], outcome) \in CallRecords
        /\ Answered(call[c], outcome).phase \in {"enqueue", "done"}
        /\ Answered(call[c], outcome).of = call[c].of /\ Answered(call[c], outcome).reply = outcome
    BY <1>2, AnsweredEffect, Zenon
  <2> QED BY <1>1, <1>2, <1>3, <2>1, SharesKeeps, Zenon DEF Rails
<1>4. ASSUME NEW r \in {"queued", "unqueued"}, call' = [call EXCEPT ![c].phase = "done", ![c].reply = r]
      PROVE  PaymentInv' /\ BooksGrow
  <2> DEFINE e == [call[c] EXCEPT !.phase = "done", !.reply = r]
  <2>1. call' = [call EXCEPT ![c] = e]
    BY <1>2, <1>4, Zenon
  <2>2. e \in CallRecords /\ e.phase = "done" /\ e.of = call[c].of /\ e.reply = r
    BY <1>2, Zenon DEF CallRecords, Phases, Replies
  <2> HIDE DEF e
  <2> QED BY <1>1, <1>2, <2>1, <2>2, SharesKeeps, Zenon DEF Rails
<1> QED BY <1>3, <1>4, Zenon DEF Follow, Enqueue, Outcomes

\* A process that stops forgets what it knew, and the calls it was serving are lost.
LEMMA RestartKeeps ==
  ASSUME PaymentInv, NEW p \in Processes, Restart(p)
  PROVE  PaymentInv' /\ BooksGrow
PROOF
<1>1. /\ RailTypeOK /\ OneLeader /\ UNCHANGED <<books, wire>>
      /\ \A c \in Calls : CallInv(c) /\ LeadInv(c)
  BY Zenon DEF PaymentInv, Coordination, Restart, railVars
<1>2. /\ memory' \in [Processes -> [Keys -> Memory]] /\ submitted' \in [Processes -> [Keys -> Nat]]
      /\ \A k \in Keys : memory'[p][k].state = "none" /\ submitted'[p][k] = 0
      /\ \A q \in Processes \ {p} : memory'[q] = memory[q] /\ submitted'[q] = submitted[q]
  BY <1>1, Zenon DEF Restart, RailTypeOK, Memory, Forgotten
<1>3. ASSUME NEW c \in Calls
      PROVE  \/ call'[c] = call[c] /\ (call[c].phase \in {"idle", "done"} \/ call[c].of.process # p)
             \/ call'[c].phase = "done" /\ call'[c].reply = "lost" /\ call'[c].of = call[c].of
                /\ call[c].phase # "idle" /\ call'[c] \in CallRecords
  <2>1. call[c] \in CallRecords
    BY <1>1, Zenon DEF RailTypeOK
  <2> DEFINE lost == [call[c] EXCEPT !.phase = "done", !.reply = "lost"]
  <2>2. lost \in CallRecords /\ lost.phase = "done" /\ lost.reply = "lost" /\ lost.of = call[c].of
    BY <2>1, Zenon DEF CallRecords, Phases, Replies
  <2>3. call'[c] = IF call[c].phase \notin {"idle", "done"} /\ call[c].of.process = p THEN lost ELSE call[c]
    BY Zenon DEF Restart
  <2> HIDE DEF lost
  <2> QED BY <2>2, <2>3, Zenon
<1>4. RailTypeOK'
  <2>1. call' \in [Calls -> CallRecords]
    <3>1. call' = [c \in Calls |-> call'[c]]
      BY Zenon DEF Restart
    <3>2. \A c \in Calls : call'[c] \in CallRecords
      BY <1>1, <1>3, Zenon DEF RailTypeOK
    <3> QED BY <3>1, <3>2, Zenon
  <2>2. restarts < MaxRestarts /\ restarts' = restarts + 1
    BY Zenon DEF Restart
  <2> QED BY <1>1, <1>2, <2>1, <2>2, RailAssumption, SMTT(20) DEF RailTypeOK
<1>5. ASSUME NEW c \in Calls
      PROVE  CallInv(c)' /\ LeadInv(c)'
  <2>1. CallInv(c) /\ LeadInv(c)
    BY <1>1, Zenon
  <2>2. CASE Leading(c)'
    <3>1. call'[c] = call[c] /\ call[c].of.process # p /\ call[c].phase # "idle"
      BY <2>2, <1>3, Zenon DEF Leading
    <3>2. call[c].of.process \in Processes \ {p}
      BY <3>1, <2>1, <1>1, Served, Zenon
    <3> QED BY <3>1, <3>2, <2>1, <1>2, ZenonT(40) DEF CallInv, LeadInv, Leading
  <2>3. CASE ~Leading(c)'
    BY <2>1, <2>3, <1>3, Zenon DEF CallInv, LeadInv, Leading
  <2> QED BY <2>2, <2>3, Zenon
<1>6. OneLeader'
  BY <1>1, <1>3, Zenon DEF OneLeader, Leading
<1>7. ASSUME NEW q \in Processes, NEW k \in Keys
      PROVE  MemoryInv(q, k)' /\ submitted'[q][k] <= 1
  <2>1. MemoryInv(q, k) /\ submitted[q][k] <= 1
    BY Zenon DEF PaymentInv, Coordination, SubmittedOncePerProcess
  <2>2. CASE q = p
    BY <2>2, <1>2, SMTT(20) DEF MemoryInv, Rails
  <2>3. CASE q # p
    <3>1. memory'[q] = memory[q] /\ submitted'[q] = submitted[q] /\ books' = books
      BY <2>3, <1>1, <1>2, Zenon
    <3> QED BY <2>1, <3>1, Zenon DEF MemoryInv
  <2> QED BY <2>2, <2>3, Zenon
<1>8. AcceptedMeansBooked' /\ (\A k \in Keys : FallbackInv(k)') /\ BooksGrow
  BY <1>1, <1>3, Zenon DEF PaymentInv, AcceptedMeansBooked, FallbackInv, BooksGrow, Rails
<1> QED BY <1>4, <1>5, <1>6, <1>7, <1>8, Zenon DEF PaymentInv, Coordination, SubmittedOncePerProcess

-----------------------------------------------------------------------------
(* Unknown outcomes. *)

\* The row of key k changes, no decision is taken.
LEMMA RowChanges ==
  ASSUME DecisionInv, NEW k \in Keys, NEW r \in Rows, queue' = [queue EXCEPT ![k] = r], UNCHANGED decisions,
         r.resolved = queue[k].resolved, r.attempts = queue[k].attempts \/ ~queue[k].resolved,
         ~r.present => r.lease = "none" /\ ~r.resolved
  PROVE  queue' \in [Keys -> Rows] /\ \A j \in Keys : RowInv(j)'
PROOF
<1>1. queue \in [Keys -> Rows] /\ \A j \in Keys : RowInv(j)
  BY Zenon DEF DecisionInv, WorkTypeOK
<1>2. queue' \in [Keys -> Rows] /\ queue'[k] = r /\ \A j \in Keys \ {k} : queue'[j] = queue[j]
  BY <1>1, Zenon
<1>3. RowInv(k)'
  BY <1>1, <1>2, SMTT(20) DEF RowInv
<1>4. ASSUME NEW j \in Keys \ {k}
      PROVE  RowInv(j)'
  BY <1>1, <1>2, SMTT(20) DEF RowInv
<1> QED BY <1>2, <1>3, <1>4, Zenon

\* Claiming, rescheduling and the passage of time leave the decisions of a row alone.
LEMMA RowsKept ==
  ASSUME DecisionInv, NEW k \in Keys,
         \/ Claim(k) \/ BecomesDue(k) \/ LeaseExpires(k) \/ (\E a \in Nat : Reschedule(k, a))
         \/ \E dg \in Digests : EnqueueUnknown(k, dg)
  PROVE  queue' \in [Keys -> Rows] /\ (\A j \in Keys : RowInv(j)') /\ UNCHANGED decisions
PROOF
<1>1. queue \in [Keys -> Rows] /\ queue[k] \in Rows /\ RowInv(k) /\ \A j \in Keys : RowInv(j)
  BY Zenon DEF DecisionInv, WorkTypeOK
<1>2. UNCHANGED decisions
  BY Zenon DEF Claim, BecomesDue, LeaseExpires, Reschedule, EnqueueUnknown
<1>3. CASE UNCHANGED queue
  BY <1>1, <1>2, <1>3, SMTT(20) DEF RowInv
<1>4. CASE Claim(k)
  <2> DEFINE r == [queue[k] EXCEPT !.attempts = queue[k].attempts + 1, !.lease = "held"]
  <2>1. queue' = [queue EXCEPT ![k] = r]
    BY <1>1, <1>4, Zenon DEF Claim
  <2>2. r \in Rows /\ r.resolved = queue[k].resolved /\ r.present = queue[k].present
    <3>1. queue[k].attempts + 1 \in Nat
      BY <1>1, SMTT(20) DEF Rows
    <3> QED BY <1>1, <3>1, Zenon DEF Rows
  <2>3. queue[k].present /\ ~queue[k].resolved
    BY <1>4, Zenon DEF Claim
  <2> HIDE DEF r
  <2> QED BY <1>2, <2>1, <2>2, <2>3, RowChanges, Zenon
<1>5. CASE BecomesDue(k)
  <2> DEFINE r == [queue[k] EXCEPT !.due = TRUE]
  <2>1. queue' = [queue EXCEPT ![k] = r]
    BY <1>1, <1>5, Zenon DEF BecomesDue
  <2>2. r \in Rows /\ r.resolved = queue[k].resolved /\ r.present = queue[k].present /\ r.attempts = queue[k].attempts
    BY <1>1, Zenon DEF Rows
  <2>3. queue[k].present
    BY <1>5, Zenon DEF BecomesDue
  <2> HIDE DEF r
  <2> QED BY <1>2, <2>1, <2>2, <2>3, RowChanges, Zenon
<1>6. CASE LeaseExpires(k)
  <2> DEFINE r == [queue[k] EXCEPT !.lease = "expired"]
  <2>1. queue' = [queue EXCEPT ![k] = r]
    BY <1>1, <1>6, Zenon DEF LeaseExpires
  <2>2. r \in Rows /\ r.resolved = queue[k].resolved /\ r.present = queue[k].present /\ r.attempts = queue[k].attempts
    BY <1>1, Zenon DEF Rows
  <2>3. queue[k].present
    BY <1>1, <1>6, Zenon DEF LeaseExpires, RowInv
  <2> HIDE DEF r
  <2> QED BY <1>2, <2>1, <2>2, <2>3, RowChanges, Zenon
<1>7. ASSUME NEW a \in Nat, Reschedule(k, a), HoldsLease(k, a)
      PROVE  queue' \in [Keys -> Rows] /\ \A j \in Keys : RowInv(j)'
  <2> DEFINE r == [queue[k] EXCEPT !.due = FALSE, !.lease = "none"]
  <2>1. queue' = [queue EXCEPT ![k] = r]
    BY <1>1, <1>7, Zenon DEF Reschedule
  <2>2. r \in Rows /\ r.resolved = queue[k].resolved /\ r.present = queue[k].present /\ r.attempts = queue[k].attempts
    BY <1>1, Zenon DEF Rows
  <2>3. queue[k].present
    BY <1>1, <1>7, Zenon DEF HoldsLease, RowInv
  <2> HIDE DEF r
  <2> QED BY <1>2, <2>1, <2>2, <2>3, RowChanges, Zenon
<1>8. ASSUME NEW dg \in Digests, EnqueueUnknown(k, dg), ~queue[k].present
      PROVE  queue' \in [Keys -> Rows] /\ \A j \in Keys : RowInv(j)'
  <2> DEFINE r == [NoRow EXCEPT !.present = TRUE, !.digest = dg, !.due = TRUE]
  <2>1. queue' = [queue EXCEPT ![k] = r]
    BY <1>1, <1>8, Zenon DEF EnqueueUnknown
  <2>2. r \in Rows /\ ~r.resolved /\ r.present
    BY Zenon DEF Rows, NoRow
  <2>3. ~queue[k].resolved
    BY <1>1, <1>8, Zenon DEF RowInv
  <2> HIDE DEF r
  <2> QED BY <1>1, <1>2, <2>1, <2>2, <2>3, RowChanges, Zenon DEF Rows
<1>9. ASSUME NEW dg \in Digests, EnqueueUnknown(k, dg), queue[k].present
      PROVE  UNCHANGED queue
  BY <1>1, <1>9, Zenon DEF EnqueueUnknown
<1> QED BY <1>2, <1>3, <1>4, <1>5, <1>6, <1>7, <1>8, <1>9, Zenon DEF Reschedule

\* A decision is recorded by the holder of the lease of an undecided row, or repeats or adds
\* to those of a decided one without a second terminal decision.
LEMMA RecordKeepsRows ==
  ASSUME DecisionInv, NEW d \in Decisions, RecordDecision(d)
  PROVE  /\ queue' \in [Keys -> Rows] /\ (\A j \in Keys : RowInv(j)')
         /\ decisions' \subseteq decisions \cup {d}
PROOF
<1>1. queue \in [Keys -> Rows] /\ decisions \subseteq Decisions /\ \A j \in Keys : RowInv(j)
  BY Zenon DEF DecisionInv, WorkTypeOK
<1>2. CASE ~Recordable(d)
  <2>1. UNCHANGED <<queue, decisions>>
    BY <1>2, Zenon DEF RecordDecision, unknownVars
  <2> QED BY <1>1, <2>1, SMTT(20) DEF RowInv
<1>3. CASE Recordable(d)
  <2> DEFINE k == d.key
             r == [queue[k] EXCEPT !.resolved = TRUE, !.lease = "none"]
  <2>1. k \in Keys /\ d.attempt \in Nat /\ d.decision \in Terminal \cup {"awaiting"}
    BY Zenon DEF Decisions
  <2>2. decisions' = decisions \cup {d} /\ queue' = [queue EXCEPT ![k] = r]
    BY <1>1, <1>3, <2>1, Zenon DEF RecordDecision
  <2>3. r \in Rows /\ r.resolved = TRUE /\ r.lease = "none" /\ r.present = queue[k].present /\ r.attempts = queue[k].attempts
    <3>1. queue[k] \in Rows
      BY <1>1, <2>1, Zenon
    <3> HIDE DEF k
    <3> QED BY <3>1, Zenon DEF Rows
  <2>4. queue[k].present /\ (queue[k].resolved \/ queue[k].attempts = d.attempt)
    BY <1>1, <1>3, <2>1, Zenon DEF Recordable, HoldsLease, RowInv
  <2>5. Insertable(d)
    BY <1>3, Zenon DEF Recordable
  <2> HIDE DEF r
  <2>6. queue' \in [Keys -> Rows] /\ queue'[k] = r /\ \A j \in Keys \ {k} : queue'[j] = queue[j]
    BY <1>1, <2>1, <2>2, <2>3, Zenon
  <2>7. ASSUME NEW j \in Keys \ {k}
        PROVE  RowInv(j)'
    <3>1. {e \in decisions' : e.key = j} = {e \in decisions : e.key = j}
      BY <2>2, Zenon
    <3> QED BY <1>1, <2>6, <3>1, SMTT(20) DEF RowInv
  <2>8. RowInv(k)'
    <3>1. ASSUME \A e \in decisions' : e.key = k => e.decision # "awaiting",
                 NEW e \in decisions', e.key = k, NEW f \in decisions', f.key = k
          PROVE  e = f /\ e.attempt = queue[k].attempts
      <4>1. RowInv(k)
        BY <1>1, <2>1, Zenon
      <4>2. CASE ~queue[k].resolved
        BY <4>1, <4>2, <3>1, <2>2, <2>4, Zenon DEF RowInv
      <4>3. CASE queue[k].resolved
        <5>1. \A g \in decisions : g.key = k => g.decision \in Terminal
          BY <1>1, <3>1, <2>2, Zenon DEF Decisions
        <5>2. \E g \in decisions : g.key = k
          BY <4>1, <4>3, Zenon DEF RowInv
        <5>3. d \in decisions
          BY <5>1, <5>2, <2>1, <2>2, <2>5, <3>1, Zenon DEF Insertable
        <5> QED BY <4>1, <5>3, <3>1, <2>2, ZenonT(40) DEF RowInv
      <4> QED BY <4>2, <4>3, Zenon
    <3> QED BY <3>1, <2>2, <2>3, <2>4, <2>6, Zenon DEF RowInv
  <2> QED BY <2>2, <2>6, <2>7, <2>8, Zenon
<1> QED BY <1>2, <1>3, Zenon

\* A worker's state changes to one that says what the primary holds.
LEMMA WorkerChanges ==
  ASSUME DecisionInv, NEW w \in Workers, NEW s \in WorkerStates, worker' = [worker EXCEPT ![w] = s],
         UNCHANGED books, s.phase # "idle" => s.key \in Keys,
         s.phase = "decide" =>
           /\ s.decision # "none"
           /\ s.decision = "provider_accepted" => books["primary"][s.key] # "none"
           /\ s.decision = "confirmed_non_submission" => books["primary"][s.key] = "refused"
  PROVE  worker' \in [Workers -> WorkerStates] /\ \A v \in Workers : WorkerInv(v)'
PROOF
<1>1. worker \in [Workers -> WorkerStates] /\ \A v \in Workers : WorkerInv(v)
  BY Zenon DEF DecisionInv, WorkTypeOK
<1>2. worker' \in [Workers -> WorkerStates] /\ worker'[w] = s /\ \A v \in Workers \ {w} : worker'[v] = worker[v]
  BY <1>1, Zenon
<1> QED BY <1>1, <1>2, Zenon DEF WorkerInv

\* An idle worker.
LEMMA WorkerRests ==
  ASSUME DecisionInv, NEW w \in Workers, worker' = [worker EXCEPT ![w] = Idle], UNCHANGED books
  PROVE  worker' \in [Workers -> WorkerStates] /\ \A v \in Workers : WorkerInv(v)'
PROOF
<1>1. Idle \in WorkerStates /\ Idle.phase = "idle"
  BY Zenon DEF Idle, WorkerStates
<1> QED BY <1>1, WorkerChanges, Zenon

\* The decisions after one more, which is not a worker's or is what the primary holds.
LEMMA DecisionsGrow ==
  ASSUME DecisionInv, NEW d \in Decisions, decisions' \subseteq decisions \cup {d}, UNCHANGED books,
         d.source = "provider" =>
           /\ d.decision = "provider_accepted" => books["primary"][d.key] # "none"
           /\ d.decision = "confirmed_non_submission" => books["primary"][d.key] = "refused"
  PROVE  decisions' \subseteq Decisions /\ DecisionsMatchPrimary'
BY Zenon DEF DecisionInv, WorkTypeOK, DecisionsMatchPrimary

\* The same decisions, under books that have grown.
LEMMA DecisionsStand ==
  ASSUME DecisionInv, BooksGrow, UNCHANGED decisions
  PROVE  decisions' \subseteq Decisions /\ DecisionsMatchPrimary'
BY Zenon DEF DecisionInv, WorkTypeOK, DecisionsMatchPrimary, BooksGrow, Decisions, Rails

\* A worker claims a key, asks the primary rail, and records what it was told or tries again.
LEMMA WorkerStepKeeps ==
  ASSUME DecisionInv, RailTypeOK, NEW w \in Workers, WorkerStep(w), UNCHANGED <<railVars, execVars>>
  PROVE  DecisionInv'
PROOF
<1>1. /\ queue \in [Keys -> Rows] /\ worker \in [Workers -> WorkerStates] /\ worker[w] \in WorkerStates
      /\ WorkerInv(w) /\ batch \in [Batches -> BatchStates] /\ faults \in 0 .. MaxFaults
  BY Zenon DEF DecisionInv, WorkTypeOK
<1>2. UNCHANGED <<books, batch, faults>> /\ BooksGrow
  BY QuietRails, Zenon DEF WorkerStep, railVars
<1>3. SUFFICES /\ queue' \in [Keys -> Rows] /\ \A j \in Keys : RowInv(j)'
               /\ decisions' \subseteq Decisions /\ DecisionsMatchPrimary'
               /\ worker' \in [Workers -> WorkerStates] /\ \A v \in Workers : WorkerInv(v)'
  BY <1>1, <1>2, Zenon DEF DecisionInv, WorkTypeOK
<1>4. ASSUME NEW k \in Keys, ClaimFor(w, k)
      PROVE  /\ queue' \in [Keys -> Rows] /\ \A j \in Keys : RowInv(j)'
             /\ decisions' \subseteq Decisions /\ DecisionsMatchPrimary'
             /\ worker' \in [Workers -> WorkerStates] /\ \A v \in Workers : WorkerInv(v)'
  <2>1. Claim(k)
    BY <1>4, Zenon DEF ClaimFor
  <2>2. queue' \in [Keys -> Rows] /\ (\A j \in Keys : RowInv(j)') /\ UNCHANGED decisions
    BY <2>1, RowsKept, Zenon
  <2> DEFINE n == queue'[k].attempts
             s == IF n >= MaxAttempts
                    THEN [phase |-> "decide", key |-> k, attempt |-> n, decision |-> "quarantined"]
                    ELSE [phase |-> "query", key |-> k, attempt |-> n, decision |-> "none"]
  <2>3. n \in Nat
    BY <2>2, Zenon DEF Rows
  <2>4. worker' = [worker EXCEPT ![w] = s]
    BY <1>4, Zenon DEF ClaimFor
  <2> HIDE DEF n
  <2>5. s \in WorkerStates /\ s.key = k /\ s.decision \in {"quarantined", "none"}
        /\ (s.phase = "decide" => s.decision # "none")
    BY <2>3, Zenon DEF WorkerStates, Terminal
  <2> HIDE DEF s
  <2>6. worker' \in [Workers -> WorkerStates] /\ \A v \in Workers : WorkerInv(v)'
    BY <1>2, <2>4, <2>5, WorkerChanges, Zenon
  <2> QED BY <1>2, <2>2, <2>6, DecisionsStand, Zenon
<1>5. CASE Query(w)
  <2>1. worker[w].key \in Keys /\ books["primary"][worker[w].key] \in Books
    BY <1>1, <1>5, Zenon DEF Query, WorkerInv, RailTypeOK, Rails
  <2>2. PICK answer \in Normalized(books["primary"][worker[w].key]) \cup {"error"} :
          LET inconclusive == answer \in {"error", "unknown"}
          IN worker' = [worker EXCEPT
               ![w].phase = IF inconclusive THEN "reschedule" ELSE "decide",
               ![w].decision = IF inconclusive THEN "none" ELSE DecisionOn(answer)]
    BY <1>5, Zenon DEF Query
  <2> DEFINE p == IF answer \in {"error", "unknown"} THEN "reschedule" ELSE "decide"
             o == IF answer \in {"error", "unknown"} THEN "none" ELSE DecisionOn(answer)
             s == [worker[w] EXCEPT !.phase = p, !.decision = o]
  <2>3. worker' = [worker EXCEPT ![w] = s]
    BY <1>1, <2>2, Zenon
  <2>4. /\ answer \in {"accepted", "noEffect", "unknown", "failed", "error"}
        /\ answer = "noEffect" => books["primary"][worker[w].key] = "refused"
        /\ answer = "accepted" => books["primary"][worker[w].key] # "none"
    BY <2>1, <2>2, NormalizedSays, Zenon
  <2>5. /\ p \in {"reschedule", "decide"} /\ o \in Terminal \cup {"none"} /\ (p = "decide" => o # "none")
        /\ o = "provider_accepted" => answer = "accepted"
        /\ o = "confirmed_non_submission" => answer = "noEffect"
    BY <2>4, Zenon DEF DecisionOn, Terminal
  <2> HIDE DEF p, o
  <2>6. s \in WorkerStates /\ s.phase = p /\ s.decision = o /\ s.key = worker[w].key
    BY <1>1, <2>5, Zenon DEF WorkerStates
  <2> HIDE DEF s
  <2>7. worker' \in [Workers -> WorkerStates] /\ \A v \in Workers : WorkerInv(v)'
    BY <1>2, <2>1, <2>3, <2>4, <2>5, <2>6, WorkerChanges, Zenon
  <2>8. UNCHANGED <<queue, decisions>>
    BY <1>5, Zenon DEF Query, unknownVars
  <2>9. \A j \in Keys : RowInv(j)'
    BY <2>8, SMTT(20) DEF DecisionInv, RowInv
  <2> QED BY <1>1, <1>2, <2>7, <2>8, <2>9, DecisionsStand, Zenon
<1>6. CASE Decide(w)
  <2> DEFINE d == [key |-> worker[w].key, attempt |-> worker[w].attempt, decision |-> worker[w].decision, source |-> "provider"]
  <2>1. RecordDecision(d) /\ worker' = [worker EXCEPT ![w] = Idle] /\ worker[w].phase = "decide"
    BY <1>6, Zenon DEF Decide
  <2>2. d \in Decisions /\ d.key = worker[w].key /\ d.decision = worker[w].decision
    BY <1>1, <2>1, Zenon DEF WorkerInv, WorkerStates, Decisions
  <2> HIDE DEF d
  <2>3. /\ queue' \in [Keys -> Rows] /\ (\A j \in Keys : RowInv(j)')
        /\ decisions' \subseteq decisions \cup {d}
    BY <2>1, <2>2, RecordKeepsRows, Zenon
  <2>4. decisions' \subseteq Decisions /\ DecisionsMatchPrimary'
    BY <1>1, <1>2, <2>1, <2>2, <2>3, DecisionsGrow, Zenon DEF WorkerInv
  <2> QED BY <1>2, <2>1, <2>3, <2>4, WorkerRests, Zenon
<1>7. CASE Retry(w)
  <2>1. /\ Reschedule(worker[w].key, worker[w].attempt) /\ worker' = [worker EXCEPT ![w] = Idle]
        /\ worker[w].phase = "reschedule"
    BY <1>7, Zenon DEF Retry
  <2>2. worker[w].key \in Keys /\ worker[w].attempt \in Nat
    BY <1>1, <2>1, Zenon DEF WorkerInv, WorkerStates
  <2>3. queue' \in [Keys -> Rows] /\ (\A j \in Keys : RowInv(j)') /\ UNCHANGED decisions
    BY <2>1, <2>2, RowsKept, Zenon
  <2> QED BY <1>2, <2>1, <2>3, WorkerRests, DecisionsStand, Zenon
<1> QED BY <1>4, <1>5, <1>6, <1>7, Zenon DEF WorkerStep

\* A batch's state changes.
LEMMA BatchChanges ==
  ASSUME DecisionInv, NEW b \in Batches, NEW s \in BatchStates, batch' = [batch EXCEPT ![b] = s]
  PROVE  batch' \in [Batches -> BatchStates]
BY Zenon DEF DecisionInv, WorkTypeOK

\* The workers stand while the books do.
LEMMA WorkersStand ==
  ASSUME DecisionInv, BooksGrow, UNCHANGED worker
  PROVE  worker' \in [Workers -> WorkerStates] /\ \A v \in Workers : WorkerInv(v)'
BY Zenon DEF DecisionInv, WorkTypeOK, WorkerInv, BooksGrow, Rails

\* A batch claims keys, asks Idem once, and records its answers while they can be recorded.
LEMMA BatchStepKeeps ==
  ASSUME DecisionInv, NEW b \in Batches, BatchStep(b), UNCHANGED <<railVars, execVars>>
  PROVE  DecisionInv'
PROOF
<1>1. /\ queue \in [Keys -> Rows] /\ batch \in [Batches -> BatchStates] /\ faults \in 0 .. MaxFaults
      /\ batch[b] \in BatchStates /\ batch[b].attempt \in [Keys -> Nat]
      /\ batch[b].todo \in [Keys -> Terminal \cup {"awaiting", "none"}]
  BY Zenon DEF DecisionInv, WorkTypeOK, BatchStates
<1>2. UNCHANGED <<books, worker, faults>> /\ BooksGrow
  BY QuietRails, Zenon DEF BatchStep, railVars
<1>3. worker' \in [Workers -> WorkerStates] /\ \A v \in Workers : WorkerInv(v)'
  BY <1>2, WorkersStand, Zenon
<1>4. SUFFICES /\ queue' \in [Keys -> Rows] /\ \A j \in Keys : RowInv(j)'
               /\ decisions' \subseteq Decisions /\ DecisionsMatchPrimary'
               /\ \E s \in BatchStates : batch' = [batch EXCEPT ![b] = s]
  BY <1>1, <1>2, <1>3, BatchChanges, Zenon DEF DecisionInv, WorkTypeOK
<1>5. ASSUME NEW k \in Keys, ClaimInto(b, k)
      PROVE  /\ queue' \in [Keys -> Rows] /\ \A j \in Keys : RowInv(j)'
             /\ decisions' \subseteq Decisions /\ DecisionsMatchPrimary'
             /\ \E s \in BatchStates : batch' = [batch EXCEPT ![b] = s]
  <2>1. Claim(k)
    BY <1>5, Zenon DEF ClaimInto
  <2>2. queue' \in [Keys -> Rows] /\ (\A j \in Keys : RowInv(j)') /\ UNCHANGED decisions
    BY <2>1, RowsKept, Zenon
  <2> DEFINE n == queue'[k].attempts
             t == [batch[b].attempt EXCEPT ![k] = n]
             s == [batch[b] EXCEPT !.attempt = t]
  <2>3. n \in Nat
    BY <2>2, Zenon DEF Rows
  <2>4. batch' = [batch EXCEPT ![b] = s]
    BY <1>1, <1>5, Zenon DEF ClaimInto
  <2> HIDE DEF n
  <2>5. t \in [Keys -> Nat]
    BY <1>1, <2>3, Zenon
  <2> HIDE DEF t
  <2>6. s \in BatchStates
    BY <1>1, <2>5, Zenon DEF BatchStates
  <2> HIDE DEF s
  <2> QED BY <1>2, <2>2, <2>4, <2>6, DecisionsStand, Zenon
<1>6. CASE Ask(b)
  <2> DEFINE claimed == {k \in Keys : batch[b].attempt[k] > 0}
  <2>1. PICK answer \in [claimed -> {"provider_accepted", "confirmed_non_submission", "awaiting"}] :
          batch' = [batch EXCEPT ![b].phase = "record",
                                 ![b].todo = [k \in Keys |-> IF k \in claimed THEN answer[k] ELSE "none"]]
    BY <1>6, Zenon DEF Ask
  <2> HIDE DEF claimed
  <2> DEFINE t == [k \in Keys |-> IF k \in claimed THEN answer[k] ELSE "none"]
             s == [batch[b] EXCEPT !.phase = "record", !.todo = t]
  <2>2. t \in [Keys -> Terminal \cup {"awaiting", "none"}]
    BY Zenon DEF Terminal
  <2>3. batch' = [batch EXCEPT ![b] = s]
    BY <1>1, <2>1, Zenon
  <2> HIDE DEF t
  <2>4. s \in BatchStates
    BY <1>1, <2>2, Zenon DEF BatchStates
  <2> HIDE DEF s
  <2>5. UNCHANGED <<queue, decisions>>
    BY <1>6, Zenon DEF Ask, unknownVars
  <2>6. \A j \in Keys : RowInv(j)'
    BY <2>5, SMTT(20) DEF DecisionInv, RowInv
  <2> QED BY <1>1, <1>2, <2>3, <2>4, <2>5, <2>6, DecisionsStand, Zenon
<1>7. ASSUME NEW k \in Keys, RecordItem(b, k)
      PROVE  /\ queue' \in [Keys -> Rows] /\ \A j \in Keys : RowInv(j)'
             /\ decisions' \subseteq Decisions /\ DecisionsMatchPrimary'
             /\ \E s \in BatchStates : batch' = [batch EXCEPT ![b] = s]
  <2> DEFINE d == [key |-> k, attempt |-> batch[b].attempt[k], decision |-> batch[b].todo[k], source |-> "idem"]
             rest == [batch[b].todo EXCEPT ![k] = "none"]
             p == IF Recordable(d) /\ \E j \in Keys : rest[j] # "none" THEN "record" ELSE "done"
             s == [batch[b] EXCEPT !.todo = rest, !.phase = p]
  <2>1. RecordDecision(d) /\ batch[b].todo[k] # "none"
    BY <1>7, Zenon DEF RecordItem
  <2>2. batch' = [batch EXCEPT ![b] = s]
    BY <1>1, <1>7, Zenon DEF RecordItem
  <2>3. d \in Decisions /\ d.source = "idem"
    BY <1>1, <2>1, Zenon DEF Decisions
  <2>4. rest \in [Keys -> Terminal \cup {"awaiting", "none"}]
    BY <1>1, Zenon
  <2>5. p \in {"record", "done"}
    BY Zenon
  <2> HIDE DEF d, rest, p
  <2>6. s \in BatchStates
    BY <1>1, <2>4, <2>5, Zenon DEF BatchStates
  <2> HIDE DEF s
  <2>7. /\ queue' \in [Keys -> Rows] /\ (\A j \in Keys : RowInv(j)')
        /\ decisions' \subseteq decisions \cup {d}
    BY <2>1, <2>3, RecordKeepsRows, Zenon
  <2>8. decisions' \subseteq Decisions /\ DecisionsMatchPrimary'
    BY <1>2, <2>3, <2>7, DecisionsGrow, Zenon
  <2> QED BY <2>2, <2>6, <2>7, <2>8, Zenon
<1> QED BY <1>5, <1>6, <1>7, Zenon DEF BatchStep

\* A worker or a batch stops between two steps, a lease runs out, a row becomes due.
LEMMA TimePassesKeeps ==
  ASSUME DecisionInv, UNCHANGED <<railVars, execVars>>,
         \/ \E w \in Workers : WorkerCrash(w)
         \/ \E b \in Batches : BatchCrash(b)
         \/ \E k \in Keys : Expire(k) \/ Due(k)
  PROVE  DecisionInv'
PROOF
<1>1. batch \in [Batches -> BatchStates] /\ faults \in 0 .. MaxFaults
  BY Zenon DEF DecisionInv, WorkTypeOK
<1>2. UNCHANGED books /\ BooksGrow
  BY QuietRails, Zenon DEF railVars
<1>3. faults' \in 0 .. MaxFaults
  BY <1>1, ReconciliationAssumption, SMTT(20) DEF WorkerCrash, BatchCrash, Expire, Due, reconVars
<1>4. queue' \in [Keys -> Rows] /\ (\A j \in Keys : RowInv(j)') /\ UNCHANGED decisions
  <2>1. CASE UNCHANGED unknownVars
    BY <2>1, SMTT(20) DEF unknownVars, DecisionInv, WorkTypeOK, RowInv
  <2>2. CASE \E k \in Keys : LeaseExpires(k) \/ BecomesDue(k)
    BY <2>2, RowsKept, Zenon
  <2> QED BY <2>1, <2>2, Zenon DEF WorkerCrash, BatchCrash, Expire, Due
<1>5. worker' \in [Workers -> WorkerStates] /\ \A v \in Workers : WorkerInv(v)'
  <2>1. CASE UNCHANGED worker
    BY <1>2, <2>1, WorkersStand, Zenon
  <2>2. CASE \E w \in Workers : WorkerCrash(w)
    BY <1>2, <2>2, WorkerRests, Zenon DEF WorkerCrash
  <2> QED BY <2>1, <2>2, Zenon DEF BatchCrash, Expire, Due, reconVars
<1>6. batch' \in [Batches -> BatchStates]
  <2>1. CASE UNCHANGED batch
    BY <1>1, <2>1, Zenon
  <2>2. ASSUME NEW b \in Batches, BatchCrash(b)
        PROVE  batch' \in [Batches -> BatchStates]
    <3> DEFINE s == [batch[b] EXCEPT !.phase = "done"]
    <3>1. batch[b] \in BatchStates
      BY <1>1, Zenon
    <3>2. s \in BatchStates
      BY <3>1, Zenon DEF BatchStates
    <3>3. batch' = [batch EXCEPT ![b] = s]
      BY <1>1, <2>2, Zenon DEF BatchCrash
    <3> HIDE DEF s
    <3> QED BY <3>2, <3>3, BatchChanges, Zenon
  <2> QED BY <2>1, <2>2, Zenon DEF WorkerCrash, Expire, Due, reconVars
<1>7. decisions' \subseteq Decisions /\ DecisionsMatchPrimary'
  BY <1>2, <1>4, DecisionsStand, Zenon
<1> QED BY <1>3, <1>4, <1>5, <1>6, <1>7, Zenon DEF DecisionInv, WorkTypeOK

\* A step of the coordinators or of the rails keeps both halves; the only row it writes is
\* the one that an unknown outcome is queued under.
LEMMA RailNextKeeps ==
  ASSUME RailInv, RailNext, UNCHANGED reconVars
  PROVE  RailInv'
PROOF
<1>1. PaymentInv /\ DecisionInv
  BY Zenon DEF RailInv
<1>2. PaymentInv' /\ BooksGrow
  BY <1>1, SubmitPrimaryKeeps, QueryPrimaryKeeps, SubmitSecondaryKeeps, ProvidersKeep, ExecuteKeeps,
     FollowKeeps, RestartKeeps, Zenon DEF RailNext, Coordinate
<1>3. queue' \in [Keys -> Rows] /\ (\A j \in Keys : RowInv(j)') /\ UNCHANGED decisions
  <2>1. CASE UNCHANGED unknownVars
    BY <1>1, <2>1, SMTT(20) DEF unknownVars, DecisionInv, WorkTypeOK, RowInv
  <2>2. ASSUME NEW c \in Calls, Enqueue(c)
        PROVE  UNCHANGED unknownVars \/ \E k \in Keys, dg \in Digests : EnqueueUnknown(k, dg)
    <3>1. CallInv(c) /\ RailTypeOK /\ call[c].phase = "enqueue"
      BY <1>1, <2>2, Zenon DEF PaymentInv, Coordination, Enqueue
    <3>2. call[c].of.key \in Keys /\ call[c].of.digest \in Digests
      BY <3>1, Served, Zenon
    <3> QED BY <2>2, <3>2, Zenon DEF Enqueue
  <2>3. CASE \E k \in Keys, dg \in Digests : EnqueueUnknown(k, dg)
    BY <1>1, <2>3, RowsKept, Zenon
  <2> QED BY <2>1, <2>2, <2>3, Zenon DEF RailNext, Coordinate, Restart
<1>4. worker' \in [Workers -> WorkerStates] /\ \A v \in Workers : WorkerInv(v)'
  BY <1>1, <1>2, WorkersStand, Zenon DEF reconVars
<1>5. decisions' \subseteq Decisions /\ DecisionsMatchPrimary'
  BY <1>1, <1>2, <1>3, DecisionsStand, Zenon
<1>6. batch' \in [Batches -> BatchStates] /\ faults' \in 0 .. MaxFaults
  BY <1>1, Zenon DEF reconVars, DecisionInv, WorkTypeOK
<1> QED BY <1>2, <1>3, <1>4, <1>5, <1>6, Zenon DEF RailInv, DecisionInv, WorkTypeOK

\* The reconciliation writes neither the books nor the coordinators.
LEMMA PaymentStands ==
  ASSUME PaymentInv, UNCHANGED <<railVars, execVars>>
  PROVE  PaymentInv' /\ BooksGrow
PROOF
<1>1. UNCHANGED <<books, wire, memory, call, submitted, restarts>>
  BY Zenon DEF railVars, execVars
<1>2. RailTypeOK' /\ SubmittedOncePerProcess' /\ AcceptedMeansBooked'
  BY <1>1, Zenon DEF PaymentInv, RailTypeOK, SubmittedOncePerProcess, AcceptedMeansBooked
<1>3. Coordination'
  BY <1>1, Zenon DEF PaymentInv, Coordination, CallInv, LeadInv, Leading, OneLeader, MemoryInv
<1>4. \A k \in Keys : FallbackInv(k)'
  BY <1>1, Zenon DEF PaymentInv, FallbackInv
<1> QED BY <1>2, <1>3, <1>4, QuietRails, Zenon DEF PaymentInv

\* Every step keeps the invariant.
LEMMA RailStep ==
  ASSUME RailInv, [Next]_vars
  PROVE  RailInv'
PROOF
<1>1. PaymentInv /\ DecisionInv /\ RailTypeOK
  BY Zenon DEF RailInv, PaymentInv
<1>2. CASE Reconcile
  <2>1. UNCHANGED <<railVars, execVars>>
    BY <1>2, Zenon DEF Reconcile
  <2>2. PaymentInv'
    BY <1>1, <2>1, PaymentStands, Zenon
  <2>3. DecisionInv'
    BY <1>1, <1>2, <2>1, WorkerStepKeeps, BatchStepKeeps, TimePassesKeeps, Zenon DEF Reconcile
  <2> QED BY <2>2, <2>3, Zenon DEF RailInv
<1>3. CASE UNCHANGED vars
  <2>1. UNCHANGED <<railVars, execVars, queue, decisions, worker, batch, faults>>
    BY <1>3, Zenon DEF vars, railVars, execVars
  <2>2. PaymentInv'
    BY <1>1, <2>1, PaymentStands, Zenon
  <2>3. DecisionInv'
    BY <1>1, <2>1, SMTT(20) DEF railVars, DecisionInv, WorkTypeOK, DecisionsMatchPrimary, RowInv, WorkerInv
  <2> QED BY <2>2, <2>3, Zenon DEF RailInv
<1> QED BY <1>2, <1>3, RailNextKeeps, Zenon DEF Next

\* At the start nothing is booked, queued or decided.
LEMMA RailStart ==
  ASSUME Init
  PROVE  RailInv
PROOF
<1>1. UnknownInit /\ RailInit
  BY Zenon DEF Init
<1>2. RailTypeOK
  BY <1>1, RailAssumption, SMTT(20) DEF RailInit, RailTypeOK, Books, Memory, Forgotten, CallRecords, IdleCall, Phases, Replies
<1>3. /\ \A c \in Calls : call[c].phase = "idle" /\ call[c].reply = "none"
      /\ \A p \in Processes, k \in Keys : memory[p][k].state = "none" /\ submitted[p][k] = 0
      /\ \A k \in Keys : books["secondary"][k] = "none"
      /\ wire = {}
  BY <1>1, Zenon DEF RailInit, IdleCall, Forgotten, Rails
<1>4. Coordination
  BY <1>3, Zenon DEF Coordination, CallInv, LeadInv, Leading, OneLeader, MemoryInv, Rails
<1>5. SubmittedOncePerProcess /\ AcceptedMeansBooked /\ \A k \in Keys : FallbackInv(k)
  BY <1>3, SMTT(20) DEF SubmittedOncePerProcess, AcceptedMeansBooked, FallbackInv, Rails
<1>6. NoRow \in Rows
  BY Zenon DEF NoRow, Rows
<1>7. queue \in [Keys -> Rows] /\ decisions = {} /\ \A k \in Keys : queue[k] = NoRow
  BY <1>1, <1>6, Zenon DEF UnknownInit
<1>8. \A k \in Keys : RowInv(k)
  BY <1>7, SMTT(20) DEF RowInv, NoRow
<1>9. worker \in [Workers -> WorkerStates] /\ \A w \in Workers : WorkerInv(w)
  BY Zenon DEF Init, Idle, WorkerStates, WorkerInv
<1>10. batch \in [Batches -> BatchStates] /\ faults \in 0 .. MaxFaults
  BY ReconciliationAssumption, SMTT(20) DEF Init, BatchStates, Unclaimed
<1>11. DecisionInv
  BY <1>7, <1>8, <1>9, <1>10, Zenon DEF DecisionInv, WorkTypeOK, DecisionsMatchPrimary
<1> QED BY <1>2, <1>4, <1>5, <1>11, Zenon DEF RailInv, PaymentInv

\* The invariant is stronger than what is promised.
LEMMA RailInvSuffices ==
  ASSUME RailInv
  PROVE  RailSafety
PROOF
<1>1. PaymentInv /\ DecisionInv /\ RailTypeOK /\ WorkTypeOK
  BY Zenon DEF RailInv, PaymentInv, DecisionInv
<1>2. TypeOK
  BY <1>1, Zenon DEF TypeOK, UnknownTypeOK, RailTypeOK, WorkTypeOK, CallRecords
<1>3. NeverPaidTwice
  <2>1. \A k \in Keys : FallbackInv(k)
    BY <1>1, Zenon DEF PaymentInv
  <2> QED BY <2>1, Zenon DEF NeverPaidTwice, FallbackInv
<1>4. DecidedByLeaseHolder
  BY <1>1, Zenon DEF DecidedByLeaseHolder, DecisionInv, RowInv
<1> QED BY <1>1, <1>2, <1>3, <1>4, Zenon DEF RailSafety, PaymentInv, DecisionInv

\* For any number of processes, keys, workers and batches: no payment is open or made on both
\* rails, a process submits a key once, a caller is told of an acceptance only if it is
\* booked, and an unknown outcome is decided once, by the holder of its last lease and as the
\* primary rail knows it (failover.go, the reconciliation worker and the Idem batches).
THEOREM RailSafe == Spec => []RailSafety
PROOF
<1>1. Init => RailInv
  BY RailStart, Zenon
<1>2. RailInv /\ [Next]_vars => RailInv'
  BY RailStep, Zenon
<1>3. RailInv => RailSafety
  BY RailInvSuffices, Zenon
<1> QED BY <1>1, <1>2, <1>3, PTL DEF Spec

-----------------------------------------------------------------------------
(* Payment orders. *)

\* What division with remainder gives (TargetAmount is an integer division).
LEMMA DivisionBounds ==
  ASSUME NEW x \in Nat, NEW y \in Nat \ {0}
  PROVE  /\ x \div y \in Nat
         /\ y * (x \div y) <= x
         /\ x < y * (x \div y) + y
  BY Z3

\* TargetAmount is the nearest amount to the source amount at the locked rate.
LEMMA TargetIsNearest ==
  ASSUME NEW l \in Locks, NEW a \in Nat
  PROVE  /\ TargetAmount(l, a) \in Nat
         /\ 2 * a * LockedRate[l] <= 2 * Scale * TargetAmount(l, a) + Scale
         /\ 2 * Scale * TargetAmount(l, a) <= 2 * a * LockedRate[l] + Scale
  <1> DEFINE p == 2 * a * LockedRate[l]
             y == 2 * Scale
             q == TargetAmount(l, a)
  <1>1. LockedRate[l] \in Nat /\ Scale \in Nat \ {0}
    BY DraftingAssumption, Zenon
  <1>2. p \in Nat /\ y \in Nat \ {0} /\ p + Scale \in Nat
    BY <1>1, SMTT(20)
  <1>3. q = (p + Scale) \div y
    BY Zenon DEF TargetAmount
  <1>4. q \in Nat /\ y * q <= p + Scale /\ p + Scale < y * q + y
    BY <1>2, <1>3, DivisionBounds, Zenon
  <1> HIDE DEF p, q
  <1>5. y * q \in Nat
    BY <1>2, <1>4, SMTT(20)
  <1>6. p <= y * q + Scale /\ y * q <= p + Scale
    BY <1>1, <1>2, <1>4, <1>5, SMTT(20)
  <1> QED
    BY <1>4, <1>6, Zenon DEF p, q

\* What holds in every state: the types, the two-way binding of locks and orders,
\* and that only a created lock can pass its expiry.
DraftInv ==
  /\ DraftTypeOK
  /\ LockBacksOneOrder
  /\ \A l \in elapsed : lock[l].status # "none"

\* Initially the tables are empty.
LEMMA DraftInitially == DraftInit => DraftInv
  <1> SUFFICES ASSUME DraftInit PROVE DraftInv
    OBVIOUS
  <1>1. checks \in Seq(Results)
    BY SMTT(20) DEF DraftInit
  <1>2. lock \in [Locks -> [status : LockStatus, order : OrderKeys \cup {NoOrder}]]
    BY Zenon DEF DraftInit, LockStatus
  <1>3. order \in [OrderKeys -> Order \cup {NoOrder}] /\ elapsed \subseteq Locks
    BY Zenon DEF DraftInit
  <1>4. DraftTypeOK
    BY <1>1, <1>2, <1>3, Zenon DEF DraftInit, DraftTypeOK, ScreeningState
  <1>5. LockBacksOneOrder
    BY Zenon DEF DraftInit, LockBacksOneOrder
  <1> QED
    BY <1>4, <1>5, Zenon DEF DraftInit, DraftInv

\* Handlers that only change the status of locks keep the invariant: a created
\* lock never returns to "none" and its order stays.
LEMMA StatusStepKeepsInv ==
  ASSUME DraftInv,
         lock' \in [Locks -> [status : LockStatus, order : OrderKeys \cup {NoOrder}]],
         \A l \in Locks : /\ lock'[l].order = lock[l].order
                          /\ lock[l].status # "none" => lock'[l].status # "none",
         elapsed' \subseteq Locks,
         \A l \in elapsed' : lock'[l].status # "none",
         UNCHANGED <<order, checks, screening, provider>>
  PROVE  DraftInv'
  <1> USE DEF DraftInv
  <1>1. DraftTypeOK'
    BY Zenon DEF DraftTypeOK
  <1>2. LockBacksOneOrder'
    <2>1. \A k \in OrderKeys : order[k] # NoOrder => order[k].lock \in Locks
      BY Zenon DEF DraftTypeOK, Order
    <2> QED
      BY <2>1, Zenon DEF LockBacksOneOrder, TargetAmount
  <1> QED
    BY <1>1, <1>2, Zenon

\* Creation, passing time, cancellation and both expiry jobs are such steps.
LEMMA LockStepsKeepInv ==
  ASSUME DraftInv,
         \/ \E l \in Locks : CreateRateLock(l) \/ ElapseLock(l) \/ CancelRateLock(l)
         \/ ReminderJobExpiry
  PROVE  DraftInv'
  <1> USE DEF DraftInv, DraftTypeOK, LockStatus
  <1>1. ASSUME NEW l \in Locks, CreateRateLock(l) PROVE DraftInv'
    <2> HIDE DEF DraftInv
    <2>1. lock' \in [Locks -> [status : LockStatus, order : OrderKeys \cup {NoOrder}]]
      BY <1>1, Zenon DEF CreateRateLock, DraftInv
    <2>2. \A m \in Locks : /\ lock'[m].order = lock[m].order
                           /\ lock[m].status # "none" => lock'[m].status # "none"
      BY <1>1, Zenon DEF CreateRateLock, DraftInv
    <2> QED
      BY <1>1, <2>1, <2>2, StatusStepKeepsInv, Zenon DEF CreateRateLock, DraftInv
  <1>2. ASSUME NEW l \in Locks, ElapseLock(l) PROVE DraftInv'
    BY <1>2, StatusStepKeepsInv, Zenon DEF ElapseLock
  <1>3. ASSUME NEW l \in Locks, CancelRateLock(l) PROVE DraftInv'
    <2> HIDE DEF DraftInv
    <2>1. lock' \in [Locks -> [status : LockStatus, order : OrderKeys \cup {NoOrder}]]
      BY <1>3, Zenon DEF CancelRateLock, DraftInv
    <2>2. \A m \in Locks : /\ lock'[m].order = lock[m].order
                           /\ lock[m].status # "none" => lock'[m].status # "none"
      BY <1>3, Zenon DEF CancelRateLock, DraftInv
    <2> QED
      BY <1>3, <2>1, <2>2, StatusStepKeepsInv, Zenon DEF CancelRateLock, DraftInv
  <1>4. CASE ReminderJobExpiry
    <2> HIDE DEF DraftInv, DraftTypeOK, LockStatus
    <2>1. lock' = Expired(lock)
      BY <1>4, Zenon DEF ReminderJobExpiry, ExpireRateLocks, ExpireWithDeadlines
    <2>2. elapsed' = elapsed /\ UNCHANGED <<order, checks, screening, provider>>
      BY <1>4, Zenon DEF ReminderJobExpiry, ExpireRateLocks, ExpireWithDeadlines
    <2>3. lock' \in [Locks -> [status : LockStatus, order : OrderKeys \cup {NoOrder}]]
      BY <2>1, Zenon DEF Expired, DraftInv, DraftTypeOK, LockStatus
    <2>4. \A m \in Locks : /\ lock'[m].order = lock[m].order
                           /\ lock[m].status # "none" => lock'[m].status # "none"
      BY <2>1, Zenon DEF Expired, DraftInv, DraftTypeOK
    <2>5. elapsed' \subseteq Locks /\ \A m \in elapsed' : lock'[m].status # "none"
      BY <2>2, <2>4, Zenon DEF DraftInv, DraftTypeOK
    <2> QED
      BY <2>2, <2>3, <2>4, <2>5, StatusStepKeepsInv, Zenon
  <1> QED
    BY <1>1, <1>2, <1>3, <1>4, Zenon

\* Screening touches neither locks nor orders.
LEMMA ScreeningStepsKeepInv ==
  ASSUME DraftInv,
         \/ \E r \in Results : RecordBeneficiaryScreening(r)
         \/ ScreeningProviderChanges
  PROVE  DraftInv'
  <1>1. UNCHANGED <<lock, elapsed, order>>
    BY Zenon DEF RecordBeneficiaryScreening, ScreeningProviderChanges
  <1>2. checks' \in Seq(Results) /\ screening' \in ScreeningState /\ provider' \in BOOLEAN
    <2>1. ASSUME NEW r \in Results, RecordBeneficiaryScreening(r)
          PROVE  checks' \in Seq(Results) /\ screening' \in ScreeningState /\ provider' \in BOOLEAN
      <3>1. r.state \in ScreeningState
        BY DraftingAssumption, Zenon
      <3> QED
        BY <2>1, <3>1, SMTT(20) DEF RecordBeneficiaryScreening, DraftInv, DraftTypeOK
    <2>2. CASE ScreeningProviderChanges
      BY <2>2, Zenon DEF ScreeningProviderChanges, DraftInv, DraftTypeOK
    <2> QED
      BY <2>1, <2>2, Zenon
  <1> QED
    BY <1>1, <1>2, Zenon DEF DraftInv, DraftTypeOK, LockBacksOneOrder, TargetAmount

\* Drafting binds a fresh key and an unspent lock to each other.
LEMMA DraftingKeepsInv ==
  ASSUME DraftInv, NEW k \in OrderKeys, NEW c \in Customers, NEW l \in Locks, NEW a \in Amounts,
         DraftPaymentOrder(k, c, l, a)
  PROVE  DraftInv'
  <1> DEFINE new == [amount |-> a, target |-> TargetAmount(l, a), lock |-> l]
  <1>1. a \in Nat /\ TargetAmount(l, a) \in Nat
    BY DraftingAssumption, TargetIsNearest, Zenon
  <1>2. new \in Order /\ new # NoOrder /\ k # NoOrder
    BY <1>1, DraftingAssumption, SMTT(20) DEF Order
  <1>3. /\ lock[l].status = "locked" /\ lock[l].order = NoOrder /\ order[k] = NoOrder
        /\ new.target > 0
        /\ order' = [order EXCEPT ![k] = new]
        /\ lock' = [lock EXCEPT ![l].order = k]
        /\ UNCHANGED <<elapsed, checks, screening, provider>>
    BY Zenon DEF DraftPaymentOrder, Draftable, Live, Unspent
  <1>4. new.lock = l /\ new.amount = a /\ new.target = TargetAmount(l, a)
    OBVIOUS
  <1> HIDE DEF new
  <1>5. DraftTypeOK'
    BY <1>2, <1>3, Zenon DEF DraftInv, DraftTypeOK
  <1>6. /\ order'[k] = new /\ \A j \in OrderKeys \ {k} : order'[j] = order[j]
        /\ lock'[l].order = k /\ \A m \in Locks \ {l} : lock'[m] = lock[m]
        /\ lock'[l].status = lock[l].status
    BY <1>3, Zenon DEF DraftInv, DraftTypeOK
  <1>0. /\ lock \in [Locks -> [status : LockStatus, order : OrderKeys \cup {NoOrder}]]
        /\ order \in [OrderKeys -> Order \cup {NoOrder}] /\ LockBacksOneOrder
    BY Zenon DEF DraftInv, DraftTypeOK
  <1>7. \A j \in OrderKeys : order'[j] # NoOrder =>
           /\ lock'[order'[j].lock].order = j
           /\ order'[j].target = TargetAmount(order'[j].lock, order'[j].amount)
           /\ order'[j].target > 0
    <2> TAKE j \in OrderKeys
    <2> HAVE order'[j] # NoOrder
    <2>1. CASE j = k
      BY <2>1, <1>3, <1>4, <1>6, Zenon
    <2>2. CASE j # k
      <3>1. order'[j] = order[j] /\ order[j] \in Order /\ order[j].lock \in Locks
        BY <2>2, <1>0, <1>6, Zenon DEF Order
      <3>2. /\ lock[order[j].lock].order = j /\ j # NoOrder /\ order[j].target > 0
            /\ order[j].target = TargetAmount(order[j].lock, order[j].amount)
        BY <3>1, <1>0, DraftingAssumption, Zenon DEF LockBacksOneOrder
      <3>3. lock'[order[j].lock] = lock[order[j].lock]
        BY <3>1, <3>2, <1>3, <1>6, Zenon
      <3> QED
        BY <3>1, <3>2, <3>3, Zenon
    <2> QED
      BY <2>1, <2>2, Zenon
  <1>8. \A m \in Locks : lock'[m].order # NoOrder =>
           /\ order'[lock'[m].order] # NoOrder
           /\ order'[lock'[m].order].lock = m
           /\ lock'[m].status # "none"
    <2> TAKE m \in Locks
    <2> HAVE lock'[m].order # NoOrder
    <2>1. CASE m = l
      BY <2>1, <1>2, <1>3, <1>4, <1>6, Zenon
    <2>2. CASE m # l
      <3>1. lock'[m] = lock[m] /\ lock[m].order \in OrderKeys
        BY <2>2, <1>0, <1>6, ZenonT(40)
      <3>2. /\ order[lock[m].order] # NoOrder /\ order[lock[m].order].lock = m
            /\ lock[m].status # "none"
        BY <3>1, <1>0, Zenon DEF LockBacksOneOrder
      <3>3. order'[lock[m].order] = order[lock[m].order]
        BY <3>1, <3>2, <1>3, <1>6, Zenon
      <3> QED
        BY <3>1, <3>2, <3>3, Zenon
    <2> QED
      BY <2>1, <2>2, Zenon
  <1>9. LockBacksOneOrder'
    BY <1>7, <1>8, Zenon DEF LockBacksOneOrder, TargetAmount
  <1> QED
    BY <1>3, <1>5, <1>6, <1>9, SMTT(20) DEF DraftInv

\* Every step keeps the invariant.
LEMMA DraftStep == DraftInv /\ [DraftNext]_draftVars => DraftInv'
  <1>1. CASE UNCHANGED draftVars
    BY <1>1, Zenon DEF draftVars, DraftInv, DraftTypeOK, LockBacksOneOrder, TargetAmount
  <1> QED
    BY <1>1, LockStepsKeepInv, ScreeningStepsKeepInv, DraftingKeepsInv, Zenon DEF DraftNext

\* The screening state follows the newest result, whatever answers arrive and in
\* whatever order (recordPostgresBeneficiaryScreening).
THEOREM ScreeningNewest == DraftSpec => []ScreeningFollowsNewest
  <1>1. DraftInit => ScreeningFollowsNewest
    BY Zenon DEF DraftInit, ScreeningFollowsNewest
  <1>2. ASSUME DraftInv, ScreeningFollowsNewest, NEW r \in Results, RecordBeneficiaryScreening(r)
        PROVE  ScreeningFollowsNewest'
    <2> DEFINE n == Len(checks) + 1
    <2>1. checks \in Seq(Results) /\ checks' = Append(checks, r) /\ screening' = r.state
      BY <1>2, Zenon DEF DraftInv, DraftTypeOK, RecordBeneficiaryScreening
    <2>2. DOMAIN checks = 1..Len(checks) /\ DOMAIN checks' = 1..n /\ n \in DOMAIN checks'
      BY <2>1, SMTT(20)
    <2>3. checks'[n] = r /\ \A j \in DOMAIN checks : checks'[j] = checks[j]
      BY <2>1, SMTT(20)
    <2>4. \A j \in DOMAIN checks : checks[j].at \in Nat /\ r.at \in Nat /\ checks[j].at <= r.at
      BY <1>2, <2>1, DraftingAssumption, SMTT(20) DEF RecordBeneficiaryScreening
    <2>5. \A j \in DOMAIN checks' : \/ checks'[j].at < checks'[n].at
                                    \/ checks'[j].at = checks'[n].at /\ j <= n
      BY <2>2, <2>3, <2>4, SMTT(20)
    <2>6. screening' = checks'[n].state
      BY <2>1, <2>3, Zenon
    <2> QED
      BY <2>2, <2>5, <2>6, Zenon DEF ScreeningFollowsNewest
  <1>3. DraftInv /\ ScreeningFollowsNewest /\ [DraftNext]_draftVars => ScreeningFollowsNewest'
    <2> SUFFICES ASSUME DraftInv, ScreeningFollowsNewest, [DraftNext]_draftVars
                 PROVE  ScreeningFollowsNewest'
      OBVIOUS
    <2>1. \/ \E r \in Results : RecordBeneficiaryScreening(r)
          \/ UNCHANGED <<checks, screening>>
      BY Zenon DEF DraftNext, draftVars, CreateRateLock, ElapseLock, CancelRateLock, ReminderJobExpiry,
             ExpireRateLocks, ExpireWithDeadlines, ScreeningProviderChanges, DraftPaymentOrder
    <2> QED
      BY <2>1, <1>2, Zenon DEF ScreeningFollowsNewest
  <1> QED
    BY <1>1, <1>3, DraftInitially, DraftStep, PTL DEF DraftSpec

\* The rows have their types, locks and orders agree both ways, and screening is
\* current, for any number of locks, keys, rates and racing requests.
THEOREM DraftingSafe == DraftSpec => []DraftingSafety
  <1>1. DraftInv => DraftTypeOK /\ LockBacksOneOrder
    BY Zenon DEF DraftInv
  <1> QED
    BY <1>1, DraftInitially, DraftStep, ScreeningNewest, PTL DEF DraftSpec, DraftingSafety

\* Closed locks, spent locks and drafted orders are final (createPostgresPaymentOrder,
\* cancelPostgresRateLock, expirePostgresRateLocks).
THEOREM SpentForever == DraftSpec => SpentStaysSpent
  <1> DEFINE Final ==
        /\ \A l \in Locks :
             /\ lock[l].status \in {"expired", "cancelled"} => lock'[l].status = lock[l].status
             /\ lock[l].order # NoOrder => lock'[l].order = lock[l].order
        /\ \A k \in OrderKeys : order[k] # NoOrder => order'[k] = order[k]
  <1>1. DraftInv /\ [DraftNext]_draftVars => [Final]_draftVars
    <2> SUFFICES ASSUME DraftInv, DraftNext PROVE Final
      OBVIOUS
    <2> USE DEF DraftInv, DraftTypeOK
    <2>1. ASSUME NEW l \in Locks, CreateRateLock(l) \/ ElapseLock(l) \/ CancelRateLock(l) PROVE Final
      BY <2>1, SMTT(20) DEF CreateRateLock, ElapseLock, CancelRateLock
    <2>2. CASE ReminderJobExpiry
      BY <2>2 DEF ReminderJobExpiry, ExpireRateLocks, ExpireWithDeadlines, Expired
    <2>3. CASE \/ \E r \in Results : RecordBeneficiaryScreening(r)
               \/ ScreeningProviderChanges
      BY <2>3, Zenon DEF RecordBeneficiaryScreening, ScreeningProviderChanges
    <2>4. ASSUME NEW k \in OrderKeys, NEW c \in Customers, NEW l \in Locks, NEW a \in Amounts,
                 DraftPaymentOrder(k, c, l, a)
          PROVE  Final
      BY <2>4, Zenon DEF DraftPaymentOrder, Draftable, Unspent
    <2> QED
      BY <2>1, <2>2, <2>3, <2>4, Zenon DEF DraftNext
  <1> QED
    BY <1>1, DraftInitially, DraftStep, PTL DEF DraftSpec, SpentStaysSpent

\* Every step of the handlers is a step of the quote contract or changes neither
\* quotes nor sales.
LEMMA StepRefines ==
  ASSUME DraftInv, DraftNext
  PROVE  [Quotes!QuoteNext]_<<[l \in Locks |-> QuoteState(l)], order>>
  <1> DEFINE quote == [l \in Locks |-> QuoteState(l)]
             Stutter == UNCHANGED <<quote, order>>
  <1> USE DEF DraftInv, DraftTypeOK
  <1>1. ASSUME NEW l \in Locks, CreateRateLock(l) PROVE Quotes!Offer(l)
    <2>1. lock[l].order = NoOrder /\ l \notin elapsed
      BY <1>1, Zenon DEF CreateRateLock, LockBacksOneOrder
    <2> QED
      BY <1>1, <2>1, Zenon DEF CreateRateLock, Quotes!Offer, QuoteState, Live, Unspent
  <1>2. ASSUME NEW l \in Locks, ElapseLock(l) \/ CancelRateLock(l) PROVE Quotes!Close(l) \/ Stutter
    <2>1. /\ lock[l].status = "locked" /\ lock'[l].status # "none"
          /\ order' = order
          /\ ~Live(l)'
      BY <1>2 DEF ElapseLock, CancelRateLock, Live
    <2>2. \A m \in Locks \ {l} : QuoteState(m)' = QuoteState(m)
      BY <1>2, Zenon DEF ElapseLock, CancelRateLock, QuoteState, Live, Unspent
    <2>3. QuoteState(l)' = "closed" /\ QuoteState(l) \in {"open", "closed"}
      BY <2>1, Zenon DEF QuoteState
    <2>4. CASE QuoteState(l) = "open"
      <3>1. quote[l] = "open" /\ quote' = [quote EXCEPT ![l] = "closed"]
        BY <2>2, <2>3, <2>4, Zenon
      <3> QED
        BY <2>1, <3>1, Zenon DEF Quotes!Close
    <2>5. CASE QuoteState(l) = "closed"
      <3>1. quote' = quote
        BY <2>2, <2>3, <2>5, Zenon
      <3> QED
        BY <2>1, <3>1, Zenon
    <2> QED
      BY <2>3, <2>4, <2>5, Zenon
  <1>3. CASE ReminderJobExpiry
    BY <1>3, Zenon DEF ReminderJobExpiry, ExpireRateLocks, ExpireWithDeadlines, Expired, QuoteState, Live, Unspent
  <1>4. CASE \/ \E r \in Results : RecordBeneficiaryScreening(r)
             \/ ScreeningProviderChanges
    BY <1>4, Zenon DEF RecordBeneficiaryScreening, ScreeningProviderChanges, QuoteState, Live, Unspent
  <1>5. ASSUME NEW k \in OrderKeys, NEW c \in Customers, NEW l \in Locks, NEW a \in Amounts,
               DraftPaymentOrder(k, c, l, a)
        PROVE  Quotes!Sell(k, l)
    <2> DEFINE new == [amount |-> a, target |-> TargetAmount(l, a), lock |-> l]
    <2> HIDE DEF DraftInv, DraftTypeOK
    <2>0. a \in Nat /\ TargetAmount(l, a) \in Nat
      BY DraftingAssumption, TargetIsNearest, Zenon
    <2>1. a \in Nat /\ new \in Order /\ new # NoOrder /\ k # NoOrder
      BY <2>0, DraftingAssumption, SMTT(20) DEF Order
    <2> USE DEF DraftInv, DraftTypeOK
    <2>2. /\ order[k] = NoOrder /\ lock[l].order = NoOrder
          /\ lock[l].status = "locked" /\ l \notin elapsed
          /\ order' = [order EXCEPT ![k] = new] /\ lock' = [lock EXCEPT ![l].order = k]
          /\ elapsed' = elapsed /\ new.target > 0
      BY <1>5, Zenon DEF DraftPaymentOrder, Draftable, Live, Unspent
    <2>3. Quotes!NearestTo(l, new)
      BY <2>1, TargetIsNearest, Zenon DEF Quotes!NearestTo
    <2>4. new.lock = l
      OBVIOUS
    <2> HIDE DEF new
    <2>5. order'[k] = new /\ \A j \in OrderKeys \ {k} : order'[j] = order[j]
      BY <2>2, Zenon
    <2>6. QuoteState(l) = "open" /\ QuoteState(l)' = "closed"
      BY <2>1, <2>2, Zenon DEF QuoteState, Live, Unspent
    <2>7. \A m \in Locks \ {l} : QuoteState(m)' = QuoteState(m)
      BY <2>2, Zenon DEF QuoteState, Live, Unspent
    <2>8. quote[l] = "open" /\ quote' = [quote EXCEPT ![l] = "closed"]
      BY <2>6, <2>7, Zenon
    <2> QED
      BY <2>1, <2>2, <2>3, <2>4, <2>5, <2>8, Zenon DEF Quotes!Sell
  <1> QED
    BY <1>1, <1>2, <1>3, <1>4, <1>5, Zenon DEF DraftNext, Quotes!QuoteNext

\* Drafting implements the quote contract: for any instance, a quote is sold at
\* most once, only while it is open, at the nearest amount to its locked rate.
THEOREM DraftingImplementsQuotes == DraftSpec => ImplementsQuotes
  <1>1. DraftInit => Quotes!QuoteInit
    BY SMTT(20) DEF DraftInit, Quotes!QuoteInit, QuoteState
  <1>2. DraftInv /\ [DraftNext]_draftVars
          => [Quotes!QuoteNext]_<<[l \in Locks |-> QuoteState(l)], order>>
    <2>1. UNCHANGED draftVars => UNCHANGED <<[l \in Locks |-> QuoteState(l)], order>>
      BY Zenon DEF draftVars, QuoteState, Live, Unspent
    <2> QED
      BY <2>1, StepRefines, Zenon
  <1> QED
    BY <1>1, <1>2, DraftInitially, DraftStep, PTL DEF DraftSpec, ImplementsQuotes, Quotes!QuoteSpec
=============================================================================
