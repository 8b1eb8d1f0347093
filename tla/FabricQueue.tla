----------------------------- MODULE FabricQueue -----------------------------
(***************************************************************************)
(* The durable Fabric attestation queue: workers claim due rows under a    *)
(* lease, wait for an admission slot, check the release manifest and the   *)
(* evidence, submit to the consortium chaincode and record the outcome.    *)
(*                                                                         *)
(* The attestation ID is a hash of release, evidence and digest, so one    *)
(* item stands for one ID.  Time is a counter; every claim counts as a     *)
(* fresh lease token, since attempts and token are compared together.      *)
(***************************************************************************)
EXTENDS Naturals, FiniteSets

CONSTANTS Items, Workers, Processes,
          ProcessOf,        \* [Workers -> Processes]: a process has one AdmissionController
          AdmissionLimit,   \* its slots
          LeaseDuration, RetryDelay,
          MaxTime,          \* bound on the clock
          GatewayDecodes    \* the chaincode's answer decodes into attestation.Record

ASSUME QueueAssumption ==
  /\ IsFiniteSet(Workers) /\ ProcessOf \in [Workers -> Processes]
  /\ AdmissionLimit \in Nat \ {0}
  /\ LeaseDuration \in Nat \ {0} /\ RetryDelay \in Nat \ {0} /\ MaxTime \in Nat
  /\ GatewayDecodes \in BOOLEAN

VARIABLES now,
          queue,    \* [Items -> rows of fabric_attestation_queue]
          work,     \* [Workers -> [phase, item, attempts]]
          slots,    \* [Processes -> admission slots in use]
          chain,    \* items whose attestation the channel holds
          inFlight, \* items with a submission that was given up on
          submits   \* [Items -> submissions started]

queueVars == <<queue, slots>>
chainVars == <<chain, inFlight, submits>>
fabricVars == <<now, queueVars, chainVars, work>>

NotQueued == [state |-> "none", attempts |-> 0, leaseUntil |-> 0, next |-> 0]
NoWork == [phase |-> "poll", item |-> "none", attempts |-> 0]
NoItem == {"none"}

WorkPhases == {"poll", "admission", "gate", "submit", "complete", "hold"}
\* Phases in which ProcessOne holds an admission slot.
HoldingSlot == {"gate", "submit", "complete", "hold"}

FabricInit ==
  /\ now = 0
  /\ queue = [i \in Items |-> NotQueued]
  /\ work = [w \in Workers |-> NoWork]
  /\ slots = [p \in Processes |-> 0]
  /\ chain = {}
  /\ inFlight = {}
  /\ submits = [i \in Items |-> 0]

-----------------------------------------------------------------------------
Tick == now < MaxTime /\ now' = now + 1 /\ UNCHANGED <<queueVars, chainVars, work>>

\* INSERT ... ON CONFLICT DO NOTHING.
Enqueue(i) ==
  /\ queue[i].state = "none"
  /\ queue' = [queue EXCEPT ![i] = [@ EXCEPT !.state = "pending", !.next = now]]
  /\ UNCHANGED <<now, slots, chainVars, work>>

Due(i) ==
  \/ queue[i].state \in {"pending", "unknown"} /\ queue[i].next <= now
  \/ queue[i].state = "running" /\ queue[i].leaseUntil < now

\* The due row with the earliest next_attempt_at becomes this worker's.
Claim(w) ==
  /\ work[w].phase = "poll"
  /\ \E i \in Items :
       /\ Due(i)
       /\ \A j \in Items : Due(j) => queue[i].next <= queue[j].next
       /\ queue' = [queue EXCEPT ![i] = [@ EXCEPT !.state = "running", !.attempts = queue[i].attempts + 1,
                                                  !.leaseUntil = now + LeaseDuration]]
       /\ work' = [work EXCEPT ![w] = [phase |-> "admission", item |-> i,
                                       attempts |-> queue[i].attempts + 1]]
  /\ UNCHANGED <<now, slots, chainVars>>

Goto(w, phase) == work' = [work EXCEPT ![w] = [@ EXCEPT !.phase = phase]]

Acquire(w) ==
  /\ work[w].phase = "admission"
  /\ slots[ProcessOf[w]] < AdmissionLimit
  /\ slots' = [slots EXCEPT ![ProcessOf[w]] = @ + 1]
  /\ Goto(w, "gate")
  /\ UNCHANGED <<now, queue, chainVars>>

\* The manifest gate, the evidence and its digest: a failure holds the item. A
\* claimed item always says "running", so the reconciling branch is never taken.
Gate(w) ==
  /\ work[w].phase = "gate"
  /\ \E phase \in {"submit", "hold"} : Goto(w, phase)
  /\ UNCHANGED <<now, queueVars, chainVars>>

\* Faulty variant: the chaincode does not look for an existing attestation and
\* the worker takes any answer for a confirmation.
SubmitUnchecked(w) ==
  /\ work[w].phase = "submit"
  /\ submits' = [submits EXCEPT ![work[w].item] = @ + 1]
  /\ Goto(w, "complete")
  /\ UNCHANGED <<now, queueVars, chain, inFlight>>

\* The chaincode refuses an attestation ID that exists.
CreateAttestation(i) == i \notin chain /\ chain' = chain \cup {i}

\* A confirmed creation completes the item if its answer decodes; a timeout leaves
\* the submission under way; any other error had no effect.
Submit(w) ==
  LET i == work[w].item
  IN /\ work[w].phase = "submit"
     /\ submits' = [submits EXCEPT ![i] = @ + 1]
     /\ \/ /\ CreateAttestation(i)
           /\ Goto(w, IF GatewayDecodes THEN "complete" ELSE "hold")
           /\ UNCHANGED inFlight
        \/ inFlight' = inFlight \cup {i} /\ Goto(w, "hold") /\ UNCHANGED chain
        \/ Goto(w, "hold") /\ UNCHANGED <<chain, inFlight>>
     /\ UNCHANGED <<now, queueVars>>

\* A submission given up on is ordered by the channel after all, or is lost.
Land(i) ==
  /\ i \in inFlight
  /\ inFlight' = inFlight \ {i}
  /\ CreateAttestation(i) \/ UNCHANGED chain
  /\ UNCHANGED <<now, queueVars, submits, work>>

\* WHERE state='running' AND attempts=$2 AND lease_token=$3.
HoldsLease(w) ==
  /\ queue[work[w].item].state = "running"
  /\ queue[work[w].item].attempts = work[w].attempts

Done(w) ==
  /\ work' = [work EXCEPT ![w] = NoWork]
  /\ slots' = IF work[w].phase \in HoldingSlot THEN [slots EXCEPT ![ProcessOf[w]] = @ - 1] ELSE slots

\* Faulty variant: the lease is not compared.
MarkCompleteAnyLease(w) ==
  /\ work[w].phase = "complete"
  /\ Done(w)
  /\ queue' = [queue EXCEPT ![work[w].item] = [@ EXCEPT !.state = "complete", !.attempts = work[w].attempts]]
  /\ UNCHANGED <<now, chainVars>>

\* The update finds the lease and takes effect, or it changes nothing.
MarkComplete(w) ==
  /\ work[w].phase = "complete"
  /\ Done(w)
  /\ \/ HoldsLease(w) /\ queue' = [queue EXCEPT ![work[w].item] = [@ EXCEPT !.state = "complete"]]
     \/ UNCHANGED queue
  /\ UNCHANGED <<now, chainVars>>

\* hold, and a worker whose context ends while it waits for a slot.
MarkUnknown(w) ==
  /\ work[w].phase \in {"hold", "admission"}
  /\ Done(w)
  /\ \/ /\ HoldsLease(w)
        /\ queue' = [queue EXCEPT ![work[w].item] = [@ EXCEPT !.state = "unknown", !.next = now + RetryDelay]]
     \/ UNCHANGED queue
  /\ UNCHANGED <<now, chainVars>>

\* A process stops and is restarted; its rows wait for their leases to run out.
Crash(p) ==
  /\ \E w \in Workers : ProcessOf[w] = p /\ work[w].phase # "poll"
  /\ work' = [w \in Workers |-> IF ProcessOf[w] = p THEN NoWork ELSE work[w]]
  /\ slots' = [slots EXCEPT ![p] = 0]
  /\ UNCHANGED <<now, queue, chainVars>>

Step(w) == Acquire(w) \/ Gate(w) \/ Submit(w) \/ MarkComplete(w) \/ MarkUnknown(w)

FabricNext ==
  \/ Tick
  \/ \E i \in Items : Enqueue(i) \/ Land(i)
  \/ \E w \in Workers : Claim(w) \/ Step(w)
  \/ \E p \in Processes : Crash(p)

FabricSpec == FabricInit /\ [][FabricNext]_fabricVars

-----------------------------------------------------------------------------
\* The queue rows, the workers and the chain have their types.
FabricTypeOK ==
  /\ now \in 0 .. MaxTime
  /\ queue \in [Items -> [state : {"none", "pending", "running", "unknown", "complete"},
                          attempts : Nat, leaseUntil : Nat, next : Nat]]
  /\ work \in [Workers -> [phase : WorkPhases, item : Items \cup NoItem, attempts : Nat]]
  /\ slots \in [Processes -> 0 .. AdmissionLimit]
  /\ chain \subseteq Items
  /\ inFlight \subseteq Items
  /\ submits \in [Items -> Nat]

\* A row is complete only if the channel holds its attestation.
CompleteMeansAttested == \A i \in Items : queue[i].state = "complete" => i \in chain

\* A slot is in use exactly while a worker is between Acquire and Release, so the
\* calls to Fabric never exceed the limit and no slot leaks.
SlotsBalance ==
  \A p \in Processes :
    slots[p] = Cardinality({w \in Workers : ProcessOf[w] = p /\ work[w].phase \in HoldingSlot})

\* Of all the workers that have claimed an item, the newest one alone can record
\* an outcome, and a completed row never changes.
OnlyLeaseholderWrites ==
  [][\A i \in Items :
       /\ queue[i].state = "complete" => queue'[i] = queue[i]
       /\ queue[i].state = "running" /\ queue'[i].state \in {"unknown", "complete"} =>
            \E w \in Workers : /\ work[w].item = i /\ work[w].attempts = queue[i].attempts
                               /\ work'[w] = NoWork]_fabricVars

\* An item whose submission had no confirmed outcome is only read from Fabric
\* afterwards: "It never performs a blind duplicate submission".
NoBlindResubmission == \A i \in Items : submits[i] <= 1

\* A completed row is attested, and the admission slots are those of the running
\* submissions, through every crash, timeout and takeover (queue.go, worker.go).
QueueSafety ==
  /\ FabricTypeOK
  /\ CompleteMeansAttested
  /\ SlotsBalance
=============================================================================
