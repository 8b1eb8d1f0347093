--------------------------- MODULE SettlementFence ---------------------------
(***************************************************************************)
(* The settlement fence: operators' OPEN and FENCE commands reach the      *)
(* replicas of the payment engine, which record them in PostgreSQL, and    *)
(* ledger postings that are admitted by locking the fence row until the    *)
(* TigerBeetle call has returned.                                          *)
(*                                                                         *)
(* A command that fails validation (signature, environment, window) leaves *)
(* no trace; Receive is the delivery of one that passes.                   *)
(***************************************************************************)
EXTENDS Naturals, FiniteSets

CONSTANTS Replicas,          \* payment-engine processes
          Posts,             \* ledger attempts through GuardedLedger
          PostReplica,       \* [Posts -> Replicas]
          Commands,          \* signed commands: [id, action, digest]
          Deliveries,        \* which replicas which commands are sent to
          MaxVersion         \* bound on the version sequence

ASSUME FenceAssumption ==
  /\ PostReplica \in [Posts -> Replicas]
  /\ Deliveries \subseteq Replicas \X Commands
  /\ \A c \in Commands : c.action \in {"FENCE", "OPEN"}
  /\ MaxVersion \in Nat
  /\ "none" \notin Posts

VARIABLES row,       \* settlement_fence_state of the environment
          recorded,  \* settlement_fence_commands: [command, version]
          seqno,     \* settlement_fence_command_version_seq
          advisory,  \* the delivery holding the environment's advisory lock
          rowLock,   \* the post holding the row lock, or "none"
          delivery,  \* [Deliveries -> phase of ApplyContext]
          post,      \* [Posts -> phase of postPendingOperation]
          broken,    \* posts whose admission transaction has ended early
          applied,   \* posts the ledger has applied
          local,     \* [Replicas -> BOOLEAN]: the process believes it is fenced
          seen       \* [Replicas -> command IDs applied by this process]

fenceVars == <<row, recorded, seqno, advisory, rowLock, delivery, local, seen>>
postVars  == <<post, broken, applied>>
vars == <<fenceVars, postVars>>

NoRow == [exists |-> FALSE, fenced |-> TRUE, version |-> 0]
Free  == <<"none">>

Open == row.exists /\ ~row.fenced /\ row.version > 0

DeliveryPhases == {"idle", "record", "insert", "local"}
PostPhases == {"idle", "admitted", "sent", "answered", "done"}

Init ==
  /\ row = NoRow
  /\ recorded = {}
  /\ seqno = 0
  /\ advisory = Free
  /\ rowLock = "none"
  /\ delivery = [d \in Deliveries |-> "idle"]
  /\ post = [p \in Posts |-> "idle"]
  /\ broken = {}
  /\ applied = {}
  /\ local = [r \in Replicas |-> TRUE]
  /\ seen = [r \in Replicas |-> {}]

-----------------------------------------------------------------------------
(* ApplyContext on one replica, d = <<replica, command>>. *)

GotoD(d, phase) == delivery' = [delivery EXCEPT ![d] = phase]

\* A valid command arrives; one this process has already applied is acknowledged.
Receive(d) ==
  /\ delivery[d] = "idle"
  /\ d[2].id \notin seen[d[1]]
  /\ GotoD(d, "record")
  /\ UNCHANGED <<row, recorded, seqno, advisory, rowLock, local, seen, postVars>>

\* Faulty variant: commands are inserted without the advisory lock.
InsertCommandUnlocked(d) ==
  /\ delivery[d] = "record"
  /\ seqno < MaxVersion
  /\ seqno' = seqno + 1
  /\ advisory' = d
  /\ GotoD(d, "insert")
  /\ UNCHANGED <<row, recorded, rowLock, local, seen, postVars>>

\* RecordFenceCommandContext takes the advisory lock and inserts the command,
\* which draws a version even if the command turns out to be recorded.
InsertCommand(d) ==
  /\ delivery[d] = "record"
  /\ advisory = Free
  /\ seqno < MaxVersion
  /\ seqno' = seqno + 1
  /\ advisory' = d
  /\ GotoD(d, "insert")
  /\ UNCHANGED <<row, recorded, rowLock, local, seen, postVars>>

SameID(c) == {e \in recorded : e.command.id = c.id}

\* A new command is recorded together with its state, once no admission holds
\* the row.
ApplyState(d) ==
  /\ rowLock = "none"
  /\ row' = [exists |-> TRUE, fenced |-> d[2].action = "FENCE", version |-> seqno]
  /\ recorded' = recorded \cup {[command |-> d[2], version |-> seqno]}

\* The transaction commits: a new command changes the state, an exact replay
\* changes nothing, another command under the same ID is refused. The commit
\* can take effect although its caller sees an error.
Commit(d) ==
  /\ delivery[d] = "insert"
  /\ advisory' = Free
  /\ \/ /\ SameID(d[2]) = {}
        /\ ApplyState(d)
        /\ \E phase \in {"local", "idle"} : GotoD(d, phase)
     \/ /\ \E e \in SameID(d[2]) : e.command = d[2]
        /\ GotoD(d, "local")
        /\ UNCHANGED <<row, recorded>>
     \/ /\ \E e \in SameID(d[2]) : e.command # d[2]
        /\ GotoD(d, "idle")
        /\ UNCHANGED <<row, recorded>>
  /\ UNCHANGED <<seqno, rowLock, local, seen, postVars>>

\* The transaction is rolled back: an error, or the request's context ended.
Rollback(d) ==
  /\ delivery[d] \in {"record", "insert"}
  /\ advisory' = IF delivery[d] = "insert" THEN Free ELSE advisory
  /\ GotoD(d, "idle")
  /\ UNCHANGED <<row, recorded, seqno, rowLock, local, seen, postVars>>

\* The process's own state follows, unless the command was seen meanwhile.
SetLocal(d) ==
  /\ delivery[d] = "local"
  /\ local' = [local EXCEPT ![d[1]] = IF d[2].id \in seen[d[1]] THEN @ ELSE d[2].action = "FENCE"]
  /\ seen' = [seen EXCEPT ![d[1]] = @ \cup {d[2].id}]
  /\ GotoD(d, "idle")
  /\ UNCHANGED <<row, recorded, seqno, advisory, rowLock, postVars>>

-----------------------------------------------------------------------------
(* A guarded ledger operation: AcquireAdmission, the TigerBeetle call, Release. *)

GotoP(p, phase) == post' = [post EXCEPT ![p] = phase]

\* Faulty variant: the admission reads the row without locking it.
AdmitUnlocked(p) ==
  /\ post[p] = "idle" /\ Open
  /\ GotoP(p, "admitted")
  /\ UNCHANGED <<fenceVars, broken, applied>>

\* SELECT ... FOR UPDATE finds the environment open and keeps the row locked.
Admit(p) ==
  /\ post[p] = "idle"
  /\ rowLock = "none" /\ Open
  /\ rowLock' = p
  /\ GotoP(p, "admitted")
  /\ UNCHANGED <<row, recorded, seqno, advisory, delivery, local, seen, broken, applied>>

\* No row, a fenced row or an error: the process also believes it is fenced.
Refuse(p) ==
  /\ post[p] = "idle"
  /\ local' = [local EXCEPT ![PostReplica[p]] = TRUE]
  /\ GotoP(p, "done")
  /\ UNCHANGED <<row, recorded, seqno, advisory, rowLock, delivery, seen, broken, applied>>

\* CreateTransfers hands the transfer to the TigerBeetle client, unless the
\* context has ended.
Send(p) ==
  /\ post[p] = "admitted"
  /\ GotoP(p, IF p \in broken THEN "answered" ELSE "sent")
  /\ UNCHANGED <<fenceVars, broken, applied>>

\* TigerBeetle applies the transfer, or rejects it, and answers.
LedgerApplies(p) ==
  /\ post[p] = "sent"
  /\ applied' \in {applied, applied \cup {p}}
  /\ GotoP(p, "answered")
  /\ UNCHANGED <<fenceVars, broken>>

\* Faulty variant: a path that forgets to release its token.
ReleaseForgotten(p) ==
  /\ post[p] = "answered"
  /\ GotoP(p, "done")
  /\ UNCHANGED <<fenceVars, broken, applied>>

\* token.Release() ends the admission transaction.
Release(p) ==
  /\ post[p] = "answered"
  /\ rowLock' = IF rowLock = p THEN "none" ELSE rowLock
  /\ GotoP(p, "done")
  /\ UNCHANGED <<row, recorded, seqno, advisory, delivery, local, seen, broken, applied>>

\* The admission transaction was begun with the caller's context, and its end
\* rolls the transaction back; the TigerBeetle call does not watch the context.
Break(p) ==
  /\ rowLock = p
  /\ rowLock' = "none"
  /\ broken' = broken \cup {p}
  /\ UNCHANGED <<row, recorded, seqno, advisory, delivery, local, seen, post, applied>>

\* CheckContext, on a transfer lookup, refreshes what the process believes.
Check(r) ==
  /\ local' \in {[local EXCEPT ![r] = row.fenced], [local EXCEPT ![r] = TRUE]}
  /\ UNCHANGED <<row, recorded, seqno, advisory, rowLock, delivery, seen, postVars>>

-----------------------------------------------------------------------------
PostStep(p) == Admit(p) \/ Refuse(p) \/ Send(p) \/ LedgerApplies(p) \/ Release(p)

Deliver(d) == InsertCommand(d) \/ Commit(d) \/ Rollback(d) \/ SetLocal(d)

Next ==
  \/ \E d \in Deliveries : Receive(d) \/ Deliver(d)
  \/ \E p \in Posts : PostStep(p) \/ Break(p)
  \/ \E r \in Replicas : Check(r)

Spec == Init /\ [][Next]_vars

\* A posting that has been admitted runs to its end, and PostgreSQL completes a
\* transaction whose locks are free.
FairSpec ==
  /\ Spec
  /\ \A p \in Posts : WF_vars(Send(p)) /\ WF_vars(LedgerApplies(p)) /\ WF_vars(Release(p))
  /\ \A d \in Deliveries : WF_vars(Commit(d))

-----------------------------------------------------------------------------
\* The fence row, the commands, the deliveries and the postings have their types.
TypeOK ==
  /\ row \in [exists : BOOLEAN, fenced : BOOLEAN, version : Nat]
  /\ recorded \subseteq [command : Commands, version : Nat]
  /\ seqno \in 0 .. MaxVersion
  /\ advisory \in Deliveries \cup {Free}
  /\ rowLock \in Posts \cup {"none"}
  /\ delivery \in [Deliveries -> DeliveryPhases]
  /\ post \in [Posts -> PostPhases]
  /\ broken \subseteq Posts
  /\ applied \subseteq Posts
  /\ local \in [Replicas -> BOOLEAN]
  /\ seen \in [Replicas -> SUBSET {c.id : c \in Commands}]

\* The ledger applies a guarded transfer only while the environment is durably
\* open: "a concurrent FENCE command cannot commit between the fence check and
\* the ledger submission" (PostConfirmedTransferWithAdmission).
NoPostingWhileFenced == [][\A p \in applied' \ applied : Open]_vars

\* What the row lock does give: a transfer whose admission transaction is still
\* open is applied only while the environment is durably open, whichever replica
\* records commands meanwhile (AcquireAdmission, RecordFenceCommandContext).
AdmissionExcludesFence == \A p \in applied' \ applied : Open \/ p \in broken

\* The durable state is always that of the newest recorded command, and no two
\* commands share an ID or a version, however many replicas receive them.
StateFollowsCommands ==
  /\ row.exists <=> recorded # {}
  /\ row.exists =>
       \E e \in recorded : /\ row.version = e.version
                           /\ row.fenced = (e.command.action = "FENCE")
                           /\ \A f \in recorded : f.version <= e.version
  /\ \A e, f \in recorded : e.command.id = f.command.id \/ e.version = f.version => e = f

\* Why StateFollowsCommands and AdmissionExcludesFence hold. The advisory lock
\* lets one transaction at a time draw a version and decide on it, so a version
\* about to be used is above all recorded ones; and a posting between admission
\* and release holds the row lock of an open environment or has lost it.
FenceInv ==
  /\ \A d \in Deliveries : delivery[d] = "insert" <=> advisory = d
  /\ \A e \in recorded : e.version <= seqno
  /\ advisory # Free => seqno > 0 /\ \A e \in recorded : e.version < seqno
  /\ ~row.exists => row.version = 0
  /\ \A p \in Posts : post[p] \in {"admitted", "sent", "answered"} => rowLock = p \/ p \in broken
  /\ rowLock # "none" => Open

\* The state changes only when a command is recorded for the first time, and
\* its version then grows: a replay never reopens the fence.
ReplayChangesNothing ==
  row' # row => row'.version > row.version /\ recorded' # recorded

\* A command that waits for the fence row is decided: postings in progress end
\* and cannot hold it up for ever.
CommandsComplete ==
  \A d \in Deliveries : delivery[d] = "insert" ~> delivery[d] # "insert"

\* The fence row, its locks and versions always are as the recorded commands and the
\* admitted postings require (fence.go, fencestore/postgres.go).
FenceSafety ==
  /\ TypeOK
  /\ FenceInv
  /\ StateFollowsCommands

\* No step applies a transfer past a fence under an open admission, and none moves
\* the fence by replaying a command (AcquireAdmission, RecordFenceCommandContext).
FenceHolds ==
  [][/\ AdmissionExcludesFence
     /\ ReplayChangesNothing]_vars
=============================================================================
