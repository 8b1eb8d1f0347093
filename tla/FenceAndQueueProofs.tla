------------------------ MODULE FenceAndQueueProofs -------------------------
(***************************************************************************)
(* The settlement fence, for any replicas, postings, commands and          *)
(* deliveries: FenceInv and StateFollowsCommands are inductive together    *)
(* with the type invariant, and the action properties of the fence follow  *)
(* from them. The queue of the Fabric worker, for any items, workers and   *)
(* processes: QueueSafety with what each worker knows is inductive.        *)
(***************************************************************************)
EXTENDS SettlementFence, FabricQueue, FiniteSetTheorems, TLAPS

-----------------------------------------------------------------------------
(* The fence. *)

\* A delivery is a pair, the free advisory lock is not.
LEMMA DeliveryIsPair ==
  ASSUME NEW d \in Deliveries
  PROVE  d[1] \in Replicas /\ d[2] \in Commands /\ d # Free
  <1>1. d \in Replicas \X Commands
    BY FenceAssumption, Zenon
  <1>2. PICK r \in Replicas, c \in Commands : d = <<r, c>>
    BY <1>1, SMTT(20)
  <1> QED
    BY <1>2, Zenon DEF Free

\* The variables have their types initially and after every step of a replica,
\* a posting or the ledger.
THEOREM FenceTypeCorrect == Spec => []TypeOK
  <1>1. Init => TypeOK
    BY FenceAssumption, SMTT(20) DEF Init, TypeOK, NoRow, DeliveryPhases, PostPhases
  <1>2. TypeOK /\ [Next]_vars => TypeOK'
    <2> SUFFICES ASSUME TypeOK, [Next]_vars PROVE TypeOK'
      OBVIOUS
    <2> USE DEF TypeOK, DeliveryPhases, PostPhases
    <2>1. ASSUME NEW d \in Deliveries, Receive(d) PROVE TypeOK'
      BY <2>1, Zenon DEF Receive, GotoD, postVars
    <2>2. ASSUME NEW d \in Deliveries, InsertCommand(d) PROVE TypeOK'
      <3>1. seqno' \in 0 .. MaxVersion
        BY <2>2, FenceAssumption, SMTT(20) DEF InsertCommand
      <3> QED
        BY <2>2, <3>1, Zenon DEF InsertCommand, GotoD, postVars
    <2>3. ASSUME NEW d \in Deliveries, Commit(d) PROVE TypeOK'
      <3>1. recorded' \subseteq [command : Commands, version : Nat] /\ row' \in [exists : BOOLEAN, fenced : BOOLEAN, version : Nat]
        <4>1. CASE ApplyState(d)
          <5>1. seqno \in Nat /\ d[2] \in Commands
            BY DeliveryIsPair, FenceAssumption, SMTT(20)
          <5> QED
            BY <4>1, <5>1, SMTT(20) DEF ApplyState
        <4>2. CASE UNCHANGED <<row, recorded>>
          BY <4>2, Zenon
        <4> QED
          BY <2>3, <4>1, <4>2, Zenon DEF Commit
      <3>2. delivery' \in [Deliveries -> DeliveryPhases] /\ advisory' = Free
        BY <2>3, Zenon DEF Commit, GotoD
      <3> QED
        BY <2>3, <3>1, <3>2, Zenon DEF Commit, postVars
    <2>4. ASSUME NEW d \in Deliveries, Rollback(d) PROVE TypeOK'
      BY <2>4, Zenon DEF Rollback, GotoD, postVars
    <2>5. ASSUME NEW d \in Deliveries, SetLocal(d) PROVE TypeOK'
      <3>1. local' \in [Replicas -> BOOLEAN]
        BY <2>5, DeliveryIsPair, Zenon DEF SetLocal
      <3>2. seen' \in [Replicas -> SUBSET {c.id : c \in Commands}]
        BY <2>5, DeliveryIsPair, Zenon DEF SetLocal
      <3> QED
        BY <2>5, <3>1, <3>2, Zenon DEF SetLocal, GotoD, postVars
    <2>6. ASSUME NEW p \in Posts, PostStep(p) \/ Break(p) PROVE TypeOK'
      BY <2>6, FenceAssumption, Zenon DEF PostStep, Admit, Refuse, Send, LedgerApplies, Release, Break, GotoP, fenceVars
    <2>7. ASSUME NEW r \in Replicas, Check(r) PROVE TypeOK'
      BY <2>7, Zenon DEF Check, postVars
    <2>8. CASE UNCHANGED vars
      BY <2>8, Zenon DEF vars, fenceVars, postVars
    <2> QED
      BY <2>1, <2>2, <2>3, <2>4, <2>5, <2>6, <2>7, <2>8, Zenon DEF Next, Deliver
  <1> QED
    BY <1>1, <1>2, PTL DEF Spec

\* A command under a new ID, recorded with a version above all others, becomes
\* the durable state.
LEMMA NewestCommandRules ==
  ASSUME TypeOK, FenceInv, StateFollowsCommands, NEW d \in Deliveries,
         advisory = d, SameID(d[2]) = {}, ApplyState(d)
  PROVE  StateFollowsCommands'
  <1> DEFINE new == [command |-> d[2], version |-> seqno]
  <1>1. recorded' = recorded \cup {new}
    BY Zenon DEF ApplyState
  <1>2. \A e \in recorded : e.version < seqno /\ e.version \in Nat /\ e.command.id # d[2].id
    BY DeliveryIsPair, Zenon DEF FenceInv, TypeOK, SameID
  <1>3. seqno \in Nat
    BY FenceAssumption, SMTT(20) DEF TypeOK
  <1>4. row' = [exists |-> TRUE, fenced |-> d[2].action = "FENCE", version |-> seqno]
    BY Zenon DEF ApplyState
  <1>5. \E e \in recorded' : /\ row'.version = e.version
                             /\ row'.fenced = (e.command.action = "FENCE")
                             /\ \A f \in recorded' : f.version <= e.version
    <2>1. \A f \in recorded' : f.version <= new.version
      BY <1>1, <1>2, <1>3, SMTT(20)
    <2>2. new \in recorded'
      BY <1>1, Zenon
    <2>3. row'.version = new.version /\ row'.fenced = (new.command.action = "FENCE")
      BY <1>4, Zenon
    <2> QED
      BY <2>1, <2>2, <2>3, Zenon
  <1>6. \A e, f \in recorded' : e.command.id = f.command.id \/ e.version = f.version => e = f
    <2>1. \A e, f \in recorded : e.command.id = f.command.id \/ e.version = f.version => e = f
      BY Zenon DEF StateFollowsCommands
    <2> QED
      BY <1>1, <1>2, <1>3, <2>1, SMTT(20)
  <1> QED
    BY <1>1, <1>4, <1>5, <1>6, Zenon DEF StateFollowsCommands

\* The steps of deliveries preserve the invariant: the advisory lock is taken
\* with the version and given back with the decision.
LEMMA DeliveryKeepsInv ==
  ASSUME TypeOK, FenceInv, StateFollowsCommands, NEW d \in Deliveries, Receive(d) \/ Deliver(d)
  PROVE  FenceInv' /\ StateFollowsCommands'
  <1>0. d # Free /\ seqno \in Nat /\ \A e \in recorded : e.version \in Nat
    BY DeliveryIsPair, FenceAssumption, SMTT(20) DEF TypeOK
  <1>1. CASE Receive(d) \/ SetLocal(d)
    BY <1>1, <1>0, SMTT(20) DEF Receive, SetLocal, GotoD, postVars, FenceInv, StateFollowsCommands, Open, TypeOK
  <1>2. CASE InsertCommand(d)
    <2>1. \A c \in Deliveries : delivery'[c] = "insert" <=> advisory' = c
      BY <1>2, DeliveryIsPair, Zenon DEF InsertCommand, GotoD, FenceInv, TypeOK
    <2>2. seqno' > 0 /\ \A e \in recorded' : e.version < seqno' /\ e.version <= seqno'
      BY <1>2, <1>0, SMTT(20) DEF InsertCommand, FenceInv
    <2> QED
      BY <1>2, <2>1, <2>2, Zenon DEF InsertCommand, postVars, FenceInv, StateFollowsCommands, Open
  <1>3. CASE Commit(d)
    <2>1. advisory = d
      BY <1>3, Zenon DEF Commit, FenceInv
    <2>2. \A c \in Deliveries : delivery'[c] = "insert" <=> advisory' = c
      BY <1>3, <2>1, DeliveryIsPair, Zenon DEF Commit, GotoD, FenceInv, TypeOK
    <2>3. CASE SameID(d[2]) = {} /\ ApplyState(d)
      <3>1. StateFollowsCommands'
        BY <2>1, <2>3, NewestCommandRules, Zenon
      <3>2. (\A e \in recorded' : e.version <= seqno) /\ rowLock = "none" /\ row'.exists
        BY <1>0, <2>3, SMTT(20) DEF ApplyState, FenceInv
      <3> QED
        BY <1>3, <2>2, <3>1, <3>2, Zenon DEF Commit, postVars, FenceInv, Open
    <2>4. CASE UNCHANGED <<row, recorded>>
      BY <1>3, <2>2, <2>4, Zenon DEF Commit, postVars, FenceInv, StateFollowsCommands, Open
    <2> QED
      BY <1>3, <2>3, <2>4, Zenon DEF Commit
  <1>4. CASE Rollback(d)
    <2>1. \A c \in Deliveries : delivery'[c] = "insert" <=> advisory' = c
      BY <1>4, DeliveryIsPair, Zenon DEF Rollback, GotoD, FenceInv, TypeOK
    <2>2. advisory' # Free => advisory # Free
      BY <1>4, Zenon DEF Rollback
    <2> QED
      BY <1>4, <2>1, <2>2, Zenon DEF Rollback, postVars, FenceInv, StateFollowsCommands, Open
  <1> QED
    BY <1>1, <1>2, <1>3, <1>4, Zenon DEF Deliver

\* The steps of postings preserve the invariant: a posting is admitted only on
\* the row lock of an open environment, and gives the lock up on release only.
LEMMA PostKeepsInv ==
  ASSUME TypeOK, FenceInv, StateFollowsCommands, NEW p \in Posts, PostStep(p) \/ Break(p)
  PROVE  FenceInv' /\ StateFollowsCommands'
  <1>0. \A q \in Posts : q # "none"
    BY FenceAssumption, Zenon
  <1>1. StateFollowsCommands' /\ UNCHANGED <<row, recorded, seqno, advisory, delivery>>
    BY Zenon DEF PostStep, Admit, Refuse, Send, LedgerApplies, Release, Break, fenceVars, StateFollowsCommands
  <1>2. \A q \in Posts : post'[q] \in {"admitted", "sent", "answered"} => rowLock' = q \/ q \in broken'
    <2> DEFINE working(q) == post[q] \in {"admitted", "sent", "answered"}
    <2>1. \A q \in Posts : working(q) => rowLock = q \/ q \in broken
      BY Zenon DEF FenceInv
    <2>2. post \in [Posts -> PostPhases]
      BY Zenon DEF TypeOK
    <2>3. CASE Admit(p)
      BY <1>0, <2>1, <2>2, <2>3, Zenon DEF Admit, GotoP
    <2>4. CASE Refuse(p)
      BY <2>1, <2>2, <2>4, Zenon DEF Refuse, GotoP
    <2>5. CASE Send(p) \/ LedgerApplies(p)
      BY <2>1, <2>2, <2>5, Zenon DEF Send, LedgerApplies, GotoP, fenceVars
    <2>6. CASE Release(p)
      BY <2>1, <2>2, <2>6, Zenon DEF Release, GotoP
    <2>7. CASE Break(p)
      BY <2>1, <2>7, Zenon DEF Break
    <2> QED
      BY <2>3, <2>4, <2>5, <2>6, <2>7, Zenon DEF PostStep
  <1>3. rowLock' # "none" => Open
    BY Zenon DEF PostStep, Admit, Refuse, Send, LedgerApplies, Release, Break, fenceVars, FenceInv
  <1> QED
    BY <1>1, <1>2, <1>3, Zenon DEF FenceInv, Open

\* The versions, the two locks and the durable state stay as FenceInv and
\* StateFollowsCommands say, whatever commands arrive where, how often and when.
THEOREM FenceInductive == Spec => [](FenceInv /\ StateFollowsCommands)
  <1>1. Init => FenceInv /\ StateFollowsCommands
    <2> SUFFICES ASSUME Init PROVE FenceInv /\ StateFollowsCommands
      OBVIOUS
    <2>1. \A d \in Deliveries : d # Free
      BY DeliveryIsPair, Zenon
    <2> QED
      BY <2>1, Zenon DEF Init, NoRow, FenceInv, StateFollowsCommands
  <1>2. TypeOK /\ FenceInv /\ StateFollowsCommands /\ [Next]_vars => (FenceInv /\ StateFollowsCommands)'
    <2> SUFFICES ASSUME TypeOK, FenceInv, StateFollowsCommands, [Next]_vars
                 PROVE  FenceInv' /\ StateFollowsCommands'
      OBVIOUS
    <2>1. CASE UNCHANGED <<row, recorded, seqno, advisory, rowLock, delivery, post, broken>>
      BY <2>1, Zenon DEF FenceInv, StateFollowsCommands, Open
    <2>2. ASSUME NEW r \in Replicas, Check(r) PROVE FenceInv' /\ StateFollowsCommands'
      BY <2>1, <2>2, Zenon DEF Check, postVars
    <2>3. CASE UNCHANGED vars
      BY <2>1, <2>3, Zenon DEF vars, fenceVars, postVars
    <2> QED
      BY <2>2, <2>3, DeliveryKeepsInv, PostKeepsInv, Zenon DEF Next
  <1> QED
    BY <1>1, <1>2, FenceTypeCorrect, PTL DEF Spec

\* Types, locks and durable state together: a replica that restarts reads back what
\* was last commanded, and a posting between admission and release holds the row.
THEOREM FenceSafe == Spec => []FenceSafety
  BY FenceTypeCorrect, FenceInductive, PTL DEF FenceSafety

\* A transfer is applied under an admission that is still open only while the
\* environment is durably open: the row lock of AcquireAdmission excludes the
\* commit of a FENCE from admission to release.
THEOREM AdmissionIsExclusive == Spec => [][AdmissionExcludesFence]_vars
  <1>1. FenceInv /\ [Next]_vars => [AdmissionExcludesFence]_vars
    <2> SUFFICES ASSUME FenceInv, Next, NEW p \in applied' \ applied PROVE Open \/ p \in broken
      BY Zenon DEF AdmissionExcludesFence
    <2>1. PICK q \in Posts : LedgerApplies(q)
      BY Zenon DEF Next, Receive, Deliver, InsertCommand, Commit, Rollback, SetLocal, PostStep, Admit, Refuse,
             Send, Release, Break, Check, postVars
    <2>2. q = p /\ post[p] = "sent"
      BY <2>1, Zenon DEF LedgerApplies
    <2>3. rowLock = p \/ p \in broken
      BY <2>1, <2>2, Zenon DEF FenceInv
    <2> QED
      BY <2>1, <2>2, <2>3, FenceAssumption, Zenon DEF FenceInv
  <1> QED
    BY <1>1, FenceInductive, PTL DEF Spec

\* The durable state changes only when a command is recorded for the first time,
\* and to a higher version: no replay, and no replica, moves it back.
THEOREM ReplayIsHarmless == Spec => [][ReplayChangesNothing]_vars
  <1>1. TypeOK /\ FenceInv /\ StateFollowsCommands /\ [Next]_vars
          => [ReplayChangesNothing]_vars
    <2> SUFFICES ASSUME TypeOK, FenceInv, StateFollowsCommands, Next, row' # row
                 PROVE  row'.version > row.version /\ recorded' # recorded
      BY Zenon DEF ReplayChangesNothing
    <2>1. PICK d \in Deliveries : Commit(d)
      BY Zenon DEF Next, Receive, Deliver, InsertCommand, Rollback, SetLocal, PostStep, Admit, Refuse,
             Send, LedgerApplies, Release, Break, Check, fenceVars
    <2>2. SameID(d[2]) = {} /\ ApplyState(d) /\ advisory = d
      BY <2>1, Zenon DEF Commit, FenceInv
    <2>3. row'.version = seqno /\ [command |-> d[2], version |-> seqno] \in recorded'
      BY <2>2, Zenon DEF ApplyState
    <2>4. seqno > 0 /\ \A e \in recorded : e.version < seqno
      BY <2>2, DeliveryIsPair, Zenon DEF FenceInv
    <2>5. row.version < seqno
      BY <2>4, Zenon DEF FenceInv, StateFollowsCommands
    <2>6. [command |-> d[2], version |-> seqno] \notin recorded
      BY <2>2, SMTT(20) DEF SameID
    <2>7. row.version \in Nat /\ seqno \in Nat
      BY FenceAssumption, SMTT(20) DEF TypeOK
    <2> QED
      BY <2>3, <2>5, <2>6, <2>7, Zenon
  <1> QED
    BY <1>1, FenceTypeCorrect, FenceInductive, PTL DEF Spec

\* Both together, of every step: no transfer past a fence under an open admission, and
\* no fence moved by a replay.
THEOREM FenceHeld == Spec => FenceHolds
  <1>1. [AdmissionExcludesFence]_vars /\ [ReplayChangesNothing]_vars
          => [AdmissionExcludesFence /\ ReplayChangesNothing]_vars
    OBVIOUS
  <1> QED
    BY <1>1, AdmissionIsExclusive, ReplayIsHarmless, PTL DEF FenceHolds

-----------------------------------------------------------------------------
(* The queue. *)

\* What a worker knows: whatever it does after a claim is about an item, and it
\* goes on to record a completion only with the attestation on the channel.
WorkInv(w) ==
  /\ work[w].phase # "poll" => work[w].item \in Items
  /\ work[w].phase = "complete" => work[w].item \in chain

\* QueueSafety is not inductive by itself: a row is completed from what a worker
\* has seen.
QueueInv == QueueSafety /\ \A w \in Workers : WorkInv(w)

\* The workers that hold an admission slot of process p.
SlotHolders(p) == {w \in Workers : ProcessOf[w] = p /\ work[w].phase \in HoldingSlot}

\* The records of the workers and of the rows.
WorkRecords == [phase : WorkPhases, item : Items \cup NoItem, attempts : Nat]
QueueRows == [state : {"none", "pending", "running", "unknown", "complete"},
              attempts : Nat, leaseUntil : Nat, next : Nat]

\* The types of the queue, with its records as sets of their own.
LEMMA QueueTypes ==
  ASSUME FabricTypeOK
  PROVE  /\ now \in Nat
         /\ queue \in [Items -> QueueRows] /\ work \in [Workers -> WorkRecords]
         /\ slots \in [Processes -> 0 .. AdmissionLimit]
PROOF
<1>1. now \in Nat
  BY QueueAssumption, SMTT(20) DEF FabricTypeOK
<1>2. queue \in [Items -> QueueRows] /\ work \in [Workers -> WorkRecords] /\ slots \in [Processes -> 0 .. AdmissionLimit]
  BY Zenon DEF FabricTypeOK, QueueRows, WorkRecords
<1> QED BY <1>1, <1>2, Zenon

\* The slot holders of a process are finitely many.
LEMMA HoldersFinite ==
  ASSUME NEW p
  PROVE  IsFiniteSet(SlotHolders(p)) /\ Cardinality(SlotHolders(p)) \in Nat
PROOF
<1>1. SlotHolders(p) \in SUBSET Workers
  BY Zenon DEF SlotHolders
<1>2. IsFiniteSet(SlotHolders(p))
  BY <1>1, FS_Subset, QueueAssumption, Zenon
<1> QED BY <1>2, FS_CardinalityType, Zenon

\* A worker that takes a slot counts as one holder more, of its process alone.
LEMMA HolderJoins ==
  ASSUME FabricTypeOK, SlotsBalance, NEW w \in Workers, work[w].phase \notin HoldingSlot,
         NEW r, r.phase \in HoldingSlot, work' = [work EXCEPT ![w] = r],
         slots' = [slots EXCEPT ![ProcessOf[w]] = @ + 1]
  PROVE  SlotsBalance'
PROOF
<1> DEFINE q == ProcessOf[w]
<1>1. q \in Processes /\ work \in [Workers -> WorkRecords]
  BY QueueAssumption, QueueTypes, Zenon
<1>2. SlotHolders(q)' = SlotHolders(q) \cup {w} /\ w \notin SlotHolders(q)
  BY <1>1, Zenon DEF SlotHolders
<1>3. \A p \in Processes \ {q} : SlotHolders(p)' = SlotHolders(p)
  BY <1>1, Zenon DEF SlotHolders
<1>4. Cardinality(SlotHolders(q)') = Cardinality(SlotHolders(q)) + 1
  <2>1. IsFiniteSet(SlotHolders(q))
    BY HoldersFinite, Zenon
  <2> QED BY <1>2, <2>1, FS_AddElement, Zenon
<1>5. slots'[q] = slots[q] + 1 /\ \A p \in Processes \ {q} : slots'[p] = slots[p]
  BY <1>1, Zenon DEF FabricTypeOK
<1>6. \A p \in Processes : slots[p] = Cardinality(SlotHolders(p))
  BY Zenon DEF SlotsBalance, SlotHolders
<1>7. \A p \in Processes : slots'[p] = Cardinality(SlotHolders(p)')
  BY <1>1, <1>3, <1>4, <1>5, <1>6, Zenon
<1> QED BY <1>7, Zenon DEF SlotsBalance, SlotHolders

\* A holder that is done gives its slot back, and there was one to give back.
LEMMA HolderLeaves ==
  ASSUME FabricTypeOK, SlotsBalance, NEW w \in Workers, work[w].phase \in HoldingSlot,
         NEW r, r.phase \notin HoldingSlot, work' = [work EXCEPT ![w] = r],
         slots' = [slots EXCEPT ![ProcessOf[w]] = @ - 1]
  PROVE  SlotsBalance' /\ slots[ProcessOf[w]] > 0
PROOF
<1> DEFINE q == ProcessOf[w]
<1>1. q \in Processes /\ work \in [Workers -> WorkRecords]
  BY QueueAssumption, QueueTypes, Zenon
<1>2. SlotHolders(q)' = SlotHolders(q) \ {w} /\ w \in SlotHolders(q)
  BY <1>1, Zenon DEF SlotHolders
<1>3. \A p \in Processes \ {q} : SlotHolders(p)' = SlotHolders(p)
  BY <1>1, Zenon DEF SlotHolders
<1>4. Cardinality(SlotHolders(q)') = Cardinality(SlotHolders(q)) - 1 /\ Cardinality(SlotHolders(q)) # 0
  BY <1>2, HoldersFinite, FS_RemoveElement, FS_EmptySet, ZenonT(40)
<1>5. slots'[q] = slots[q] - 1 /\ \A p \in Processes \ {q} : slots'[p] = slots[p]
  BY <1>1, Zenon DEF FabricTypeOK
<1>6. \A p \in Processes : slots[p] = Cardinality(SlotHolders(p))
  BY Zenon DEF SlotsBalance, SlotHolders
<1>7. \A p \in Processes : slots'[p] = Cardinality(SlotHolders(p)')
  BY <1>1, <1>3, <1>4, <1>5, <1>6, Zenon
<1>8. SlotsBalance'
  BY <1>7, Zenon DEF SlotsBalance, SlotHolders
<1>9. slots[q] > 0
  BY <1>1, <1>4, <1>6, HoldersFinite, SMTT(20)
<1> QED BY <1>8, <1>9, Zenon

\* A step that takes and releases no slot leaves the slots in balance.
LEMMA HoldersStay ==
  ASSUME SlotsBalance, slots' = slots,
         \A w \in Workers : work'[w].phase \in HoldingSlot <=> work[w].phase \in HoldingSlot
  PROVE  SlotsBalance'
PROOF
<1>1. \A p \in Processes : SlotHolders(p)' = SlotHolders(p)
  BY Zenon DEF SlotHolders
<1>2. \A p \in Processes : slots[p] = Cardinality(SlotHolders(p))
  BY Zenon DEF SlotsBalance, SlotHolders
<1>3. \A p \in Processes : slots'[p] = Cardinality(SlotHolders(p)')
  BY <1>1, <1>2, Zenon
<1> QED BY <1>3, Zenon DEF SlotsBalance, SlotHolders

\* The parts of QueueInv that a step is checked against.
LEMMA QueueParts ==
  ASSUME FabricTypeOK', CompleteMeansAttested', SlotsBalance', \A w \in Workers : WorkInv(w)'
  PROVE  QueueInv'
BY Zenon DEF QueueInv, QueueSafety

\* What a change of phase does.
LEMMA GotoEffect ==
  ASSUME FabricTypeOK, NEW w \in Workers, NEW p \in WorkPhases, Goto(w, p)
  PROVE  /\ work' \in [Workers -> WorkRecords]
         /\ work'[w].phase = p /\ work'[w].item = work[w].item
         /\ \A v \in Workers \ {w} : work'[v] = work[v]
BY Zenon DEF FabricTypeOK, Goto, WorkRecords

\* A row that is written keeps the queue well typed.
LEMMA RowWritten ==
  ASSUME FabricTypeOK, NEW i \in Items, NEW r \in QueueRows, queue' = [queue EXCEPT ![i] = r]
  PROVE  /\ queue' \in [Items -> QueueRows] /\ queue'[i] = r
         /\ \A j \in Items \ {i} : queue'[j] = queue[j]
BY QueueTypes, Zenon

\* A step of the clock, of a producer or of the channel leaves workers and slots alone.
LEMMA WorkersRest ==
  ASSUME QueueInv, work' = work, slots' = slots, submits' = submits, now' \in 0 .. MaxTime,
         queue' \in [Items -> QueueRows], \A i \in Items : queue'[i].state = "complete" => queue[i].state = "complete",
         chain \subseteq chain', chain' \subseteq Items, inFlight' \subseteq Items
  PROVE  QueueInv'
PROOF
<1>1. FabricTypeOK' /\ CompleteMeansAttested'
  BY Zenon DEF QueueInv, QueueSafety, FabricTypeOK, CompleteMeansAttested, QueueRows
<1>2. SlotsBalance' /\ \A w \in Workers : WorkInv(w)'
  BY Zenon DEF QueueInv, QueueSafety, SlotsBalance, WorkInv
<1> QED BY <1>1, <1>2, Zenon DEF QueueInv, QueueSafety

\* The clock, an enqueued item and a submission that lands late keep the invariant.
LEMMA OutsideKeepsInv ==
  ASSUME QueueInv, Tick \/ \E i \in Items : Enqueue(i) \/ Land(i)
  PROVE  QueueInv'
PROOF
<1>1. FabricTypeOK
  BY Zenon DEF QueueInv, QueueSafety
<1>2. now \in Nat /\ now \in 0 .. MaxTime /\ queue \in [Items -> QueueRows] /\ chain \subseteq Items /\ inFlight \subseteq Items
  BY <1>1, QueueTypes, Zenon DEF FabricTypeOK
<1>3. CASE Tick
  BY <1>2, <1>3, WorkersRest, QueueAssumption, SMTT(20) DEF Tick, queueVars, chainVars
<1>4. ASSUME NEW i \in Items, Enqueue(i) PROVE QueueInv'
  <2> DEFINE r == [queue[i] EXCEPT !.state = "pending", !.next = now]
  <2>1. r \in QueueRows /\ r.state = "pending"
    BY <1>2, Zenon DEF QueueRows
  <2>2. /\ queue' = [queue EXCEPT ![i] = r] /\ UNCHANGED <<work, slots, submits, now, chain, inFlight>>
        /\ r.state # "complete"
    BY <1>4, <2>1, Zenon DEF Enqueue, chainVars
  <2> HIDE DEF r
  <2>3. queue' \in [Items -> QueueRows] /\ \A j \in Items : queue'[j].state = "complete" => queue[j].state = "complete"
    BY <1>2, <2>1, <2>2, Zenon
  <2> QED BY <1>2, <2>2, <2>3, WorkersRest, Zenon
<1>5. ASSUME NEW i \in Items, Land(i) PROVE QueueInv'
  BY <1>2, <1>5, WorkersRest, Zenon DEF Land, queueVars, CreateAttestation
<1> QED BY <1>3, <1>4, <1>5, Zenon

\* A worker claims a due row: its attempts and its lease change together.
LEMMA ClaimKeepsInv ==
  ASSUME QueueInv, NEW w \in Workers, Claim(w)
  PROVE  QueueInv'
PROOF
<1>1. FabricTypeOK /\ CompleteMeansAttested /\ SlotsBalance /\ \A v \in Workers : WorkInv(v)
  BY Zenon DEF QueueInv, QueueSafety
<1>2. /\ now' = now /\ slots' = slots /\ work[w].phase = "poll"
      /\ chain' = chain /\ inFlight' = inFlight /\ submits' = submits
  BY Zenon DEF Claim, chainVars
<1>3. PICK i \in Items :
        /\ queue' = [queue EXCEPT ![i] = [queue[i] EXCEPT !.state = "running", !.attempts = queue[i].attempts + 1,
                                                         !.leaseUntil = now + LeaseDuration]]
        /\ work' = [work EXCEPT ![w] = [phase |-> "admission", item |-> i,
                                       attempts |-> queue[i].attempts + 1]]
  BY Zenon DEF Claim
<1> DEFINE r == [queue[i] EXCEPT !.state = "running", !.attempts = queue[i].attempts + 1, !.leaseUntil = now + LeaseDuration]
           s == [phase |-> "admission", item |-> i, attempts |-> queue[i].attempts + 1]
<1>4. r \in QueueRows /\ r.state = "running"
  <2>1. queue[i] \in QueueRows /\ now \in Nat
    BY <1>1, QueueTypes, Zenon
  <2>2. now + LeaseDuration \in Nat /\ queue[i].attempts + 1 \in Nat
    BY <2>1, QueueAssumption, SMTT(20) DEF QueueRows
  <2> QED BY <2>1, <2>2, Zenon DEF QueueRows
<1>5. s \in WorkRecords
  BY <1>1, SMTT(20) DEF FabricTypeOK, WorkRecords, WorkPhases
<1>6. queue' = [queue EXCEPT ![i] = r] /\ work' = [work EXCEPT ![w] = s] /\ s.phase = "admission" /\ s.item = i
  BY <1>3, Zenon
<1> HIDE DEF r, s
<1>7. queue' \in [Items -> QueueRows] /\ queue'[i].state = "running" /\ \A j \in Items \ {i} : queue'[j] = queue[j]
  BY <1>1, <1>4, <1>6, RowWritten, Zenon
<1>8. work' \in [Workers -> WorkRecords] /\ work'[w] = s /\ \A v \in Workers \ {w} : work'[v] = work[v]
  BY <1>1, <1>5, <1>6, Zenon DEF FabricTypeOK, WorkRecords
<1>9. FabricTypeOK' /\ CompleteMeansAttested'
  BY <1>1, <1>2, <1>7, <1>8, Zenon DEF FabricTypeOK, CompleteMeansAttested, QueueRows, WorkRecords
<1>10. SlotsBalance'
  BY <1>1, <1>2, <1>6, <1>8, HoldersStay, Zenon DEF HoldingSlot
<1>11. \A v \in Workers : WorkInv(v)'
  BY <1>1, <1>2, <1>6, <1>8, Zenon DEF WorkInv
<1> QED BY <1>9, <1>10, <1>11, QueueParts, Zenon

\* A worker takes a slot of its process, or gives its item up.
LEMMA AcquireKeepsInv ==
  ASSUME QueueInv, NEW w \in Workers, Acquire(w)
  PROVE  QueueInv'
PROOF
<1>1. FabricTypeOK /\ CompleteMeansAttested /\ SlotsBalance /\ \A v \in Workers : WorkInv(v)
  BY Zenon DEF QueueInv, QueueSafety
<1>2. /\ now' = now /\ queue' = queue /\ work[w].phase = "admission"
      /\ chain' = chain /\ inFlight' = inFlight /\ submits' = submits
      /\ slots' = [slots EXCEPT ![ProcessOf[w]] = @ + 1] /\ slots[ProcessOf[w]] < AdmissionLimit
  BY Zenon DEF Acquire, chainVars
<1>3. /\ work' \in [Workers -> WorkRecords] /\ work'[w].phase = "gate" /\ work'[w].item = work[w].item
      /\ \A v \in Workers \ {w} : work'[v] = work[v]
  BY <1>1, GotoEffect, Zenon DEF Acquire, WorkPhases
<1>4. slots' \in [Processes -> 0 .. AdmissionLimit]
  BY <1>1, <1>2, QueueAssumption, SMTT(20) DEF FabricTypeOK
<1>5. FabricTypeOK' /\ CompleteMeansAttested'
  BY <1>1, <1>2, <1>3, <1>4, Zenon DEF FabricTypeOK, CompleteMeansAttested, WorkRecords
<1>6. SlotsBalance'
  <2> DEFINE r == [work[w] EXCEPT !.phase = "gate"]
  <2>1. work' = [work EXCEPT ![w] = r] /\ r.phase = "gate"
    BY <1>1, Zenon DEF Acquire, Goto, FabricTypeOK
  <2> HIDE DEF r
  <2>2. r.phase \in HoldingSlot /\ work[w].phase \notin HoldingSlot
    BY <1>2, <2>1, Zenon DEF HoldingSlot
  <2> QED BY <1>1, <1>2, <2>1, <2>2, HolderJoins, Zenon
<1>7. \A v \in Workers : WorkInv(v)'
  BY <1>1, <1>2, <1>3, Zenon DEF WorkInv
<1> QED BY <1>5, <1>6, <1>7, QueueParts, Zenon

\* A worker that holds its slot goes on holding it.
LEMMA HolderMoves ==
  ASSUME QueueInv, NEW w \in Workers, NEW p \in HoldingSlot, Goto(w, p), work[w].phase \in HoldingSlot,
         now' = now, queue' = queue, slots' = slots, submits' \in [Items -> Nat],
         chain \subseteq chain', chain' \subseteq Items, inFlight' \subseteq Items,
         p = "complete" => work[w].item \in chain'
  PROVE  QueueInv'
PROOF
<1>1. FabricTypeOK /\ CompleteMeansAttested /\ SlotsBalance /\ \A v \in Workers : WorkInv(v)
  BY Zenon DEF QueueInv, QueueSafety
<1>2. p \in WorkPhases
  BY Zenon DEF HoldingSlot, WorkPhases
<1>3. /\ work' \in [Workers -> WorkRecords] /\ work'[w].phase = p /\ work'[w].item = work[w].item
      /\ \A v \in Workers \ {w} : work'[v] = work[v]
  BY <1>1, <1>2, GotoEffect, Zenon
<1>4. FabricTypeOK' /\ CompleteMeansAttested'
  BY <1>1, <1>3, Zenon DEF FabricTypeOK, CompleteMeansAttested, WorkRecords
<1>5. SlotsBalance'
  BY <1>1, <1>3, HoldersStay, Zenon
<1>6. work[w].phase # "poll"
  BY Zenon DEF HoldingSlot
<1>7. \A v \in Workers : WorkInv(v)'
  BY <1>1, <1>3, <1>6, Zenon DEF WorkInv
<1> QED BY <1>4, <1>5, <1>7, QueueParts, Zenon

\* The gate lets an item through to the submission or holds it.
LEMMA GateKeepsInv ==
  ASSUME QueueInv, NEW w \in Workers, Gate(w)
  PROVE  QueueInv'
PROOF
<1>1. PICK p \in {"submit", "hold"} : Goto(w, p)
  BY Zenon DEF Gate
<1>2. /\ now' = now /\ queue' = queue /\ slots' = slots /\ work[w].phase = "gate"
      /\ chain' = chain /\ inFlight' = inFlight /\ submits' = submits
  BY Zenon DEF Gate, queueVars, chainVars
<1>3. submits' \in [Items -> Nat] /\ chain' \subseteq Items /\ inFlight' \subseteq Items
  BY <1>2, Zenon DEF QueueInv, QueueSafety, FabricTypeOK
<1> QED BY <1>1, <1>2, <1>3, HolderMoves, Zenon DEF HoldingSlot

\* A submission is answered, times out or finds the attestation there.
LEMMA SubmitKeepsInv ==
  ASSUME QueueInv, NEW w \in Workers, Submit(w)
  PROVE  QueueInv'
PROOF
<1> DEFINE i == work[w].item
<1>1. FabricTypeOK /\ WorkInv(w)
  BY Zenon DEF QueueInv, QueueSafety
<1>2. /\ now' = now /\ queue' = queue /\ slots' = slots /\ work[w].phase = "submit"
      /\ submits' = [submits EXCEPT ![i] = @ + 1]
  BY Zenon DEF Submit, queueVars
<1>3. i \in Items
  BY <1>1, <1>2, Zenon DEF WorkInv
<1>4. submits' \in [Items -> Nat]
  BY <1>1, <1>2, <1>3, SMTT(20) DEF FabricTypeOK
<1>5. chain \subseteq chain' /\ chain' \subseteq Items /\ inFlight' \subseteq Items
  BY <1>1, <1>3, Zenon DEF Submit, CreateAttestation, FabricTypeOK
<1>6. PICK p \in {"complete", "hold"} : Goto(w, p) /\ (p = "complete" => i \in chain')
  BY Zenon DEF Submit, CreateAttestation
<1> QED BY <1>2, <1>4, <1>5, <1>6, HolderMoves, Zenon DEF HoldingSlot

\* A worker that is done gives its slot back and leaves a row as it should be.
LEMMA DoneKeepsInv ==
  ASSUME QueueInv, NEW w \in Workers, Done(w), work[w].phase # "poll",
         now' = now, chain' = chain, inFlight' = inFlight, submits' = submits,
         queue' \in [Items -> QueueRows],
         \A i \in Items : queue'[i].state = "complete" => i \in chain
  PROVE  QueueInv'
PROOF
<1>1. FabricTypeOK /\ CompleteMeansAttested /\ SlotsBalance /\ \A v \in Workers : WorkInv(v)
  BY Zenon DEF QueueInv, QueueSafety
<1>2. work' = [work EXCEPT ![w] = NoWork]
  BY Zenon DEF Done
<1>3. /\ work' \in [Workers -> WorkRecords] /\ work'[w].phase = "poll"
      /\ \A v \in Workers \ {w} : work'[v] = work[v]
  BY <1>1, <1>2, Zenon DEF FabricTypeOK, NoWork, NoItem, WorkRecords, WorkPhases
<1>4. SlotsBalance' /\ slots' \in [Processes -> 0 .. AdmissionLimit]
  <2>1. CASE work[w].phase \in HoldingSlot
    <3>1. slots' = [slots EXCEPT ![ProcessOf[w]] = @ - 1]
      BY <2>1, Zenon DEF Done
    <3>2. SlotsBalance' /\ slots[ProcessOf[w]] > 0
      BY <1>1, <1>2, <2>1, <3>1, HolderLeaves, Zenon DEF NoWork, HoldingSlot
    <3>3. slots' \in [Processes -> 0 .. AdmissionLimit]
      BY <1>1, <3>1, <3>2, QueueAssumption, SMTT(20) DEF FabricTypeOK
    <3> QED BY <3>2, <3>3, Zenon
  <2>2. CASE work[w].phase \notin HoldingSlot
    <3>1. slots' = slots
      BY <2>2, Zenon DEF Done
    <3>2. \A v \in Workers : work'[v].phase \in HoldingSlot <=> work[v].phase \in HoldingSlot
      BY <1>3, <2>2, Zenon DEF HoldingSlot
    <3> QED BY <1>1, <3>1, <3>2, HoldersStay, Zenon DEF FabricTypeOK
  <2> QED BY <2>1, <2>2, Zenon
<1>5. FabricTypeOK' /\ CompleteMeansAttested'
  BY <1>1, <1>3, <1>4, Zenon DEF FabricTypeOK, CompleteMeansAttested, WorkRecords, QueueRows
<1>6. \A v \in Workers : WorkInv(v)'
  BY <1>1, <1>3, Zenon DEF WorkInv
<1> QED BY <1>4, <1>5, <1>6, QueueParts, Zenon

\* The outcome is recorded under the lease, or not at all.
LEMMA MarkKeepsInv ==
  ASSUME QueueInv, NEW w \in Workers, MarkComplete(w) \/ MarkUnknown(w)
  PROVE  QueueInv'
PROOF
<1> DEFINE i == work[w].item
<1>1. FabricTypeOK /\ CompleteMeansAttested /\ WorkInv(w)
  BY Zenon DEF QueueInv, QueueSafety
<1>2. /\ now' = now /\ chain' = chain /\ inFlight' = inFlight /\ submits' = submits /\ Done(w)
      /\ work[w].phase \in {"complete", "hold", "admission"}
  BY Zenon DEF MarkComplete, MarkUnknown, chainVars
<1>3. i \in Items /\ queue[i] \in QueueRows /\ now + RetryDelay \in Nat
  BY <1>1, <1>2, QueueAssumption, SMTT(20) DEF WorkInv, FabricTypeOK, QueueRows
<1>4. CASE queue' = queue
  BY <1>1, <1>2, <1>4, DoneKeepsInv, Zenon DEF FabricTypeOK, CompleteMeansAttested, QueueRows
<1>5. ASSUME NEW r \in QueueRows, queue' = [queue EXCEPT ![i] = r], r.state = "complete" => i \in chain
      PROVE  QueueInv'
  <2>1. /\ queue' \in [Items -> QueueRows] /\ queue'[i] = r
        /\ \A j \in Items \ {i} : queue'[j] = queue[j]
    BY <1>1, <1>3, <1>5, RowWritten, Zenon
  <2>2. \A j \in Items : queue'[j].state = "complete" => j \in chain
    BY <1>1, <1>5, <2>1, Zenon DEF CompleteMeansAttested
  <2> QED BY <1>2, <2>1, <2>2, DoneKeepsInv, Zenon
<1>6. CASE MarkComplete(w) /\ queue' # queue
  <2> DEFINE r == [queue[i] EXCEPT !.state = "complete"]
  <2>1. r \in QueueRows /\ queue' = [queue EXCEPT ![i] = r]
    BY <1>3, <1>6, Zenon DEF MarkComplete, QueueRows
  <2>2. i \in chain
    BY <1>1, <1>6, Zenon DEF MarkComplete, WorkInv
  <2> QED BY <1>5, <2>1, <2>2, Zenon
<1>7. CASE MarkUnknown(w) /\ queue' # queue
  <2> DEFINE r == [queue[i] EXCEPT !.state = "unknown", !.next = now + RetryDelay]
  <2>1. r \in QueueRows /\ queue' = [queue EXCEPT ![i] = r] /\ r.state = "unknown"
    BY <1>3, <1>7, Zenon DEF MarkUnknown, QueueRows
  <2> QED BY <1>5, <2>1, Zenon
<1> QED BY <1>4, <1>6, <1>7, Zenon

\* A process stops: its workers forget what they did, its slots are free.
LEMMA CrashKeepsInv ==
  ASSUME QueueInv, NEW p \in Processes, Crash(p)
  PROVE  QueueInv'
PROOF
<1>1. FabricTypeOK /\ CompleteMeansAttested /\ SlotsBalance /\ \A v \in Workers : WorkInv(v)
  BY Zenon DEF QueueInv, QueueSafety
<1>2. /\ now' = now /\ queue' = queue
      /\ chain' = chain /\ inFlight' = inFlight /\ submits' = submits
      /\ slots' = [slots EXCEPT ![p] = 0]
      /\ work' = [w \in Workers |-> IF ProcessOf[w] = p THEN NoWork ELSE work[w]]
  BY Zenon DEF Crash, chainVars
<1>3. NoWork \in WorkRecords /\ NoWork.phase = "poll"
  BY Zenon DEF NoWork, NoItem, WorkRecords, WorkPhases
<1>4. work' \in [Workers -> WorkRecords]
  BY <1>1, <1>2, <1>3, Zenon DEF FabricTypeOK, WorkRecords
<1>5. slots' \in [Processes -> 0 .. AdmissionLimit]
  BY <1>1, <1>2, QueueAssumption, SMTT(20) DEF FabricTypeOK
<1>6. FabricTypeOK' /\ CompleteMeansAttested'
  BY <1>1, <1>2, <1>4, <1>5, Zenon DEF FabricTypeOK, CompleteMeansAttested, WorkRecords
<1>7. SlotsBalance'
  <2>1. SlotHolders(p)' = {} /\ \A q \in Processes \ {p} : SlotHolders(q)' = SlotHolders(q)
    BY <1>2, <1>3, Zenon DEF SlotHolders, HoldingSlot
  <2>2. \A q \in Processes : slots[q] = Cardinality(SlotHolders(q))
    BY <1>1, Zenon DEF SlotsBalance, SlotHolders
  <2>3. slots'[p] = 0 /\ \A q \in Processes \ {p} : slots'[q] = slots[q]
    BY <1>1, <1>2, Zenon DEF FabricTypeOK
  <2>4. \A q \in Processes : slots'[q] = Cardinality(SlotHolders(q)')
    BY <2>1, <2>2, <2>3, FS_EmptySet, Zenon
  <2> QED BY <2>4, Zenon DEF SlotsBalance, SlotHolders
<1>8. \A v \in Workers : WorkInv(v)'
  BY <1>1, <1>2, <1>3, Zenon DEF WorkInv
<1> QED BY <1>6, <1>7, <1>8, QueueParts, Zenon

\* Every step keeps the invariant.
LEMMA QueueInductive == QueueInv /\ [FabricNext]_fabricVars => QueueInv'
PROOF
<1> SUFFICES ASSUME QueueInv, [FabricNext]_fabricVars PROVE QueueInv'
  OBVIOUS
<1>1. CASE UNCHANGED fabricVars
  <2>1. FabricTypeOK' /\ CompleteMeansAttested' /\ SlotsBalance'
    BY <1>1, Zenon DEF fabricVars, queueVars, chainVars, QueueInv, QueueSafety, FabricTypeOK, CompleteMeansAttested, SlotsBalance
  <2>2. \A v \in Workers : WorkInv(v)'
    BY <1>1, Zenon DEF fabricVars, queueVars, chainVars, QueueInv, WorkInv
  <2> QED BY <2>1, <2>2, QueueParts, Zenon
<1>2. CASE FabricNext
  BY <1>2, OutsideKeepsInv, ClaimKeepsInv, AcquireKeepsInv, GateKeepsInv,
     SubmitKeepsInv, MarkKeepsInv, CrashKeepsInv DEF FabricNext, Step
<1> QED BY <1>1, <1>2, Zenon

\* The empty queue has it.
LEMMA QueueInvInit == FabricInit => QueueInv
PROOF
<1> SUFFICES ASSUME FabricInit PROVE QueueInv
  OBVIOUS
<1>1. FabricTypeOK
  <2>1. NotQueued \in QueueRows /\ NoWork \in WorkRecords
    BY Zenon DEF NotQueued, QueueRows, NoWork, NoItem, WorkRecords, WorkPhases
  <2>2. queue \in [Items -> QueueRows] /\ work \in [Workers -> WorkRecords]
    BY <2>1, Zenon DEF FabricInit
  <2> QED BY <2>2, QueueAssumption, SMTT(20) DEF FabricInit, FabricTypeOK, QueueRows, WorkRecords
<1>2. \A w \in Workers : work[w].phase = "poll"
  BY Zenon DEF FabricInit, NoWork
<1>3. CompleteMeansAttested
  BY Zenon DEF FabricInit, CompleteMeansAttested, NotQueued
<1>4. SlotsBalance
  <2>1. \A p \in Processes : SlotHolders(p) = {}
    BY <1>2, Zenon DEF SlotHolders, HoldingSlot
  <2>2. \A p \in Processes : slots[p] = Cardinality(SlotHolders(p))
    BY <2>1, FS_EmptySet, Zenon DEF FabricInit
  <2> QED BY <2>2, Zenon DEF SlotsBalance, SlotHolders
<1> QED BY <1>1, <1>2, <1>3, <1>4, Zenon DEF QueueInv, QueueSafety, WorkInv

\* For any items, workers and processes: a row is complete only if its attestation is on the
\* channel, and the slots in use are the workers that hold one, whatever crashes, lost answers
\* and expired leases do (queue.go, worker.go).
THEOREM QueueSafe == FabricSpec => []QueueSafety
PROOF
<1>1. QueueInv => QueueSafety
  BY Zenon DEF QueueInv
<1> QED BY <1>1, QueueInvInit, QueueInductive, PTL DEF FabricSpec

\* A complete row is never written again, and a running row leaves that state only by the
\* worker that holds the attempt it is at (the lease check of MarkComplete and MarkUnknown).
THEOREM LeaseholderWrites == FabricSpec => OnlyLeaseholderWrites
PROOF
<1> DEFINE A == \A i \in Items :
       /\ queue[i].state = "complete" => queue'[i] = queue[i]
       /\ queue[i].state = "running" /\ queue'[i].state \in {"unknown", "complete"} =>
            \E w \in Workers : /\ work[w].item = i /\ work[w].attempts = queue[i].attempts
                               /\ work'[w] = NoWork
<1>1. QueueInv /\ [FabricNext]_fabricVars => [A]_fabricVars
  <2> SUFFICES ASSUME QueueInv, FabricNext PROVE A
    OBVIOUS
  <2>1. queue \in [Items -> QueueRows] /\ work \in [Workers -> WorkRecords]
    BY Zenon DEF QueueInv, QueueSafety, FabricTypeOK, QueueRows, WorkRecords
  <2>2. CASE queue' = queue
    BY <2>2, Zenon
  <2>3. ASSUME NEW i \in Items, Enqueue(i) PROVE A
    BY <2>1, <2>3, Zenon DEF Enqueue, QueueRows
  <2>4. ASSUME NEW w \in Workers, Claim(w) PROVE A
    BY <2>1, <2>4 DEF Claim, Due, QueueRows
  <2>5. ASSUME NEW w \in Workers, MarkComplete(w) \/ MarkUnknown(w) PROVE A
    <3>1. work'[w] = NoWork
      BY <2>1, <2>5, Zenon DEF MarkComplete, MarkUnknown, Done
    <3>2. queue' = queue \/ (HoldsLease(w) /\ \A j \in Items : j # work[w].item => queue'[j] = queue[j])
      BY <2>1, <2>5, Zenon DEF MarkComplete, MarkUnknown
    <3> QED BY <3>1, <3>2, Zenon DEF HoldsLease
  <2>6. queue' # queue => \/ \E i \in Items : Enqueue(i)
                          \/ \E w \in Workers : Claim(w) \/ MarkComplete(w) \/ MarkUnknown(w)
    BY Zenon DEF FabricNext, Step, Tick, Land, Acquire, Gate, Submit, Crash, queueVars
  <2> QED BY <2>2, <2>3, <2>4, <2>5, <2>6, Zenon
<1> QED BY <1>1, QueueInvInit, QueueInductive, PTL DEF FabricSpec, OnlyLeaseholderWrites
=============================================================================
