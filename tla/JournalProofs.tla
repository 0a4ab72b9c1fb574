---------------------------- MODULE JournalProofs ----------------------------
(***************************************************************************)
(* What holds of the journal for any number of callers, documents, bounds  *)
(* and faults, proved.  Two inductive invariants: Durable, which needs     *)
(* nothing of the environment, and Answered, which needs storage that can  *)
(* be read back and calls that are not dropped (the two faults under which *)
(* AckedIsDurable is violated).  The last part is about what happens to    *)
(* journal objects after their commit.                                     *)
(***************************************************************************)
EXTENDS Journal, JournalRetention, TLAPS

Steps == Quiet \cup {"await", "enqueue", "gate"} \cup Holding

---------------------------------------------------------------------------
(* Durable: what protects storage.                                         *)

\* The publication gate: only its holder is past it, and after a crash nobody
\* runs until startup is done.
GateHeld ==
  /\ pc \in [Writer -> Steps]
  /\ gate \in Writer \cup {Nobody}
  /\ \A w \in Writer : pc[w] \in Holding <=> gate = w
  /\ ~serving => \A w \in Writer : pc[w] \in Quiet

\* Operation ids are handed out once: every key in storage is of an operation
\* up to the last one, and what a preparation names is neither committed nor
\* handed to the deletion worker.
OldKeys(keys) == \A k \in keys : k \in Key /\ k[1] <= operations
Separated ==
  /\ operations \in Nat
  /\ OldKeys(DOMAIN objects) /\ OldKeys(retired)
  /\ \A p \in prep : OldKeys(p.outputs) /\ p.outputs \cap retired = {}
  /\ \A p, q \in prep : p = q
  /\ \A s \in segments : /\ s.key \in DOMAIN objects /\ s.key \notin retired
                         /\ \A p \in prep : s.key \notin p.outputs

\* The operation of the sealed round.  Before its preparation is written nothing
\* in storage carries its id; afterwards the preparation is the round's plan
\* and the segments written so far are stored.
RoundPlanned ==
  /\ round.op \in Nat /\ round.op <= operations
  /\ round.count \in Nat /\ round.written \in Nat /\ round.written <= round.count
  /\ \A w \in Writer : pc[w] = "prepare" =>
       /\ round.written = 0
       /\ Outputs(round) \cap (DOMAIN objects \cup retired) = {}
       /\ \A s \in segments : s.key \notin Outputs(round)
  /\ \A w \in Writer : pc[w] = "write" =>
       /\ prep = {PlanOf(round)}
       /\ \A i \in 1 .. round.written : <<round.op, i>> \in DOMAIN objects

Durable == GateHeld /\ Separated /\ RoundPlanned

---------------------------------------------------------------------------
(* Answered: why Ok is the truth.                                          *)

\* The record that carries an identity.
RecordOf(id) == [id |-> id, body |-> BodyOf[id]]

\* One append per document is in flight, and whatever carries an identity
\* carries the same bytes.
OneCallPerRoom ==
  /\ DOMAIN call = Writer
  /\ \A w \in Writer : pc[w] \notin Quiet =>
       call[w] = RecordOf(call[w].id) /\ call[w].id \in Identity
  /\ \A e \in queue \cup round.entries : e.rec = RecordOf(e.rec.id) /\ e.rec.id \in Identity
  /\ \A v, w \in Writer :
       pc[v] \notin Quiet /\ pc[w] \notin Quiet /\ call[v].id[1] = call[w].id[1] => v = w

\* A record whose call waits is queued, sealed or committed.
RecordHeld ==
  /\ \A w \in Writer : pc[w] \in {"gate", "reconcile", "status"} =>
       call[w] \in Records(queue) \cup Records(round.entries) \cup Stored
  /\ \A w \in Writer : pc[w] \in {"reconcile", "status"} => round.entries = {}
  /\ gate = Nobody => round.entries = {}

\* A sealed round holds the caller's record, and storage holds no other content
\* under its keys; once the operation is no longer prepared it is committed.
Sealing == {"prepare", "write", "recoverWrite", "recoverCommit", "settle"}
RoundHeld ==
  \A w \in Writer : pc[w] \in Sealing =>
    /\ call[w] \in Records(round.entries)
    /\ \A e \in round.entries : round.cut[e] \in 1 .. round.count
    /\ \A i \in 1 .. round.count : <<round.op, i>> \in DOMAIN objects =>
          objects[<<round.op, i>>] = Content(round, i)
    /\ pc[w] = "recoverWrite" => prep = {PlanOf(round)}
    /\ pc[w] = "recoverCommit" => prep = {PlanOf(round)} \/ Records(round.entries) \subseteq Stored
    /\ pc[w] = "recoverCommit" => prep \subseteq {PlanOf(round)}
    /\ pc[w] = "settle" => Records(round.entries) \subseteq Stored

\* Coverage covers: a stored record is found by sequence_committed.
Covered ==
  /\ \A s \in segments : Ids(objects[s.key]) \subseteq s.cover
  /\ \A p \in prep : \A k \in p.outputs \cap DOMAIN objects : Ids(objects[k]) \subseteq p.cover

Answered ==
  /\ OneCallPerRoom /\ RecordHeld /\ RoundHeld /\ Covered
  /\ PreparationResolvable /\ AckedIsDurable

---------------------------------------------------------------------------
\* The journal under any clients: they ask for any record, and take note of an
\* answer.
Noted(w) ==
  /\ pc[w] \in Quiet
  /\ Goto(w, "idle")
  /\ UNCHANGED <<queue, pending, gate, call, round, serving, catalogue, accounting, objects,
                 operations, acked>>
AnyNext ==
  \/ \E w \in Writer, r \in Record : Request(w, r)
  \/ \E w \in Writer : Step(w) \/ Fault(w) \/ Cancel(w) \/ Noted(w)
  \/ Crash
  \/ Startup

\* The clients of the journal's runs are among those the proofs allow.
LEMMA AnyClient == Next => AnyNext
<1>1. \A id \in Identity : [id |-> id, body |-> BodyOf[id]] \in Record
  BY ClientAssumption DEF Record
<1>. QED  BY <1>1 DEF Next, AnyNext

\* An outcome that stays: the gate, whoever moves inside or outside it.
LEMMA GateMove ==
  ASSUME GateHeld, NEW w \in Writer, NEW s \in Steps, serving' = serving, serving,
         Goto(w, s), gate' = gate, pc[w] \in Holding <=> s \in Holding
  PROVE  GateHeld'
BY DEF GateHeld, Goto

\* A call that returns gives the gate up and leaves the round of others alone.
LEMMA GateReturn ==
  ASSUME GateHeld, NEW w \in Writer, NEW result \in Quiet, NEW ids, serving' = serving,
         Return(w, result, ids)
  PROVE  /\ GateHeld'
         /\ \A v \in Writer : pc'[v] \notin {"prepare", "write"}
                             \/ (pc'[v] = pc[v] /\ round' = round /\ gate # w)
BY ConstantsAssumption DEF GateHeld, Return, Goto, Quiet, Holding, Steps

\* Committing a complete preparation keeps Separated: what it commits is stored
\* and not handed to the deletion worker.
LEMMA CommitKeeps ==
  ASSUME Separated, NEW p \in prep, Complete(p), CommitSegments(p),
         UNCHANGED <<objects, operations>>
  PROVE  Separated'
BY DEF Separated, OldKeys, Complete, CommitSegments

\* So does aborting one.
LEMMA AbortKeeps ==
  ASSUME Separated, NEW p \in prep, AbortPreparation(p), UNCHANGED <<objects, operations>>
  PROVE  Separated'
BY DEF Separated, OldKeys, AbortPreparation

\* So does reconciling one, whichever way it is settled.
LEMMA ReconcileKeeps ==
  ASSUME Separated, NEW p \in prep, ReconcilePending(p), UNCHANGED <<objects, operations>>
  PROVE  Separated'
BY CommitKeeps, AbortKeeps DEF ReconcilePending

\* And a step that touches neither catalogue nor objects.
LEMMA SeparatedKept ==
  ASSUME Separated, operations' = operations, UNCHANGED <<catalogue, objects>>
  PROVE  Separated'
BY DEF Separated, OldKeys, catalogue

\* Nobody enters or is in the middle of a prepared round but on its own terms.
LEMMA RoundKept ==
  ASSUME RoundPlanned, Separated, operations' = operations,
         round' \in {round, NoRound},
         \A v \in Writer : pc'[v] \in {"prepare", "write"} =>
            pc'[v] = pc[v] /\ round' = round /\ UNCHANGED <<catalogue, objects>>
  PROVE  RoundPlanned'
BY DEF RoundPlanned, NoRound, catalogue, Separated, PlanOf, Outputs, Span, Ids

\* What the gate holder adds to storage: the plan of its round, an object of it.
LEMMA PlanKeeps ==
  ASSUME Separated, RoundPlanned, NEW w \in Writer, pc[w] = "prepare",
         prep = {}, prep' = {PlanOf(round)},
         UNCHANGED <<segments, retired, objects, operations>>
  PROVE  Separated'
BY DEF Separated, RoundPlanned, OldKeys, PlanOf, Outputs, Key

\* Storing the next segment of the round writes a key of its own operation.
LEMMA StoreKeeps ==
  ASSUME Separated, RoundPlanned, NEW w \in Writer, pc[w] = "write",
         round.written < round.count, NEW content,
         Store(<<round.op, round.written + 1>>, content),
         UNCHANGED <<catalogue, operations>>
  PROVE  Separated'
BY DEF Separated, RoundPlanned, OldKeys, Store, Key, catalogue

\* When the last segment of a round is stored, its preparation is complete.
LEMMA CompleteWhenWritten ==
  ASSUME RoundPlanned, NEW w \in Writer, Written(w), NEW p \in prep
  PROVE  Complete(p)
BY DEF Written, RoundPlanned, Complete, PlanOf, Outputs

\* The journal begins empty, so nothing it protects can be missing.
LEMMA DurableInit == Init => Durable
BY ConstantsAssumption
   DEF Init, Durable, GateHeld, Separated, OldKeys, RoundPlanned, NoRound, Steps, Quiet, Holding

\* Every step, a failure, a crash or a restart too, keeps what is durable.
LEMMA DurableNext ==
  ASSUME Durable, [AnyNext]_vars
  PROVE  Durable'
<1> USE DEF Durable
<1>1. CASE UNCHANGED vars
  BY <1>1 DEF vars, volatile, catalogue, GateHeld, Separated, OldKeys, RoundPlanned, PlanOf,
              Outputs, Span, Ids
<1>2. ASSUME NEW w \in Writer, Noted(w) \/ \E r \in Record : Request(w, r)
      PROVE  Durable'
  <2>1. ASSUME NEW r \in Record, Request(w, r)  PROVE Durable'
    BY <2>1, GateMove, SeparatedKept, RoundKept
       DEF Request, Goto, GateHeld, Steps, Holding, Quiet, catalogue
  <2>2. CASE Noted(w)
    <3>1. GateHeld'
      BY <2>2 DEF Noted, Goto, GateHeld, Steps, Holding, Quiet
    <3>. QED
      BY <2>2, <3>1, SeparatedKept, RoundKept DEF Noted, Goto, GateHeld, Quiet, catalogue
  <2>. QED  BY <1>2, <2>1, <2>2
<1>3. ASSUME NEW w \in Writer, Claim(w)
      PROVE  Durable'
  BY <1>3, GateMove, SeparatedKept, RoundKept
     DEF Claim, Goto, GateHeld, Steps, Holding, Quiet, catalogue
<1>4. ASSUME NEW w \in Writer, Enqueue(w)
      PROVE  Durable'
  BY <1>4, GateMove, SeparatedKept, RoundKept
     DEF Enqueue, Goto, GateHeld, Steps, Holding, Quiet, catalogue
<1>5. ASSUME NEW w \in Writer, EnqueueBusy(w)
      PROVE  Durable'
  BY <1>5, GateReturn, SeparatedKept, RoundKept
     DEF EnqueueBusy, Return, GateHeld, Holding, Quiet, catalogue
<1>6. ASSUME NEW w \in Writer, TakeGate(w)
      PROVE  Durable'
  <2>1. GateHeld'
    BY <1>6, ConstantsAssumption DEF TakeGate, GateHeld, Goto, Steps, Holding, Quiet
  <2> QED
    BY <1>6, <2>1, SeparatedKept, RoundKept DEF TakeGate, GateHeld, Goto, Holding, catalogue
<1>7. ASSUME NEW w \in Writer, ReconcileFirst(w)
      PROVE  Durable'
  BY <1>7, GateMove, GateReturn, SeparatedKept, ReconcileKeeps, CommitKeeps, AbortKeeps, RoundKept
     DEF ReconcileFirst, Goto, GateHeld, Steps, Holding, Quiet, catalogue
<1>8. ASSUME NEW w \in Writer, ReconcileFirstFails(w)
      PROVE  Durable'
  BY <1>8, GateReturn, SeparatedKept, ReconcileKeeps, CommitKeeps, AbortKeeps, RoundKept
     DEF ReconcileFirstFails, Return, GateHeld, Holding, Quiet, catalogue
<1>9. ASSUME NEW w \in Writer, AlreadyCommitted(w)
      PROVE  Durable'
  BY <1>9, GateReturn, SeparatedKept, RoundKept
     DEF AlreadyCommitted, Return, GateHeld, Holding, Quiet, catalogue
<1>10. ASSUME NEW w \in Writer, StatusFails(w)
      PROVE  Durable'
  BY <1>10, GateReturn, SeparatedKept, RoundKept
     DEF StatusFails, Return, GateHeld, Holding, Quiet, catalogue
<1>11. ASSUME NEW w \in Writer, Seal(w)
      PROVE  Durable'
  <2>1. GateHeld' /\ serving
    BY <1>11, GateMove DEF Seal, GateHeld, Goto, Steps, Holding, Quiet
  <2>2. Separated'
    BY <1>11 DEF Seal, Separated, OldKeys, Key, catalogue
  <2>3. \A v \in Writer : pc'[v] \in {"prepare", "write"} => v = w /\ pc'[v] = "prepare"
    BY <1>11, <2>1 DEF Seal, GateHeld, Goto, Holding
  <2>4. RoundPlanned'
    BY <1>11, <2>3 DEF Seal, RoundPlanned, Separated, OldKeys, Outputs, catalogue
  <2> QED
    BY <2>1, <2>2, <2>4
<1>12. ASSUME NEW w \in Writer, Prepare(w)
      PROVE  Durable'
  <2>1. GateHeld' /\ gate = w
    BY <1>12, GateMove DEF Prepare, GateHeld, Goto, Steps, Holding, Quiet
  <2>2. Separated'
    BY <1>12, <2>1 DEF Prepare, Separated, RoundPlanned, OldKeys, PlanOf, Outputs, Key
  <2>3. \A v \in Writer : pc'[v] \in {"prepare", "write"} => v = w /\ pc'[v] = "write"
    BY <1>12, <2>1 DEF Prepare, GateHeld, Goto, Holding
  <2>4. RoundPlanned'
    BY <1>12, <2>3 DEF Prepare, RoundPlanned, PlanOf, Outputs, Span, Ids
  <2> QED
    BY <2>1, <2>2, <2>4
<1>13. ASSUME NEW w \in Writer, WriteSegment(w)
      PROVE  Durable'
  <2>1. GateHeld' /\ gate = w
    BY <1>13 DEF WriteSegment, GateHeld, Holding
  <2>2. Separated'
    BY <1>13, StoreKeeps DEF WriteSegment, catalogue
  <2>3. \A v \in Writer : pc'[v] \in {"prepare", "write"} => v = w
    BY <1>13, <2>1 DEF WriteSegment, GateHeld, Holding
  <2>4. RoundPlanned'
    BY <1>13, <2>3 DEF WriteSegment, RoundPlanned, Store, PlanOf, Outputs, Span, Ids, catalogue
  <2> QED
    BY <2>1, <2>2, <2>4
<1>14. ASSUME NEW w \in Writer, Commit(w)
      PROVE  Durable'
  <2>1. GateHeld'
    BY <1>14, GateMove DEF Commit, Written, GateHeld, Goto, Steps, Holding, Quiet
  <2>2. \A p \in prep : Complete(p)
    BY <1>14, CompleteWhenWritten DEF Commit
  <2>3. Separated'
    BY <1>14, <2>2, CommitKeeps, SeparatedKept DEF Commit
  <2>4. \A v \in Writer : pc'[v] \notin {"prepare", "write"}
    BY <1>14, <2>1 DEF Commit, Written, GateHeld, Goto, Holding
  <2> QED
    BY <1>14, <2>1, <2>3, <2>4, RoundKept DEF Commit
<1>15. ASSUME NEW w \in Writer, CommitFails(w)
      PROVE  Durable'
  <2>1. GateHeld'
    BY <1>15, GateMove DEF CommitFails, Written, GateHeld, Goto, Steps, Holding, Quiet
  <2>2. \A p \in prep : Complete(p)
    BY <1>15, CompleteWhenWritten DEF CommitFails
  <2>3. Separated'
    BY <1>15, <2>2, CommitKeeps, SeparatedKept DEF CommitFails
  <2>4. \A v \in Writer : pc'[v] \notin {"prepare", "write"}
    BY <1>15, <2>1 DEF CommitFails, Written, GateHeld, Goto, Holding
  <2> QED
    BY <1>15, <2>1, <2>3, <2>4, RoundKept DEF CommitFails
<1>16. ASSUME NEW w \in Writer, RecoverCommitted(w)
      PROVE  Durable'
  BY <1>16, GateReturn, SeparatedKept, ReconcileKeeps, CommitKeeps, AbortKeeps, RoundKept
     DEF RecoverCommitted, Return, GateHeld, Holding, Quiet, catalogue
<1>17. ASSUME NEW w \in Writer, RecoverAborted(w)
      PROVE  Durable'
  BY <1>17, GateReturn, SeparatedKept, ReconcileKeeps, CommitKeeps, AbortKeeps, RoundKept
     DEF RecoverAborted, Return, GateHeld, Holding, Quiet, catalogue
<1>18. ASSUME NEW w \in Writer, RecoverFails(w)
      PROVE  Durable'
  BY <1>18, GateReturn, SeparatedKept, ReconcileKeeps, CommitKeeps, AbortKeeps, RoundKept
     DEF RecoverFails, Return, GateHeld, Holding, Quiet, catalogue
<1>19. ASSUME NEW w \in Writer, Settle(w)
      PROVE  Durable'
  BY <1>19, GateReturn, SeparatedKept, RoundKept
     DEF Settle, Return, GateHeld, Holding, Quiet, catalogue
<1>20. ASSUME NEW w \in Writer, PrepareFails(w)
      PROVE  Durable'
  <2>1. GateHeld' /\ gate = w
    BY <1>20, GateReturn DEF PrepareFails, GateHeld, Holding, Quiet
  <2>2. Separated'
    BY <1>20, PlanKeeps, SeparatedKept DEF PrepareFails, catalogue
  <2>3. \A v \in Writer : pc'[v] \notin {"prepare", "write"}
    BY <1>20, <2>1 DEF PrepareFails, Return, GateHeld, Goto, Holding
  <2> QED
    BY <1>20, <2>1, <2>2, <2>3, RoundKept DEF PrepareFails, Return
<1>21. ASSUME NEW w \in Writer, ReserveFails(w)
      PROVE  Durable'
  BY <1>21, GateMove, SeparatedKept, RoundKept
     DEF ReserveFails, Goto, GateHeld, Steps, Holding, Quiet, catalogue
<1>22. ASSUME NEW w \in Writer, PutFails(w)
      PROVE  Durable'
  <2>1. GateHeld' /\ gate = w
    BY <1>22, GateMove DEF PutFails, GateHeld, Goto, Steps, Holding, Quiet
  <2>2. Separated'
    BY <1>22, StoreKeeps, SeparatedKept DEF PutFails, catalogue
  <2>3. \A v \in Writer : pc'[v] \notin {"prepare", "write"}
    BY <1>22, <2>1 DEF PutFails, GateHeld, Goto, Holding
  <2> QED
    BY <1>22, <2>1, <2>2, <2>3, RoundKept DEF PutFails
<1>23. ASSUME NEW w \in Writer, SettleFails(w)
      PROVE  Durable'
  BY <1>23, GateReturn, SeparatedKept, RoundKept
     DEF SettleFails, Return, GateHeld, Holding, Quiet, catalogue
<1>24. ASSUME NEW w \in Writer, Cancel(w)
      PROVE  Durable'
  <2>1. GateHeld'
    BY <1>24, ConstantsAssumption DEF Cancel, GateHeld, Goto, Steps, Holding, Quiet
  <2>2. CASE UNCHANGED <<catalogue, objects>>
    <3>1. \A v \in Writer : pc'[v] \in {"prepare", "write"} =>
             pc'[v] = pc[v] /\ round' = round
      BY <1>24 DEF Cancel, GateHeld, Goto, Holding
    <3> QED
      BY <1>24, <2>1, <2>2, <3>1, RoundKept, SeparatedKept DEF Cancel
  <2>3. CASE pc[w] \in {"prepare", "write"}
    <3>1. Separated'
      BY <1>24, <2>3, PlanKeeps, StoreKeeps, CompleteWhenWritten, CommitKeeps, SeparatedKept
         DEF Cancel, catalogue, Written
    <3>2. \A v \in Writer : pc'[v] \notin {"prepare", "write"}
      BY <1>24, <2>1, <2>3 DEF Cancel, GateHeld, Goto, Holding
    <3> QED
      BY <1>24, <2>1, <3>1, <3>2, RoundKept DEF Cancel
  <2> QED
    BY <1>24, <2>2, <2>3 DEF Cancel, Written
<1>25. CASE Crash
  <2>1. GateHeld'
    BY <1>25, ConstantsAssumption DEF Crash, GateHeld, Steps, Holding, Quiet
  <2> QED
    BY <1>25, <2>1, SeparatedKept, RoundKept DEF Crash, catalogue
<1>26. CASE Startup
  BY <1>26, SeparatedKept, ReconcileKeeps, RoundKept
     DEF Startup, GateHeld, Steps, Holding, Quiet, catalogue
<1> QED
  BY <1>1, <1>2, <1>3, <1>4, <1>5, <1>6, <1>7, <1>8, <1>9, <1>10, <1>11, <1>12, <1>13, <1>14, <1>15, <1>16, <1>17, <1>18, <1>19, <1>20, <1>21, <1>22, <1>23, <1>24, <1>25, <1>26
     DEF AnyNext, Step, Fault

\* Retirement and recovery never take away what the catalogue's committed or
\* prepared segments need: the inductive invariant of the durable part.
THEOREM StorageProtected == Spec => []Durable
<1>1. Durable /\ [Next]_vars => Durable'
  BY DurableNext, AnyClient
<1> QED
  BY DurableInit, <1>1, PTL DEF Spec

\* CommittedNotRetired for every fault: no abort hands a committed object to the
\* deletion worker, and a descriptor names an object that exists.
THEOREM CommittedStaysLive == Spec => []CommittedNotRetired
<1>1. Durable => CommittedNotRetired
  BY DEF Durable, Separated, CommittedNotRetired
<1> QED
  BY StorageProtected, <1>1, PTL

\* A step neither removes a descriptor nor touches an object one names.
LEMMA StorageGrows ==
  ASSUME Durable, [AnyNext]_vars
  PROVE  segments \subseteq segments' /\ \A s \in segments : objects'[s.key] = objects[s.key]
<1> DEFINE Grows == /\ segments \subseteq segments'
                    /\ \A s \in segments : objects'[s.key] = objects[s.key]
<1>1. ASSUME UNCHANGED objects, \/ UNCHANGED segments
                                \/ \E p \in prep : CommitSegments(p) \/ ReconcilePending(p)
                                \/ \E p \in prep : AbortPreparation(p)
      PROVE  Grows
  BY <1>1 DEF CommitSegments, AbortPreparation, ReconcilePending
<1>2. ASSUME NEW w \in Writer, pc[w] = "write", round.written < round.count, NEW content,
             Store(<<round.op, round.written + 1>>, content), UNCHANGED segments
      PROVE  Grows
  <2>1. PlanOf(round) \in prep /\ <<round.op, round.written + 1>> \in PlanOf(round).outputs
    BY <1>2 DEF Durable, RoundPlanned, PlanOf, Outputs
  <2>2. \A s \in segments : s.key # <<round.op, round.written + 1>>
    BY <2>1 DEF Durable, Separated
  <2> QED
    BY <1>2, <2>2 DEF Store, Durable, Separated
<1>3. CASE UNCHANGED vars
  BY <1>1, <1>3 DEF vars, catalogue
<1>4. CASE Crash \/ Startup
  BY <1>1, <1>4 DEF Crash, Startup, catalogue
<1>5. ASSUME NEW w \in Writer, Noted(w) \/ \E r \in Record : Request(w, r)
      PROVE  Grows
  BY <1>1, <1>5 DEF Request, Noted, catalogue
<1>6. ASSUME NEW w \in Writer, Step(w)
      PROVE  Grows
  BY <1>1, <1>2, <1>6
     DEF Step, Claim, Enqueue, EnqueueBusy, TakeGate, ReconcileFirst, ReconcileFirstFails,
         AlreadyCommitted, StatusFails, Seal, Prepare, WriteSegment, Commit, CommitFails,
         RecoverCommitted, RecoverAborted, RecoverFails, Settle, catalogue
<1>7. ASSUME NEW w \in Writer, Fault(w) \/ Cancel(w)
      PROVE  Grows
  BY <1>1, <1>2, <1>7
     DEF Fault, Cancel, PrepareFails, ReserveFails, PutFails, SettleFails, catalogue
<1> QED
  BY <1>3, <1>4, <1>5, <1>6, <1>7 DEF AnyNext

\* DurableForever for every fault: what has become durable stays durable.
THEOREM NothingDurableIsLost == Spec => DurableForever
<1>1. Durable /\ [Next]_vars => Stored \subseteq Stored'
  BY StorageGrows, AnyClient DEF Stored, Records
<1> QED
  BY StorageProtected, <1>1, PTL DEF Spec, DurableForever

---------------------------------------------------------------------------
(* The accounting of objects, an invariant by itself.                      *)

LEMMA ChargedNext ==
  ASSUME ObjectsAreCharged, [Next]_vars
  PROVE  ObjectsAreCharged'
<1> USE DEF ObjectsAreCharged
<1>1. ASSUME UNCHANGED objects, \/ UNCHANGED accounting
                                \/ ReconcileReservations
                                \/ \E p \in prep : SettleAborted(p)
      PROVE  ObjectsAreCharged'
  BY <1>1 DEF accounting, ReconcileReservations, SettleAborted
<1>2. ASSUME NEW k, NEW content, Store(k, content) \/ UNCHANGED objects,
             reserved' = reserved \cup {k}, UNCHANGED charged
      PROVE  ObjectsAreCharged'
  BY <1>2 DEF Store
<1>3. CASE UNCHANGED vars
  BY <1>1, <1>3 DEF vars
<1>4. CASE Crash \/ Startup
  BY <1>1, <1>4 DEF Crash, Startup
<1>5. ASSUME NEW w \in Writer, NEW id \in Identity, Request(w, [id |-> id, body |-> BodyOf[id]])
      PROVE  ObjectsAreCharged'
  BY <1>1, <1>5 DEF Request
<1>6. ASSUME NEW w \in Writer, Step(w)
      PROVE  ObjectsAreCharged'
  <2>1. CASE WriteSegment(w)
    BY <1>2, <2>1 DEF WriteSegment
  <2>2. CASE Settle(w)
    BY <2>2 DEF Settle, Charge
  <2>3. CASE RecoverAborted(w) \/ ReconcileFirst(w)
    BY <1>1, <2>3 DEF RecoverAborted, ReconcileFirst
  <2> QED
    BY <1>1, <1>6, <2>1, <2>2, <2>3
       DEF Step, Claim, Enqueue, EnqueueBusy, TakeGate, ReconcileFirstFails, AlreadyCommitted,
           StatusFails, Seal, Prepare, Commit, CommitFails, RecoverCommitted, RecoverFails
<1>7. ASSUME NEW w \in Writer, Fault(w)
      PROVE  ObjectsAreCharged'
  <2>1. CASE PutFails(w)
    BY <1>2, <2>1 DEF PutFails
  <2>2. CASE SettleFails(w)
    BY <1>1, <2>2 DEF SettleFails, Charge
  <2> QED
    BY <1>1, <1>7, <2>1, <2>2 DEF Fault, PrepareFails, ReserveFails
<1>8. ASSUME NEW w \in Writer, Cancel(w)
      PROVE  ObjectsAreCharged'
  BY <1>1, <1>2, <1>8 DEF Cancel, accounting
<1> QED
  BY <1>3, <1>4, <1>5, <1>6, <1>7, <1>8 DEF Next

\* ObjectsAreCharged for every fault: no object escapes the accounting.
THEOREM EverythingIsPaidFor == Spec => []ObjectsAreCharged
<1>1. Init => ObjectsAreCharged
  BY DEF Init, ObjectsAreCharged
<1>2. ObjectsAreCharged /\ [Next]_vars => ObjectsAreCharged'
  BY ChargedNext
<1> QED
  BY <1>1, <1>2, PTL DEF Spec

---------------------------------------------------------------------------
(* What Ok means.                                                          *)

\* Reads of the catalogue and the store are answered, futures run to their end.
ReadableStorage == Faults \cap {"read", "cancel"} = {}

\* One call a room stays so in a step that starts no call and queues no record.
LEMMA CallsKept ==
  ASSUME OneCallPerRoom,
         DOMAIN call' = Writer,
         \A v \in Writer : pc'[v] \notin Quiet => pc[v] \notin Quiet /\ call'[v] = call[v],
         queue' \cup round'.entries \subseteq queue \cup round.entries
  PROVE  OneCallPerRoom'
BY DEF OneCallPerRoom, RecordOf

\* A commit covers the records it commits and leaves preparations resolvable.
LEMMA CommitCovers ==
  ASSUME Covered, PreparationResolvable, NEW p \in prep, Complete(p), CommitSegments(p),
         objects' = objects
  PROVE  Covered' /\ PreparationResolvable'
BY DEF Covered, PreparationResolvable, Complete, CommitSegments, Ids

\* An abort does as well: only a preparation that was not complete is dropped.
LEMMA AbortCovers ==
  ASSUME Covered, PreparationResolvable, NEW p \in prep, AbortPreparation(p), objects' = objects
  PROVE  Covered' /\ PreparationResolvable'
BY DEF Covered, PreparationResolvable, AbortPreparation, Ids

\* So does a reconciliation.
LEMMA ReconcileCovers ==
  ASSUME Covered, PreparationResolvable, NEW p \in prep, ReconcilePending(p), objects' = objects
  PROVE  Covered' /\ PreparationResolvable'
BY CommitCovers, AbortCovers DEF ReconcilePending

\* What is covered stays covered where neither preparations, segments nor
\* objects change.
LEMMA CoveredKept ==
  ASSUME Covered, PreparationResolvable, UNCHANGED <<prep, segments, objects>>
  PROVE  Covered' /\ PreparationResolvable'
BY DEF Covered, PreparationResolvable, Ids

\* An object of the round carries only identities its plan covers.
LEMMA StoreCovers ==
  ASSUME Durable, Covered, PreparationResolvable, OneCallPerRoom, NEW w \in Writer, pc[w] = "write",
         NEW i \in 1 .. round.count, \A s \in segments : s.key # <<round.op, i>>,
         Store(<<round.op, i>>, Content(round, i)), UNCHANGED <<prep, segments>>
  PROVE  Covered' /\ PreparationResolvable'
<1>1. Ids(Content(round, i)) \subseteq PlanOf(round).cover
  BY DEF Ids, Content, PlanOf, Span, OneCallPerRoom, Identity
<1>2. prep = {PlanOf(round)}
  BY DEF Durable, RoundPlanned
<1>3. \A s \in segments : objects'[s.key] = objects[s.key]
  BY DEF Store, Durable, Separated
<1>4. \A k \in DOMAIN objects' : \/ objects'[k] = objects[k] /\ k \in DOMAIN objects
                               \/ objects'[k] = Content(round, i)
  BY DEF Store
<1> QED
  BY <1>1, <1>2, <1>3, <1>4 DEF Covered, PreparationResolvable, Ids

\* A committed round is durable, every record of it.
LEMMA CommitStores ==
  ASSUME RoundHeld, NEW w \in Writer, pc[w] \in Sealing, prep = {PlanOf(round)},
         NEW p \in prep, Complete(p), CommitSegments(p), objects' = objects
  PROVE  Records(round.entries) \subseteq Stored'
<1> SUFFICES ASSUME NEW e \in round.entries
             PROVE  e.rec \in Stored'
  BY DEF Records
<1> DEFINE k == <<round.op, round.cut[e]>>
<1>1. k \in p.outputs /\ round.cut[e] \in 1 .. round.count
  BY DEF RoundHeld, PlanOf, Outputs
<1>2. objects[k] = Content(round, round.cut[e])
  BY <1>1 DEF RoundHeld, Complete
<1>3. e \in objects[k]
  BY <1>2 DEF Content
<1>4. [key |-> k, cover |-> p.cover] \in segments'
  BY <1>1 DEF CommitSegments
<1> QED
  BY <1>3, <1>4 DEF Stored, Records

\* Nobody else is past the gate, and nobody else's call is touched.
LEMMA RoundHeldKept ==
  ASSUME RoundHeld, UNCHANGED <<round, objects, prep, segments>>,
         \A v \in Writer : pc'[v] \in Sealing => pc'[v] = pc[v] /\ call'[v] = call[v]
  PROVE  RoundHeld'
<1>1. /\ PlanOf(round)' = PlanOf(round)
      /\ Stored' = Stored
      /\ Records(round.entries)' = Records(round.entries)
      /\ \A i : Content(round, i)' = Content(round, i)
  BY DEF Records, Content, PlanOf, Outputs, Span, Ids, Stored
<1> QED
  BY <1>1 DEF RoundHeld

\* While one call holds the gate every other call is outside it.
LEMMA OthersOutside ==
  ASSUME GateHeld, NEW w \in Writer, pc[w] \in Holding, NEW v \in Writer, v # w
  PROVE  pc[v] \notin Holding
BY DEF GateHeld

\* Return, in the terms of Answered: the others are where they were, the caller
\* is done, and the round is over.
LEMMA ReturnEffect ==
  ASSUME GateHeld, OneCallPerRoom, NEW w \in Writer, NEW result \in Quiet, NEW ids,
         Return(w, result, ids)
  PROVE  /\ \A v \in Writer : v # w => pc'[v] = pc[v]
         /\ pc'[w] = result
         /\ DOMAIN call' = Writer
         /\ \A v \in Writer : pc'[v] \notin Quiet => v # w /\ call'[v] = call[v]
         /\ acked' = IF result = "ok" THEN acked \cup {call[w]} ELSE acked
         /\ pc[w] \in Holding => gate' = Nobody /\ round' = NoRound
         /\ pc[w] \notin Holding => UNCHANGED <<gate, round>>
BY DEF GateHeld, OneCallPerRoom, Return, Goto

\* The end of a call that held the gate: what the others wait for is still queued,
\* or durable by now.
LEMMA ReturnAnswered ==
  ASSUME Durable, Answered, Stored \subseteq Stored', Covered', PreparationResolvable',
         NEW w \in Writer, pc[w] \in Holding, NEW result \in Quiet, NEW ids,
         Return(w, result, ids),
         result = "ok" => call[w] \in Stored',
         queue' \subseteq queue \cup round.entries,
         \A v \in Writer : v # w /\ pc[v] = "gate" => call[v] \in Records(queue') \cup Stored'
  PROVE  Answered'
<1>1. /\ \A v \in Writer : v # w => pc'[v] = pc[v] /\ pc[v] \notin Holding
      /\ pc'[w] = result
      /\ DOMAIN call' = Writer
      /\ \A v \in Writer : pc'[v] \notin Quiet => v # w /\ call'[v] = call[v]
      /\ acked' = IF result = "ok" THEN acked \cup {call[w]} ELSE acked
      /\ gate' = Nobody /\ round' = NoRound
  BY ReturnEffect, OthersOutside DEF Durable, Answered
<1>2. OneCallPerRoom'
  BY <1>1, CallsKept DEF Answered, NoRound
<1>3. RecordHeld'
  BY <1>1 DEF RecordHeld, Holding, Quiet, NoRound
<1>4. RoundHeld'
  BY <1>1 DEF RoundHeld, Sealing, Holding, Quiet
<1>5. AckedIsDurable'
  BY <1>1 DEF AckedIsDurable, Answered
<1> QED
  BY <1>2, <1>3, <1>4, <1>5 DEF Answered

\* A call that moves on before it has sealed.
LEMMA MoveAnswered ==
  ASSUME Durable, Answered, Stored \subseteq Stored', Covered', PreparationResolvable',
         NEW w \in Writer, pc[w] \notin Quiet,
         NEW s \in {"enqueue", "gate", "reconcile", "status"}, Goto(w, s),
         UNCHANGED <<call, round, acked>>, gate' \in {gate, w},
         pc[w] \in Sealing => FALSE,
         pc[w] \in Holding \/ UNCHANGED <<prep, segments, objects>>,
         s \in {"reconcile", "status"} => round.entries = {},
         queue \subseteq queue',
         \A e \in queue' \ queue : e.rec = call[w],
         s # "enqueue" => call[w] \in Records(queue') \cup Stored'
  PROVE  Answered'
<1>1. /\ \A v \in Writer : v # w => pc'[v] = pc[v]
      /\ pc'[w] = s
  BY DEF Goto, Durable, GateHeld
<1>2. OneCallPerRoom'
  BY <1>1 DEF OneCallPerRoom, Answered, RecordOf
<1>3. RecordHeld'
  <2>1. Records(queue) \subseteq Records(queue')
    BY DEF Records
  <2> QED
    BY <1>1, <2>1, ConstantsAssumption DEF RecordHeld, Answered
<1>4. RoundHeld'
  <2>1. CASE pc[w] \in Holding
    BY <1>1, <2>1, OthersOutside DEF RoundHeld, Sealing, Holding, Durable
  <2>2. CASE UNCHANGED <<prep, segments, objects>>
    BY <1>1, <2>2, RoundHeldKept DEF Answered, Sealing
  <2> QED
    BY <2>1, <2>2
<1>5. AckedIsDurable'
  BY DEF AckedIsDurable, Answered
<1> QED
  BY <1>2, <1>3, <1>4, <1>5 DEF Answered

\* At the start no call waits for an answer.
LEMMA AnsweredInit == Init => Answered
BY DEF Init, Answered, OneCallPerRoom, RecordHeld, RoundHeld, Covered, PreparationResolvable,
       AckedIsDurable, NoRound, Quiet, Sealing

\* Coverage, step by step.
LEMMA CoveredNext ==
  ASSUME ReadableStorage, Durable, Answered, [Next]_vars
  PROVE  Covered' /\ PreparationResolvable'
<1> DEFINE Good == Covered' /\ PreparationResolvable'
<1>1. ASSUME UNCHANGED objects, \/ UNCHANGED catalogue
                                \/ \E p \in prep : ReconcilePending(p)
                                \/ \E p \in prep : Complete(p) /\ CommitSegments(p)
                                \/ \E p \in prep : AbortPreparation(p)
      PROVE  Good
  BY <1>1, CoveredKept, ReconcileCovers, CommitCovers, AbortCovers DEF Answered, catalogue
<1>2. ASSUME NEW w \in Writer, pc[w] = "write", round.written < round.count,
             Store(<<round.op, round.written + 1>>, Content(round, round.written + 1)),
             UNCHANGED catalogue
      PROVE  Good
  <2>1. \A p \in prep : <<round.op, round.written + 1>> \in p.outputs
    BY <1>2 DEF Durable, RoundPlanned, PlanOf, Outputs
  <2>2. \A s \in segments : s.key # <<round.op, round.written + 1>>
    BY <1>2, <2>1 DEF Durable, Separated, RoundPlanned
  <2>3. round.written + 1 \in 1 .. round.count
    BY <1>2 DEF Durable, RoundPlanned
  <2> QED
    BY <1>2, <2>2, <2>3, StoreCovers DEF Answered, catalogue
<1>3. ASSUME NEW w \in Writer, Written(w)
      PROVE  \A p \in prep : Complete(p)
  BY <1>3, CompleteWhenWritten DEF Durable, Written
<1>4. CASE UNCHANGED vars
  BY <1>1, <1>4 DEF vars
<1>5. CASE Crash \/ Startup
  BY <1>1, <1>5 DEF Crash, Startup, catalogue
<1>6. ASSUME NEW w \in Writer, NEW id \in Identity, Request(w, [id |-> id, body |-> BodyOf[id]])
      PROVE  Good
  BY <1>1, <1>6 DEF Request
<1>7. ASSUME NEW w \in Writer, pc[w] = "prepare", prep' = {PlanOf(round)},
             UNCHANGED <<segments, objects>>
      PROVE  Good
  <2>1. PICK e \in round.entries : e.rec = call[w]
    BY <1>7 DEF Answered, RoundHeld, Sealing, Records
  <2>2. round.cut[e] \in 1 .. round.count
    BY <1>7, <2>1 DEF Answered, RoundHeld, Sealing
  <2>3. Outputs(round) # {} /\ Outputs(round) \cap DOMAIN objects = {}
    <3>1. <<round.op, round.cut[e]>> \in Outputs(round)
      BY <2>2 DEF Outputs
    <3>2. Outputs(round) \cap DOMAIN objects = {}
      BY <1>7 DEF Durable, RoundPlanned
    <3> QED
      BY <3>1, <3>2
  <2> QED
    BY <1>7, <2>3 DEF PlanOf, Covered, PreparationResolvable, Answered, Ids
<1>8. ASSUME NEW w \in Writer, WriteSegment(w) \/ PutFails(w)
      PROVE  Good
  BY <1>1, <1>2, <1>8 DEF WriteSegment, PutFails
<1>9. ASSUME NEW w \in Writer, Commit(w) \/ CommitFails(w)
      PROVE  Good
  BY <1>1, <1>3, <1>9 DEF Commit, CommitFails
<1>10. ASSUME NEW w \in Writer, Step(w), ~Prepare(w), ~WriteSegment(w), ~Commit(w), ~CommitFails(w)
       PROVE  Good
  BY <1>1, <1>10
     DEF Step, Claim, Enqueue, EnqueueBusy, TakeGate, ReconcileFirst, ReconcileFirstFails,
         AlreadyCommitted, StatusFails, Seal, RecoverCommitted, RecoverAborted, RecoverFails,
         Settle, catalogue
<1>11. ASSUME NEW w \in Writer, ReserveFails(w) \/ SettleFails(w)
       PROVE  Good
  BY <1>1, <1>11 DEF ReserveFails, SettleFails, catalogue
<1>13. ASSUME NEW w \in Writer, Prepare(w) \/ PrepareFails(w)
       PROVE  Good
  BY <1>1, <1>7, <1>13 DEF Prepare, PrepareFails, catalogue
<1>12. ASSUME NEW w \in Writer, Cancel(w)
       PROVE  Good
  BY <1>12 DEF Cancel, ReadableStorage
<1> QED
  BY <1>4, <1>5, <1>6, <1>8, <1>9, <1>10, <1>11, <1>12, <1>13 DEF Next, Fault

\* A call goes through the steps of its round.
LEMMA SealedAnswered ==
  ASSUME Durable, Answered, Stored \subseteq Stored', Covered', PreparationResolvable',
         NEW w \in Writer, pc[w] \in Sealing, NEW s \in Sealing, Goto(w, s),
         UNCHANGED <<call, queue, gate, acked>>,
         UNCHANGED <<round.op, round.entries, round.count, round.cut>>,
         \A i \in 1 .. round.count : <<round.op, i>> \in DOMAIN objects' =>
            \/ <<round.op, i>> \in DOMAIN objects /\ objects'[<<round.op, i>>] = objects[<<round.op, i>>]
            \/ objects'[<<round.op, i>>] = Content(round, i),
         s = "recoverWrite" => prep' = {PlanOf(round)},
         s = "recoverCommit" => prep' \subseteq {PlanOf(round)},
         s = "recoverCommit" => prep' = {PlanOf(round)} \/ Records(round.entries) \subseteq Stored',
         s = "settle" => Records(round.entries) \subseteq Stored'
  PROVE  Answered'
<1>1. /\ \A v \in Writer : v # w => pc'[v] = pc[v] /\ pc[v] \notin Holding
      /\ pc'[w] = s
  BY OthersOutside DEF Goto, Durable, GateHeld, Sealing, Holding
<1>2. OneCallPerRoom'
  BY <1>1, CallsKept DEF Answered, OneCallPerRoom, Sealing, Quiet
<1>3. RecordHeld'
  BY <1>1 DEF RecordHeld, Answered, Records, Sealing, Holding
<1>4. /\ PlanOf(round)' = PlanOf(round)
      /\ Records(round.entries)' = Records(round.entries)
      /\ \A i : Content(round, i)' = Content(round, i)
  BY DEF PlanOf, Outputs, Span, Ids, Records, Content
<1>5. /\ call[w] \in Records(round.entries)
      /\ \A e \in round.entries : round.cut[e] \in 1 .. round.count
      /\ \A i \in 1 .. round.count : <<round.op, i>> \in DOMAIN objects =>
            objects[<<round.op, i>>] = Content(round, i)
  BY DEF Answered, RoundHeld
<1>6. \A v \in Writer : pc'[v] \in Sealing => v = w
  BY <1>1 DEF Sealing, Holding
<1>7. RoundHeld'
  BY <1>1, <1>4, <1>5, <1>6 DEF RoundHeld
<1>8. AckedIsDurable'
  BY DEF AckedIsDurable, Answered
<1> QED
  BY <1>2, <1>3, <1>7, <1>8 DEF Answered

\* Nobody is inside the round and the round is unchanged: calls outside move.
LEMMA OutsideAnswered ==
  ASSUME Durable, Answered, Stored \subseteq Stored', Covered', PreparationResolvable',
         OneCallPerRoom', queue \subseteq queue',
         UNCHANGED <<round, gate, acked, prep, segments, objects>>,
         \A v \in Writer : pc'[v] \in {"gate"} \cup Holding => pc'[v] = pc[v] /\ call'[v] = call[v]
  PROVE  Answered'
<1>1. Records(queue) \subseteq Records(queue') /\ Records(round.entries') = Records(round.entries)
  BY DEF Records
<1>2. RecordHeld'
  BY <1>1 DEF RecordHeld, Answered, Holding
<1>3. RoundHeld'
  BY RoundHeldKept DEF Answered, Sealing, Holding
<1>4. AckedIsDurable'
  BY DEF AckedIsDurable, Answered
<1> QED
  BY <1>2, <1>3, <1>4 DEF Answered

\* No step answers a call whose record is not durable, while storage can be read.
LEMMA AnsweredNext ==
  ASSUME ReadableStorage, Durable, Answered, [Next]_vars
  PROVE  Answered'
<1>1. Stored \subseteq Stored'
  BY StorageGrows, AnyClient DEF Stored, Records
<1>2. Covered' /\ PreparationResolvable'
  BY CoveredNext
<1>3. \A r \in Stored : SequenceCommitted(r.id)
  BY DEF Stored, Records, SequenceCommitted, Answered, Covered, Ids
<1>4. \A v, w \in Writer : v # w /\ pc[v] \notin Quiet /\ pc[w] \notin Quiet => call[v].id # call[w].id
  BY DEF Answered, OneCallPerRoom
<1>5. CASE UNCHANGED vars
  BY <1>1, <1>2, <1>5, OutsideAnswered DEF vars, volatile, catalogue, Answered, OneCallPerRoom
<1>6. CASE Crash
  BY <1>1, <1>2, <1>6
     DEF Crash, Answered, OneCallPerRoom, RecordHeld, RoundHeld, AckedIsDurable, NoRound, Quiet,
         Sealing
<1>7. CASE Startup
  BY <1>1, <1>2, <1>7
     DEF Startup, Durable, GateHeld, Answered, OneCallPerRoom, RecordHeld, RoundHeld, AckedIsDurable,
         Quiet, Sealing, Records
<1>8. ASSUME NEW w \in Writer, NEW id \in Identity, Request(w, [id |-> id, body |-> BodyOf[id]])
      PROVE  Answered'
  <2>1. \A v \in Writer : v # w => pc'[v] = pc[v] /\ call'[v] = call[v]
    BY <1>8 DEF Request, Goto, Durable, GateHeld, Answered, OneCallPerRoom
  <2>2. pc'[w] = "await" /\ call'[w] = RecordOf(id) /\ DOMAIN call' = Writer
    BY <1>8 DEF Request, Goto, RecordOf, Durable, GateHeld, Answered, OneCallPerRoom
  <2>3. OneCallPerRoom'
    BY <1>8, <2>1, <2>2 DEF Request, Answered, OneCallPerRoom, RecordOf
  <2> QED
    BY <1>1, <1>2, <1>8, <2>1, <2>2, <2>3, OutsideAnswered DEF Request, Holding, catalogue
<1>9. ASSUME NEW w \in Writer, Claim(w)
      PROVE  Answered'
  BY <1>1, <1>2, <1>9, MoveAnswered DEF Claim, Quiet, Sealing, catalogue
<1>10. ASSUME NEW w \in Writer, Enqueue(w)
       PROVE  Answered'
  <2>1. call[w] = RecordOf(call[w].id) /\ pc[w] \notin Quiet
    BY <1>10 DEF Enqueue, Answered, OneCallPerRoom, Quiet
  <2>2. QueueHas(call[w].id) => call[w] \in Records(queue)
    BY <2>1 DEF QueueHas, Ids, Records, Answered, OneCallPerRoom
  <2>3. call[w] \in Records(queue') /\ queue \subseteq queue' /\ \A e \in queue' \ queue : e.rec = call[w]
    <3> DEFINE new == [rec |-> call[w], slot |-> FreeSlot(call[w])]
    <3>1. queue' = IF QueueHas(call[w].id) THEN queue ELSE queue \cup {new}
      BY <1>10 DEF Enqueue
    <3>2. new.rec = call[w]
      OBVIOUS
    <3> HIDE DEF new
    <3>3. CASE QueueHas(call[w].id)
      BY <2>2, <3>1, <3>3
    <3>4. CASE ~QueueHas(call[w].id)
      BY <3>1, <3>2, <3>4 DEF Records
    <3> QED
      BY <3>3, <3>4
  <2> QED
    BY <1>1, <1>2, <1>10, <2>1, <2>3, MoveAnswered DEF Enqueue, Sealing, catalogue
<1>11. ASSUME NEW w \in Writer, EnqueueBusy(w)
       PROVE  Answered'
  <2>1. /\ \A v \in Writer : v # w => pc'[v] = pc[v]
        /\ pc'[w] = "err" /\ DOMAIN call' = Writer /\ acked' = acked
        /\ \A v \in Writer : pc'[v] \notin Quiet => v # w /\ call'[v] = call[v]
        /\ UNCHANGED <<gate, round>>
    BY <1>11, ReturnEffect DEF EnqueueBusy, Answered, Durable, Quiet, Holding
  <2>2. OneCallPerRoom'
    BY <1>11, <2>1, CallsKept DEF EnqueueBusy, Answered, Quiet
  <2> QED
    BY <1>1, <1>2, <1>11, <2>1, <2>2, OutsideAnswered DEF EnqueueBusy, Holding, Quiet, catalogue
<1>12. ASSUME NEW w \in Writer, TakeGate(w)
       PROVE  Answered'
  <2>1. round.entries = {} /\ call[w] \in Records(queue) \cup Stored
    BY <1>12 DEF TakeGate, Answered, RecordHeld, Records
  <2> QED
    BY <1>1, <1>2, <1>12, <2>1, MoveAnswered DEF TakeGate, Quiet, Sealing, catalogue
<1>13. ASSUME NEW w \in Writer, ReconcileFirst(w)
       PROVE  Answered'
  <2>1. round.entries = {} /\ call[w] \in Records(queue) \cup Stored
    BY <1>13 DEF ReconcileFirst, Answered, RecordHeld, Records
  <2> QED
    BY <1>1, <1>2, <1>13, <2>1, MoveAnswered DEF ReconcileFirst, Quiet, Sealing, Holding
<1>14. ASSUME NEW w \in Writer, ReconcileFirstFails(w) \/ RecoverFails(w)
       PROVE  FALSE
  BY <1>14 DEF ReconcileFirstFails, RecoverFails, ReadableStorage, Answered, PreparationResolvable
<1>15. ASSUME NEW w \in Writer, AlreadyCommitted(w)
       PROVE  Answered'
  <2>1. round.entries = {} /\ pc[w] \in Holding /\ pc[w] \notin Quiet
    BY <1>15 DEF AlreadyCommitted, Answered, RecordHeld, Holding, Quiet
  <2>2. ASSUME NEW v \in Writer, v # w, pc[v] = "gate"
        PROVE  call[v] \in Records(queue') \cup Stored'
    BY <1>1, <1>4, <1>15, <2>1, <2>2
       DEF AlreadyCommitted, RemoveIdentity, Records, Answered, RecordHeld, Quiet
  <2>3. queue' \subseteq queue
    BY <1>15 DEF AlreadyCommitted, RemoveIdentity
  <2> QED
    BY <1>1, <1>2, <1>15, <2>1, <2>2, <2>3, ReturnAnswered DEF AlreadyCommitted, Quiet
<1>16. ASSUME NEW w \in Writer, StatusFails(w)
       PROVE  Answered'
  <2>1. round.entries = {} /\ pc[w] \in Holding
    BY <1>16 DEF StatusFails, Answered, RecordHeld, Holding
  <2>2. \A v \in Writer : pc[v] = "gate" => call[v] \in Records(queue) \cup Stored
    BY <2>1 DEF Answered, RecordHeld, Records
  <2> QED
    BY <1>1, <1>2, <1>16, <2>1, <2>2, ReturnAnswered DEF StatusFails, Quiet
<1>17. ASSUME NEW w \in Writer, Seal(w)
       PROVE  Answered'
  <2>1. /\ \A v \in Writer : v # w => pc'[v] = pc[v] /\ pc[v] \notin Holding
        /\ pc'[w] = "prepare" /\ gate = w /\ w # Nobody
    BY <1>17, OthersOutside, ConstantsAssumption DEF Seal, Goto, Durable, GateHeld, Holding
  <2>2. call[w] \in Records(queue)
    BY <1>3, <1>17 DEF Seal, Answered, RecordHeld, Records
  <2>3. PICK n \in 0 .. Cardinality(queue) : \E c \in [queue -> 1 .. n] :
          round' = [op |-> operations + 1, entries |-> queue, count |-> n, cut |-> c, written |-> 0]
    BY <1>17 DEF Seal
  <2>4. /\ round'.op = operations + 1 /\ round'.entries = queue
        /\ \A e \in round'.entries : round'.cut[e] \in 1 .. round'.count
    BY <2>3
  <2>5. \A i : <<operations + 1, i>> \notin DOMAIN objects
    BY DEF Durable, Separated, OldKeys
  <2>6. OneCallPerRoom'
    BY <1>17, <2>1, <2>4, CallsKept DEF Seal, Answered, OneCallPerRoom, Quiet
  <2>7. RecordHeld'
    BY <1>1, <1>17, <2>1, <2>4 DEF Seal, RecordHeld, Answered, Records, Holding, Durable, GateHeld
  <2>8. RoundHeld'
    BY <1>17, <2>1, <2>2, <2>4, <2>5 DEF Seal, RoundHeld, Records, Sealing, Holding
  <2> QED
    BY <1>1, <1>2, <1>17, <2>6, <2>7, <2>8 DEF Seal, Answered, AckedIsDurable
<1>18. ASSUME NEW w \in Writer, Prepare(w)
       PROVE  Answered'
  BY <1>1, <1>2, <1>18, SealedAnswered DEF Prepare, Sealing
<1>19. ASSUME NEW w \in Writer, WriteSegment(w)
       PROVE  Answered'
  <2>1. /\ UNCHANGED <<round.op, round.entries, round.count, round.cut>>
        /\ Goto(w, "write")
    BY <1>19 DEF WriteSegment, Goto, Durable, GateHeld
  <2>2. \A k \in DOMAIN objects' : \/ k \in DOMAIN objects /\ objects'[k] = objects[k]
                                 \/ /\ k = <<round.op, round.written + 1>>
                                    /\ objects'[k] = Content(round, round.written + 1)
    BY <1>19 DEF WriteSegment, Store
  <2> QED
    BY <1>1, <1>2, <1>19, <2>1, <2>2, SealedAnswered DEF WriteSegment, Sealing
<1>20. ASSUME NEW w \in Writer, ReserveFails(w) \/ PutFails(w)
       PROVE  Answered'
  <2>1. prep = {PlanOf(round)}
    BY <1>20 DEF ReserveFails, PutFails, Durable, RoundPlanned
  <2>2. \A k \in DOMAIN objects' : \/ k \in DOMAIN objects /\ objects'[k] = objects[k]
                                 \/ /\ k = <<round.op, round.written + 1>>
                                    /\ objects'[k] = Content(round, round.written + 1)
    BY <1>20 DEF ReserveFails, PutFails, Store
  <2> QED
    BY <1>1, <1>2, <1>20, <2>1, <2>2, SealedAnswered
       DEF ReserveFails, PutFails, Sealing, catalogue
<1>21. ASSUME NEW w \in Writer, pc[w] \in Sealing, prep = {PlanOf(round)}, UNCHANGED objects,
              NEW p \in prep, Complete(p), CommitSegments(p)
       PROVE  Records(round.entries) \subseteq Stored' /\ prep' = {}
  BY <1>21, CommitStores DEF CommitSegments, Answered
<1>22. ASSUME NEW w \in Writer, Commit(w) \/ CommitFails(w)
       PROVE  Answered'
  <2>1. prep = {PlanOf(round)} /\ \A p \in prep : Complete(p)
    BY <1>22, CompleteWhenWritten DEF Commit, CommitFails, Written, Durable, RoundPlanned
  <2>2. \/ \E p \in prep : CommitSegments(p)
        \/ pc'[w] = "recoverCommit" /\ UNCHANGED catalogue
    BY <1>22 DEF Commit, CommitFails, Written, Goto, Durable, GateHeld
  <2>3. CASE \E p \in prep : CommitSegments(p)
    <3>1. Records(round.entries) \subseteq Stored' /\ prep' = {}
      BY <1>21, <1>22, <2>1, <2>3 DEF Commit, CommitFails, Written, Sealing
    <3> QED
      BY <1>1, <1>2, <1>22, <3>1, SealedAnswered DEF Commit, CommitFails, Written, Sealing
  <2>4. CASE CommitFails(w) /\ UNCHANGED catalogue
    BY <1>1, <1>2, <2>1, <2>4, SealedAnswered DEF CommitFails, Written, Sealing, catalogue
  <2> QED
    BY <1>22, <2>3, <2>4 DEF Commit, CommitFails
<1>23. ASSUME NEW w \in Writer, RecoverCommitted(w)
       PROVE  Answered'
  <2>1. pc[w] \in Holding /\ pc[w] \in Sealing
    BY <1>23 DEF RecoverCommitted, Holding, Sealing
  <2>2. Records(round.entries) \subseteq Stored'
    <3>1. CASE prep = {}
      BY <1>1, <1>23, <3>1 DEF RecoverCommitted, Answered, RoundHeld, Sealing
    <3>2. CASE \E p \in prep : Complete(p) /\ CommitSegments(p)
      <4>1. prep = {PlanOf(round)}
        BY <1>23, <3>2 DEF RecoverCommitted, Answered, RoundHeld, Sealing
      <4> QED
        BY <1>21, <1>23, <2>1, <3>2, <4>1 DEF RecoverCommitted
    <3> QED
      BY <1>23, <3>1, <3>2 DEF RecoverCommitted
  <2>3. call[w] \in Stored'
    BY <2>1, <2>2 DEF Answered, RoundHeld
  <2>4. \A v \in Writer : pc[v] = "gate" => call[v] \in Records(queue) \cup Stored'
    BY <1>1, <2>2 DEF Answered, RecordHeld
  <2> QED
    BY <1>1, <1>2, <1>23, <2>1, <2>3, <2>4, ReturnAnswered DEF RecoverCommitted, Quiet
<1>24. ASSUME NEW w \in Writer, RecoverAborted(w)
       PROVE  Answered'
  <2>1. pc[w] \in Holding /\ pc[w] \notin Quiet
    BY <1>24 DEF RecoverAborted, Holding, Quiet
  <2>2. ASSUME NEW v \in Writer, v # w, pc[v] = "gate"
        PROVE  call[v] \in Records(queue') \cup Stored'
    BY <1>1, <1>4, <1>24, <2>1, <2>2
       DEF RecoverAborted, RemoveIdentity, Records, Answered, RecordHeld, Quiet
  <2>3. queue' \subseteq queue \cup round.entries
    BY <1>24 DEF RecoverAborted, RemoveIdentity
  <2> QED
    BY <1>1, <1>2, <1>24, <2>1, <2>2, <2>3, ReturnAnswered DEF RecoverAborted, Quiet
<1>25. ASSUME NEW w \in Writer, Settle(w) \/ SettleFails(w)
       PROVE  Answered'
  <2>1. pc[w] \in Holding /\ Records(round.entries) \subseteq Stored /\ call[w] \in Stored
    BY <1>25 DEF Settle, SettleFails, Holding, Answered, RoundHeld, Sealing
  <2>2. \A v \in Writer : pc[v] = "gate" => call[v] \in Records(queue) \cup Stored
    BY <2>1 DEF Answered, RecordHeld
  <2> QED
    BY <1>1, <1>2, <1>25, <2>1, <2>2, ReturnAnswered DEF Settle, SettleFails, Quiet
<1>26. ASSUME NEW w \in Writer, PrepareFails(w)
       PROVE  Answered'
  <2>1. pc[w] \in Holding /\ queue' = queue \cup round.entries
    BY <1>26 DEF PrepareFails, Holding
  <2>2. \A v \in Writer : pc[v] = "gate" => call[v] \in Records(queue') \cup Stored
    BY <2>1 DEF Answered, RecordHeld, Records
  <2> QED
    BY <1>1, <1>2, <1>26, <2>1, <2>2, ReturnAnswered DEF PrepareFails, Quiet
<1>27. ASSUME NEW w \in Writer
       PROVE  ~Cancel(w)
  BY DEF Cancel, ReadableStorage
<1> QED
  BY <1>5, <1>6, <1>7, <1>8, <1>9, <1>10, <1>11, <1>12, <1>13, <1>14, <1>15, <1>16, <1>17, <1>18,
     <1>19, <1>20, <1>22, <1>23, <1>24, <1>25, <1>26, <1>27 DEF Next, Step, Fault

\* AckedIsDurable and PreparationResolvable, where storage can be read back and no
\* call is dropped.
THEOREM AnswersAreTrue ==
  ASSUME ReadableStorage
  PROVE  Spec => []Answered
<1>1. Init => Answered
  BY AnsweredInit
<1>2. Durable /\ Answered /\ [Next]_vars => Answered'
  BY AnsweredNext
<1> QED
  BY <1>1, <1>2, StorageProtected, PTL DEF Spec

\* What append answers Ok for is in a committed segment: the room's y-ack is true.
THEOREM OkMeansDurable ==
  ASSUME ReadableStorage
  PROVE  Spec => []AckedIsDurable
<1>1. Answered => AckedIsDurable
  BY DEF Answered
<1> QED
  BY <1>1, AnswersAreTrue, PTL

\* No preparation can wedge startup: every plan names an object.
THEOREM EveryPreparationResolves ==
  ASSUME ReadableStorage
  PROVE  Spec => []PreparationResolvable
<1>1. Answered => PreparationResolvable
  BY DEF Answered
<1> QED
  BY <1>1, AnswersAreTrue, PTL

---------------------------------------------------------------------------
(* The refinement of DurableLog.                                           *)

\* An object of the store carries the bytes of its identities.
BytesKept ==
  \A k \in DOMAIN objects : \A e \in objects[k] :
    e.rec = RecordOf(e.rec.id) /\ e.rec.id \in Identity

\* What an object carries of an identity are the identity's bytes, after every step.
LEMMA BytesNext ==
  ASSUME OneCallPerRoom, BytesKept, [Next]_vars
  PROVE  BytesKept'
<1>1. ASSUME NEW k, NEW i, Store(k, Content(round, i)) \/ UNCHANGED objects
      PROVE  BytesKept'
  BY <1>1 DEF Store, Content, BytesKept, OneCallPerRoom, RecordOf
<1>2. CASE UNCHANGED objects
  BY <1>1, <1>2
<1>3. ASSUME NEW w \in Writer, WriteSegment(w) \/ PutFails(w) \/ Cancel(w)
      PROVE  BytesKept'
  BY <1>1, <1>3 DEF WriteSegment, PutFails, Cancel
<1>4. ASSUME NEW w \in Writer, Step(w) \/ Fault(w), ~WriteSegment(w), ~PutFails(w)
      PROVE  UNCHANGED objects
  BY <1>4
     DEF Step, Fault, Claim, Enqueue, EnqueueBusy, TakeGate, ReconcileFirst, ReconcileFirstFails,
         AlreadyCommitted, StatusFails, Seal, Prepare, Commit, CommitFails, RecoverCommitted,
         RecoverAborted, RecoverFails, Settle, PrepareFails, ReserveFails, SettleFails
<1>5. CASE Crash \/ Startup \/ UNCHANGED vars
  BY <1>2, <1>5 DEF Crash, Startup, vars
<1>6. ASSUME NEW w \in Writer, NEW id \in Identity, Request(w, [id |-> id, body |-> BodyOf[id]])
      PROVE  BytesKept'
  BY <1>2, <1>6 DEF Request
<1> QED
  BY <1>2, <1>3, <1>4, <1>5, <1>6 DEF Next

\* One answer per step.
LEMMA OneAnswer ==
  ASSUME [Next]_vars
  PROVE  acked' = acked \/ \E r : acked' = acked \cup {r}
<1>1. ASSUME NEW w, NEW result, NEW ids, Return(w, result, ids)
      PROVE  acked' = acked \/ \E r : acked' = acked \cup {r}
  BY <1>1 DEF Return
<1>2. ASSUME NEW w \in Writer, Step(w) \/ Fault(w) \/ Cancel(w)
      PROVE  acked' = acked \/ \E v, result, ids : Return(v, result, ids)
  BY <1>2
     DEF Step, Fault, Claim, Enqueue, EnqueueBusy, TakeGate, ReconcileFirst, ReconcileFirstFails,
         AlreadyCommitted, StatusFails, Seal, Prepare, WriteSegment, Commit, CommitFails,
         RecoverCommitted, RecoverAborted, RecoverFails, Settle, PrepareFails, ReserveFails,
         PutFails, SettleFails, Cancel
<1> QED
  BY <1>1, <1>2 DEF Next, Crash, Startup, Request, vars

\* The journal implements the durable log: storage only grows, by records whose
\* cursor had no other content, and Ok is answered for what is in it.
THEOREM JournalIsADurableLog ==
  ASSUME ReadableStorage
  PROVE  Spec => ImplementsDurableLog
<1>1. Init => BytesKept /\ Abstract!Init
  BY DEF Init, BytesKept, Abstract!Init, Stored
<1>2. Answered /\ BytesKept /\ [Next]_vars => BytesKept'
  BY BytesNext DEF Answered
<1>3. ASSUME Durable, Durable', Answered', BytesKept', [Next]_vars
      PROVE  Abstract!Next
  <2>1. Stored \subseteq Stored'
    BY <1>3, StorageGrows, AnyClient DEF Stored, Records
  <2>2. \A r \in Stored' : r = RecordOf(r.id) /\ r.id \in Identity
    BY <1>3 DEF Stored, Records, BytesKept, Durable, Separated
  <2>3. Stored' \subseteq Record
    BY <2>2, ClientAssumption DEF Record, RecordOf
  <2>4. acked' \subseteq Stored'
    BY <1>3 DEF Answered, AckedIsDurable
  <2>5. acked' = acked \/ \E r : acked' = acked \cup {r}
    BY <1>3, OneAnswer
  <2> QED
    BY <2>1, <2>2, <2>3, <2>4, <2>5 DEF Abstract!Next, Abstract!Persist, Abstract!Answer
<1> QED
  BY <1>1, <1>2, <1>3, StorageProtected, AnswersAreTrue, PTL DEF Spec, ImplementsDurableLog, Abstract!Spec

---------------------------------------------------------------------------
(***************************************************************************)
(* Retention (module JournalRetention), for any set of documents and any   *)
(* number of flushes and faults.  The invariant is about payment and need: *)
(* what a document that still claims a share of the journal needs, a       *)
(* claiming document pays for; the commit of the unresolved preparation    *)
(* would do no harm, whenever reconciliation gets to it; no manifest is in *)
(* the store under a revision a later preparation may take; what the       *)
(* worker has decided to delete stays unneeded until it is deleted; and a  *)
(* rewrite's output holds the records of every document still active.      *)
(***************************************************************************)

\* The types of the retention state.  A segment covers at least its own documents, each up to a sequence above 0.
Covers == UNION {[ds -> Nat \ {0}] : ds \in SUBSET RetDoc}
Segments == [id : Nat, key : {SegKey(n, ds) : n \in Nat, ds \in SUBSET RetDoc}, owner : RetDoc, cover : Covers]
Compacting == {"put_base", "put_root", "commit"}
Rewriting == {"reserve", "write", "charge", "move"}
Passing == {"pass", "delete", "release"}
RetStatuses == {"active", "deleting", "gone"}
RetGates == Compacting \cup Rewriting \cup Passing \cup {"free", "settle", "startup"}

\* Types, as far as the proofs need them.
RetTypes ==
  /\ retStatus \in [RetDoc -> RetStatuses]
  /\ retSeq \in [RetDoc -> Nat] /\ retBase \in [RetDoc -> Nat] /\ retDue \subseteq RetDoc
  /\ retFlushed \in Nat /\ retRevision \in Nat
  /\ retSegs \subseteq Segments
  /\ retGate \in RetGates
  /\ \A c \in retCharged : c = <<c[1], c[2]>>
  /\ \A c \in retReserved : c = <<c[1], c[2]>>

\* A document that still has a share in the journal.
Claims(d) == retBase[d] > 0 \/ \E s \in retSegs : d \in DOMAIN s.cover

\* The object is charged to the document, or reserved for it.
Pays(d, k) == <<d, k>> \in retCharged \cup retReserved

\* A segment names its number in its key, is charged to a document it covers, and covers no
\* document whose deletion finished; an active document it covers has its record in the body, and
\* a body that holds more than the cover is queued.
SegmentIsSound(s) ==
  /\ s.id <= retFlushed /\ s.key[2] = s.id
  /\ \E o \in DOMAIN s.cover : <<o, s.key>> \in retCharged
  /\ DocsIn(s.key) \subseteq DOMAIN s.cover \/ s.key \in RowKeys(retRows)
  /\ \A d \in DOMAIN s.cover :
       /\ s.cover[d] <= retSeq[d] /\ retStatus[d] # "gone"
       /\ retStatus[d] = "active" => d \in DocsIn(s.key)

\* Segments are numbered once.
SegmentsAreSound ==
  /\ \A s \in retSegs : SegmentIsSound(s)
  /\ \A s, t \in retSegs : s.id = t.id => s = t

\* A document's base is paid by the document and not past its sequence; what the base lacks is in a
\* segment, and a room that may compact has something to compact.
DocumentIsSound(d) ==
  /\ retBase[d] <= retSeq[d]
  /\ retBase[d] > 0 => retStatus[d] # "gone" /\ Pays(d, BaseKey(d, retBase[d]))
  /\ retStatus[d] = "active" /\ retSeq[d] > retBase[d] =>
       \E s \in retSegs : d \in DOMAIN s.cover /\ s.cover[d] = retSeq[d]
  /\ retStatus[d] = "active" /\ d \in retDue => retBase[d] < retSeq[d]

\* The manifest names live keys only, and a document that still claims a share pays for it.
ManifestIsSound ==
  /\ retListed \subseteq KeysOf(retSegs) \cup BaseKeys
  /\ retRoot = {} => retListed = {}
  /\ \A k, l \in retRoot : k = l
  /\ \A k \in retRoot : k[1] = "manifest" /\ \E d \in RetDoc : Claims(d) /\ Pays(d, k)

\* A row that asks for a rewrite: its document is no longer active, and the
\* segment of that number holds nothing the row's key does not name.
RewriteRowIsSound(r) ==
  r.kind = "rewrite" =>
    /\ r.key[1] = "segment" /\ r.key[2] \in Nat /\ r.key[2] <= retFlushed
    /\ r.storage \in RetDoc /\ retStatus[r.storage] # "active"
    /\ \A s \in retSegs : s.id = r.key[2] => DocsIn(s.key) \subseteq DocsIn(r.key)

\* journal_retirements' primary key.
OneRowPerKey(rows) == \A r, q \in rows : r.key = q.key => r = q

\* What holds of the queue, and of the candidates a pass has read from it.
RowsAreSound(rows) == OneRowPerKey(rows) /\ \A r \in rows : RewriteRowIsSound(r)

\* The commit of a preparation would do no harm.
PlanIsSound(p) ==
  /\ p.doc \in RetDoc /\ p.doc \notin retDue /\ p.seq = retSeq[p.doc] /\ p.seq > 0
  /\ \E s \in retSegs : p.doc \in DOMAIN s.cover
  /\ p.inputs = KeysOf(Retirable(p.doc))
  /\ p.root = RootKey(retRevision + 1)
  /\ p.listed = (BaseKeys \ {BaseKey(p.doc, retBase[p.doc])}) \cup {BaseKey(p.doc, p.seq)}
                \cup (KeysOf(retSegs) \ p.inputs)
  /\ <<p.doc, BaseKey(p.doc, p.seq)>> \in retReserved
  /\ retGate \in {"put_root", "commit"} =>
       <<p.doc, p.root>> \in retReserved /\ BaseKey(p.doc, p.seq) \in retObjects
  /\ retGate = "commit" => p.root \in retObjects

\* At most one preparation is unresolved, and none is while a rewrite runs.
PlansAreSound ==
  /\ \A p, q \in retPlan : p = q
  /\ \A p \in retPlan : PlanIsSound(p)
  /\ retGate \in Rewriting \cup {"settle"} => retPlan = {}

\* A manifest is written under the next revision only by the preparation of it.
RootsAreFresh ==
  \A k \in retObjects : k[1] = "manifest" =>
    /\ k[2] \in Nat
    /\ k[3] = {} /\ k[2] > retRevision =>
         \E p \in retPlan : /\ k = p.root /\ <<p.doc, k>> \in retReserved
                            /\ BaseKey(p.doc, p.seq) \in retObjects
                            /\ retGate \notin {"put_base", "put_root"}

\* What the worker decided to delete is still needed by nothing, and its charge is dropped after the object.
DeletionIsSafe ==
  /\ retGate \in {"delete", "release"} =>
       \A w \in retWork : w.key \notin RetLive /\ \A p \in retPlan : w.key \notin RetOutputs(p)
  /\ retGate = "release" => \A w \in retWork : w.key \notin retObjects

\* A rewrite in progress: its output keeps the records of every active document of the segment, is queued
\* until it takes over, and is paid before it is written.
RewriteIsSound(w) ==
  \E s \in retSegs :
    /\ s.key = w.row.key /\ w.out = SegKey(s.id, DocsIn(w.out)) /\ w.heir \in DOMAIN s.cover
    /\ DocsIn(w.out) # {} /\ DocsIn(w.out) # DocsIn(s.key)
    /\ DocsIn(w.out) \subseteq DOMAIN s.cover \cap DocsIn(s.key)
    /\ \A d \in DOMAIN s.cover : retStatus[d] = "active" => d \in DocsIn(w.out)
    /\ w.roots = {MovedRoot(m, w.out) : m \in {n \in retRoot : s.key \in retListed}}
    /\ w.old = {n \in retRoot : w.roots # {}}
    /\ Staged(w) \cup {w.row.key} \subseteq RowKeys(retRows)
    /\ retGate \in {"write", "charge"} => \A k \in Staged(w) : <<w.heir, k>> \in retReserved
    /\ retGate \in {"charge", "move"} => Staged(w) \subseteq retObjects
    /\ retGate = "move" => \A k \in Staged(w) : <<w.heir, k>> \in retCharged

\* The pass reads its candidates and does all its steps under the gate; a rewrite's row is not in the pass twice.
PassIsSound ==
  /\ \A v, u \in retWork : v = u
  /\ retGate \notin Passing \cup Rewriting => retPass = {}
  /\ \A r \in retPass : r.kind = "rewrite" /\ r.key \in KeysOf(retSegs) => r.key \in RowKeys(retRows)
  /\ retGate \in Rewriting => \A w \in retWork : RewriteIsSound(w) /\ \A r \in retPass : r.key # w.row.key

\* The agreement of the store, without what recovery returns.
StoreIsWhole ==
  /\ RetLive \subseteq retObjects /\ retObjects \subseteq Reachable
  /\ \A k \in retObjects : Charged(k) \/ LeftBehind(k)
  /\ RetErasureIsQueued

\* The inductive invariant.
RetInv ==
  /\ RetTypes /\ SegmentsAreSound /\ \A d \in RetDoc : DocumentIsSound(d)
  /\ ManifestIsSound /\ RowsAreSound(retRows) /\ RowsAreSound(retPass)
  /\ PlansAreSound /\ RootsAreFresh /\ DeletionIsSafe /\ PassIsSound /\ StoreIsWhole

---------------------------------------------------------------------------
\* What a key is made of.
LEMMA KeyParts ==
  /\ \A n, ds : SegKey(n, ds)[1] = "segment" /\ SegKey(n, ds)[2] = n /\ SegKey(n, ds)[3] = ds /\ DocsIn(SegKey(n, ds)) = ds
  /\ \A d, n : BaseKey(d, n)[1] = "base" /\ BaseKey(d, n)[2] = d /\ BaseKey(d, n)[3] = n
  /\ \A n : RootKey(n)[1] = "manifest" /\ RootKey(n)[2] = n /\ RootKey(n)[3] = {}
  /\ \A m, k : MovedRoot(m, k)[1] = "manifest" /\ MovedRoot(m, k)[3] = DocsIn(k)
  /\ \A m, n, ds : SegKey(m, ds) = SegKey(n, ds) => m = n
BY DEF SegKey, BaseKey, RootKey, MovedRoot, DocsIn

\* The fields of a segment.
LEMMA SegmentFields ==
  ASSUME NEW s \in Segments
  PROVE  /\ s.id \in Nat /\ s.owner \in RetDoc /\ DOMAIN s.cover \subseteq RetDoc
         /\ \A d \in DOMAIN s.cover : s.cover[d] \in Nat \ {0}
         /\ s.key = SegKey(s.key[2], DocsIn(s.key)) /\ s.key[2] \in Nat /\ DocsIn(s.key) \subseteq RetDoc
         /\ s.key[1] = "segment"
<1>1. PICK ds \in SUBSET RetDoc : s.cover \in [ds -> Nat \ {0}] BY DEF Segments, Covers
<1>2. PICK n \in Nat, es \in SUBSET RetDoc : s.key = SegKey(n, es) BY DEF Segments
<1>3. s.key[1] = "segment" /\ s.key[2] = n /\ DocsIn(s.key) = es BY <1>2, KeyParts
<1> QED BY <1>1, <1>2, <1>3 DEF Segments

\* What makes a segment.
LEMMA SegmentMade ==
  ASSUME NEW i \in Nat, NEW n \in Nat, NEW es \in SUBSET RetDoc, NEW o \in RetDoc, NEW ds \in SUBSET RetDoc,
         NEW cover \in [ds -> Nat \ {0}]
  PROVE  [id |-> i, key |-> SegKey(n, es), owner |-> o, cover |-> cover] \in Segments
<1>1. cover \in Covers BY DEF Covers
<1> QED BY <1>1 DEF Segments

\* What the invariant says of a segment.
LEMMA SegmentFacts ==
  ASSUME RetTypes, SegmentsAreSound, NEW s \in retSegs
  PROVE  /\ s \in Segments /\ s.id \in Nat /\ s.id <= retFlushed /\ s.key = SegKey(s.id, DocsIn(s.key))
         /\ s.key[1] = "segment" /\ s.key[2] = s.id /\ DocsIn(s.key) \subseteq RetDoc
         /\ DOMAIN s.cover \subseteq RetDoc /\ \A d \in DOMAIN s.cover : s.cover[d] \in Nat \ {0}
         /\ s.key \in RetLive
         /\ \A t \in retSegs : t.key = s.key => t = s
         /\ \A t \in retSegs : t.key[2] = s.key[2] => t = s
<1>1. s \in Segments BY DEF RetTypes
<1>2. s.id <= retFlushed /\ s.key[2] = s.id BY DEF SegmentsAreSound, SegmentIsSound
<1>3. \A t \in retSegs : t.key[2] = t.id BY DEF SegmentsAreSound, SegmentIsSound
<1>4. \A t \in retSegs : t.key[2] = s.key[2] => t = s BY <1>3 DEF SegmentsAreSound
<1>5. s.key \in RetLive BY DEF RetLive, KeysOf
<1> QED BY <1>1, <1>2, <1>4, <1>5, SegmentFields

\* What is live, by its kind.
LEMMA LiveParts ==
  ASSUME RetTypes, SegmentsAreSound, ManifestIsSound
  PROVE  /\ \A k \in KeysOf(retSegs) : k[1] = "segment" /\ \E s \in retSegs : s.key = k
         /\ \A k \in BaseKeys : k[1] = "base" /\ k[2] \in RetDoc /\ retBase[k[2]] > 0 /\ k = BaseKey(k[2], retBase[k[2]])
         /\ \A d \in RetDoc : retBase[d] > 0 => BaseKey(d, retBase[d]) \in BaseKeys
         /\ \A k \in retRoot : k[1] = "manifest"
         /\ \A k \in retListed : k \in KeysOf(retSegs) \/ k \in BaseKeys
         /\ RetLive = KeysOf(retSegs) \cup BaseKeys \cup retRoot
<1>1. \A k \in KeysOf(retSegs) : k[1] = "segment" /\ \E s \in retSegs : s.key = k
  BY SegmentFacts DEF KeysOf
<1>2. \A k \in BaseKeys : k[1] = "base" /\ k[2] \in RetDoc /\ retBase[k[2]] > 0 /\ k = BaseKey(k[2], retBase[k[2]])
  BY KeyParts DEF BaseKeys
<1>3. \A d \in RetDoc : retBase[d] > 0 => BaseKey(d, retBase[d]) \in BaseKeys BY DEF BaseKeys
<1>4. retListed \subseteq KeysOf(retSegs) \cup BaseKeys /\ \A k \in retRoot : k[1] = "manifest" BY DEF ManifestIsSound
<1> QED BY <1>1, <1>2, <1>3, <1>4 DEF RetLive

\* Rows are added under keys that have none.
LEMMA QueueKeeps ==
  ASSUME NEW rows, NEW new
  PROVE  /\ rows \subseteq Queue(rows, new) /\ Queue(rows, new) \subseteq rows \cup new
         /\ RowKeys(Queue(rows, new)) = RowKeys(rows) \cup RowKeys(new)
         /\ \A r \in Queue(rows, new) : r \in rows \/ (r \in new /\ r.key \notin RowKeys(rows))
BY DEF Queue, RowKeys

\* The fields of a retirement row.
LEMMA RowParts ==
  \A k, kind, st : Row(k, kind, st).key = k /\ Row(k, kind, st).kind = kind /\ Row(k, kind, st).storage = st
BY DEF Row

---------------------------------------------------------------------------
\* What holds of every step that leaves the journal's rows alone.
StaysPaid == \A d, k : Claims(d) /\ k \in RetLive =>
  /\ <<d, k>> \in retCharged => <<d, k>> \in retCharged'
  /\ Pays(d, k) => <<d, k>> \in retCharged' \cup retReserved'

\* A step that changes no journal row and takes no payment away from a live object of a claiming document.
QuietStep ==
  /\ UNCHANGED <<retSeq, retFlushed, retSegs, retBase, retRoot, retListed, retRevision>>
  /\ retDue' \subseteq retDue
  /\ retStatus' \in [RetDoc -> RetStatuses]
  /\ \A d \in RetDoc : /\ retStatus'[d] = "active" => retStatus[d] = "active"
                       /\ retStatus'[d] = "gone" => retStatus[d] = "gone" \/ ~Claims(d)
                       /\ retStatus[d] = "gone" => retStatus'[d] = "gone"
  /\ StaysPaid
  /\ \A c \in retCharged' : c = <<c[1], c[2]>>
  /\ \A c \in retReserved' : c = <<c[1], c[2]>>
  /\ \A s \in retSegs : s.key \in RowKeys(retRows) =>
       s.key \in RowKeys(retRows') \/ DocsIn(s.key) \subseteq DOMAIN s.cover
  /\ retGate' \in RetGates

\* The steps that leave the ledger, the rows and the documents alone.
LEMMA PlainStep ==
  ASSUME RetTypes, UNCHANGED <<retStatus, retSeq, retFlushed, retJournal>>, retDue' \subseteq retDue,
         retGate' \in RetGates, UNCHANGED retCharged, retReserved \subseteq retReserved',
         RowKeys(retRows) \subseteq RowKeys(retRows'),
         \A c \in retReserved' : c = <<c[1], c[2]>>
  PROVE  QuietStep
BY DEF QuietStep, RetTypes, retJournal, StaysPaid, Pays

\* One lemma for every step: the four that change the journal's rows, and the rest.
Commits == \E p \in retPlan :
  /\ CommitPlan(p) /\ RetOutputs(p) \subseteq retObjects /\ p.inputs \subseteq KeysOf(retSegs)
  /\ retPlan' = {} /\ UNCHANGED <<retStatus, retSeq, retFlushed, retDue, retObjects, retPass>>
  /\ retGate \notin Passing \cup Rewriting
  /\ retGate' \in {"free", "settle"}
  /\ retCharged \subseteq retCharged'
  /\ \A c \in retReserved : c[2] \in retObjects => c \in retCharged' \cup retReserved'
  /\ \A c \in retCharged' : c = <<c[1], c[2]>>
  /\ \A c \in retReserved' : c = <<c[1], c[2]>>

\* A compaction is quiet up to its commit.
LEMMA CompactionIsQuiet ==
  ASSUME RetInv, RetCompact
  PROVE  QuietStep \/ Commits
<1> USE DEF RetInv
<1>0. RetTypes OBVIOUS
<1>1. ASSUME NEW d \in RetDoc, RetCompactPrepare(d) PROVE QuietStep
  <2>1. retReserved' = retReserved \cup {<<d, BaseKey(d, retSeq[d])>>} BY <1>1 DEF RetCompactPrepare
  <2>2. \A c \in retReserved' : c = <<c[1], c[2]>> BY <2>1, <1>0 DEF RetTypes
  <2> QED BY <1>0, <1>1, <2>1, <2>2, PlainStep DEF RetCompactPrepare, RetGates, Compacting
<1>2. ASSUME RetCompactPutBase PROVE QuietStep
  <2>1. PICK p \in retPlan : retReserved' = retReserved \cup {<<p.doc, p.root>>} BY <1>2 DEF RetCompactPutBase
  <2>2. \A c \in retReserved' : c = <<c[1], c[2]>> BY <2>1, <1>0 DEF RetTypes
  <2> QED BY <1>0, <1>2, <2>1, <2>2, PlainStep DEF RetCompactPutBase, RetGates, Compacting, retDocs
<1>3. ASSUME RetCompactPutRoot PROVE QuietStep
  BY <1>0, <1>3, PlainStep DEF RetCompactPutRoot, RetGates, Compacting, retDocs, retLedger, RetTypes
<1>4. ASSUME RetCompactFails PROVE QuietStep
  BY <1>0, <1>4, PlainStep DEF RetCompactFails, RetGates, Compacting, retDocs, retLedger, RetTypes
<1>5. ASSUME RetCompactCommit PROVE Commits
  <2>1. PICK p \in retPlan : CommitPlan(p) BY <1>5 DEF RetCompactCommit
  <2>2. PlanIsSound(p) /\ retGate = "commit" BY <1>5 DEF RetCompactCommit, PlansAreSound
  <2>3. RetOutputs(p) \subseteq retObjects BY <2>2 DEF PlanIsSound, RetOutputs
  <2>4. p.inputs \subseteq KeysOf(retSegs) BY <2>2 DEF PlanIsSound, KeysOf, Retirable
  <2>5. UNCHANGED <<retDocs, retObjects, retLedger, retPass>> /\ retPlan' = {} /\ retGate' = "settle"
    BY <1>5 DEF RetCompactCommit
  <2>6. retGate \notin Passing \cup Rewriting BY <2>2 DEF Passing, Rewriting
  <2>7. /\ \A c \in retCharged' : c = <<c[1], c[2]>>
        /\ \A c \in retReserved' : c = <<c[1], c[2]>>
    BY <2>5, <1>0 DEF RetTypes, retLedger
  <2> QED BY <2>1, <2>3, <2>4, <2>5, <2>6, <2>7 DEF Commits, retDocs, retLedger
<1>6. ASSUME RetCompactSettle PROVE QuietStep
  <2>1. PICK w \in retWork : /\ retCharged' = retCharged \cup (w.keys \cap retReserved)
                             /\ retReserved' = retReserved \ w.keys
    BY <1>6 DEF RetCompactSettle
  <2>2. StaysPaid BY <2>1 DEF StaysPaid, Pays
  <2>3. /\ \A c \in retCharged' : c = <<c[1], c[2]>>
        /\ \A c \in retReserved' : c = <<c[1], c[2]>>
    BY <2>1, <1>0 DEF RetTypes
  <2> QED BY <1>0, <1>6, <2>2, <2>3 DEF QuietStep, RetCompactSettle, RetGates, retDocs, retJournal, RetTypes
<1> QED BY <1>1, <1>2, <1>3, <1>4, <1>5, <1>6 DEF RetCompact

\* Reconciliation commits the preparation, or queues its outputs.
LEMMA ReconcileIsQuiet ==
  ASSUME RetInv, RetReconcile
  PROVE  QuietStep \/ Commits
<1> USE DEF RetInv
<1>0. RetTypes OBVIOUS
<1>1. /\ retCharged' = retCharged \cup {r \in retReserved : r[2] \in retObjects}
      /\ retReserved' = {} /\ retPlan' = {} /\ retGate' = "free"
      /\ UNCHANGED <<retDocs, retObjects, retWork, retPass, retFails>>
  BY DEF RetReconcile
<1>2. /\ \A c \in retCharged' : c = <<c[1], c[2]>>
      /\ \A c \in retReserved' : c = <<c[1], c[2]>>
  BY <1>1, <1>0 DEF RetTypes
<1>3. RetLive \subseteq retObjects BY DEF StoreIsWhole
<1>4. StaysPaid
  <2> SUFFICES ASSUME NEW d, NEW k, k \in RetLive, Pays(d, k)
               PROVE  <<d, k>> \in retCharged'
    BY <1>1 DEF StaysPaid, Pays
  <2>1. k \in retObjects BY <1>3
  <2>2. <<d, k>>[2] = k OBVIOUS
  <2> QED BY <2>1, <2>2, <1>1 DEF Pays
<1>5. ASSUME UNCHANGED retJournal, RowKeys(retRows) \subseteq RowKeys(retRows') PROVE QuietStep
  BY <1>0, <1>1, <1>2, <1>4, <1>5 DEF QuietStep, RetGates, retDocs, retJournal, RetTypes
<1>6. ASSUME NEW p \in retPlan, CommitPlan(p), RetOutputs(p) \subseteq retObjects, p.inputs \subseteq KeysOf(retSegs)
      PROVE  Commits
  <2>1. retGate \notin Passing \cup Rewriting BY DEF RetReconcile, Passing, Rewriting
  <2> QED BY <1>1, <1>2, <1>6, <2>1 DEF Commits, retDocs
<1>7. CASE retPlan = {} /\ UNCHANGED <<retJournal, retRows>> BY <1>5, <1>7
<1>8. ASSUME NEW p \in retPlan, ~(RetOutputs(p) \subseteq retObjects /\ p.inputs \subseteq KeysOf(retSegs)),
             retRows' = Queue(retRows, {Row(k, "segment", p.doc) : k \in RetOutputs(p)}), UNCHANGED retJournal
      PROVE  QuietStep
  <2>1. RowKeys(retRows) \subseteq RowKeys(retRows') BY <1>8, QueueKeeps
  <2> QED BY <1>5, <1>8, <2>1
<1> QED BY <1>6, <1>7, <1>8 DEF RetReconcile

\* begin_delete and finish_delete: the second is refused while the document claims a share.
LEMMA DeletionIsQuiet ==
  ASSUME RetInv, NEW d \in RetDoc, RetStartDelete(d) \/ RetFinish(d)
  PROVE  QuietStep
<1> USE DEF RetInv
<1>0. RetTypes OBVIOUS
<1>1. ASSUME RetStartDelete(d) PROVE QuietStep
  BY <1>0, <1>1 DEF RetStartDelete, QuietStep, RetTypes, StaysPaid, Pays, retJournal, retLedger, RetStatuses
<1>2. ASSUME RetFinish(d) PROVE QuietStep
  <2>1. ~Claims(d) BY <1>2, <1>0 DEF RetFinish, Unclaimed, Claims, RetTypes
  <2>2. retCharged' = {c \in retCharged : c[1] # d} /\ retReserved' = {c \in retReserved : c[1] # d}
    BY <1>2 DEF RetFinish
  <2>3. \A e, k : <<e, k>>[1] = e OBVIOUS
  <2>4. StaysPaid BY <2>1, <2>2, <2>3 DEF StaysPaid, Pays
  <2>5. /\ retStatus' = [retStatus EXCEPT ![d] = "gone"]
        /\ UNCHANGED <<retSeq, retDue, retFlushed, retJournal, retRows, retGate>>
    BY <1>2 DEF RetFinish
  <2>6. /\ \A c \in retCharged' : c = <<c[1], c[2]>>
        /\ \A c \in retReserved' : c = <<c[1], c[2]>>
    BY <2>2, <1>0 DEF RetTypes
  <2> QED BY <1>0, <2>1, <2>4, <2>5, <2>6 DEF QuietStep, RetTypes, retJournal, RetStatuses
<1> QED BY <1>1, <1>2

\* The worker releases the charge of an object that was not live.
LEMMA SweepIsQuiet ==
  ASSUME RetInv, RetSweep
  PROVE  QuietStep
<1> USE DEF RetInv
<1>0. RetTypes OBVIOUS
<1>1. ASSUME RetPassBegin \/ RetPassEnd \/ RetDelete \/ RetDeleteUnsure PROVE QuietStep
  BY <1>0, <1>1, PlainStep DEF RetPassBegin, RetPassEnd, RetDelete, RetDeleteUnsure, RetGates, Passing, retDocs,
     retLedger, RetTypes
<1>2. ASSUME NEW r \in retPass, RetReclaim(r) \/ RetSkip(r) PROVE QuietStep
  BY <1>0, <1>2, PlainStep DEF RetReclaim, RetSkip, InTurn, RetGates, Passing, retDocs, retLedger, RetTypes
<1>3. ASSUME RetRelease PROVE QuietStep
  <2>1. PICK w \in retWork : /\ retCharged' = {c \in retCharged : c[2] # w.key}
                             /\ retRows' = {r \in retRows : r.key # w.key}
    BY <1>3 DEF RetRelease
  <2>2. w.key \notin RetLive BY <1>3 DEF RetRelease, DeletionIsSafe
  <2>3. \A d, k : <<d, k>>[2] = k OBVIOUS
  <2>4. retReserved' = retReserved /\ retGate' = "pass" /\ UNCHANGED <<retDocs, retJournal>>
    BY <1>3 DEF RetRelease, retLedger
  <2>5. StaysPaid BY <2>1, <2>2, <2>3, <2>4 DEF StaysPaid, Pays
  <2>6. /\ \A c \in retCharged' : c = <<c[1], c[2]>>
        /\ \A c \in retReserved' : c = <<c[1], c[2]>>
    BY <2>1, <2>4, <1>0 DEF RetTypes
  <2>7. \A s \in retSegs : s.key # w.key BY <2>2 DEF RetLive, KeysOf
  <2>8. \A s \in retSegs : s.key \in RowKeys(retRows) => s.key \in RowKeys(retRows')
    BY <2>1, <2>7 DEF RowKeys
  <2> QED BY <1>0, <2>4, <2>5, <2>6, <2>8 DEF QuietStep, RetTypes, RetGates, Passing, retDocs, retJournal
<1> QED BY <1>1, <1>2, <1>3 DEF RetSweep

\* A rewrite up to its move: only a row whose segment holds nothing to drop leaves the queue.
LEMMA RewriteIsQuiet ==
  ASSUME RetInv, RetRewrite, ~RetRewriteMove
  PROVE  QuietStep
<1> USE DEF RetInv
<1>0. RetTypes /\ SegmentsAreSound OBVIOUS
<1>1. ASSUME NEW r \in retPass, RetRewriteNothing(r) PROVE QuietStep
  <2>1. PICK s \in retSegs :
          /\ s.key = r.key
          /\ \/ UNCHANGED retRows
             \/ /\ DocsIn(s.key) \subseteq Survivors(s, r)
                /\ retRows' = {q \in retRows : q.key # r.key}
    BY <1>1 DEF RetRewriteNothing
  <2>2. DocsIn(s.key) \subseteq Survivors(s, r) => DocsIn(s.key) \subseteq DOMAIN s.cover BY DEF Survivors
  <2>3. \A t \in retSegs : t.key = s.key => t = s BY <1>0, SegmentFacts
  <2>4. \A t \in retSegs : t.key \in RowKeys(retRows) =>
           t.key \in RowKeys(retRows') \/ DocsIn(t.key) \subseteq DOMAIN t.cover
    BY <2>1, <2>2, <2>3 DEF RowKeys
  <2>5. UNCHANGED <<retDocs, retJournal, retLedger, retGate>> BY <1>1 DEF RetRewriteNothing
  <2> QED BY <1>0, <2>4, <2>5 DEF QuietStep, StaysPaid, Pays, RetTypes, retDocs, retJournal, retLedger
<1>2. ASSUME NEW r \in retPass, RetRewriteStage(r) PROVE QuietStep
  <2>1. \E new : retRows' = Queue(retRows, new) BY <1>2 DEF RetRewriteStage
  <2>2. RowKeys(retRows) \subseteq RowKeys(retRows') BY <2>1, QueueKeeps
  <2>3. retGate' = "reserve" /\ UNCHANGED <<retDocs, retJournal, retLedger>> BY <1>2 DEF RetRewriteStage
  <2> QED BY <1>0, <2>2, <2>3, PlainStep DEF RetGates, Rewriting, retDocs, retLedger, RetTypes
<1>3. ASSUME RetRewriteReserve PROVE QuietStep
  <2>1. PICK w \in retWork :
          \/ retReserved' = retReserved \cup {<<w.heir, k>> : k \in Staged(w)} /\ retGate' = "write"
          \/ retReserved' = retReserved /\ retGate' = "pass"
    BY <1>3 DEF RetRewriteReserve
  <2>2. \A c \in retReserved' : c = <<c[1], c[2]>> BY <2>1, <1>0 DEF RetTypes
  <2>3. UNCHANGED <<retDocs, retJournal, retRows, retCharged>> BY <1>3 DEF RetRewriteReserve
  <2>4. retReserved \subseteq retReserved' BY <2>1
  <2>5. retGate' \in RetGates BY <2>1 DEF RetGates, Rewriting, Passing
  <2> QED BY <1>0, <2>2, <2>3, <2>4, <2>5, PlainStep DEF retDocs
<1>4. ASSUME RetRewriteWrite \/ RetRewriteFails PROVE QuietStep
  BY <1>0, <1>4, PlainStep DEF RetRewriteWrite, RetRewriteFails, RetGates, Rewriting, Passing, retDocs, retLedger, RetTypes
<1>5. ASSUME RetRewriteCharge PROVE QuietStep
  <2>1. PICK w \in retWork :
           /\ retCharged' = retCharged \cup ({<<w.heir, k>> : k \in Staged(w)} \cap retReserved)
           /\ retReserved' = retReserved \ {<<w.heir, k>> : k \in Staged(w)}
    BY <1>5 DEF RetRewriteCharge
  <2>2. StaysPaid BY <2>1 DEF StaysPaid, Pays
  <2>3. /\ \A c \in retCharged' : c = <<c[1], c[2]>>
        /\ \A c \in retReserved' : c = <<c[1], c[2]>>
    BY <2>1, <1>0 DEF RetTypes
  <2>4. retGate' = "move" /\ UNCHANGED <<retDocs, retJournal, retRows>> BY <1>5 DEF RetRewriteCharge
  <2> QED BY <1>0, <2>2, <2>3, <2>4 DEF QuietStep, RetGates, Rewriting, retDocs, retJournal, RetTypes
<1> QED BY <1>1, <1>2, <1>3, <1>4, <1>5 DEF RetRewrite

\* The steps of the specification, by what they do to the journal.
LEMMA StepKinds ==
  ASSUME RetInv, RetNext
  PROVE  \/ QuietStep \/ Commits \/ RetRewriteMove
         \/ \E ds \in SUBSET RetDoc : RetFlush(ds)
         \/ \E d \in RetDoc : RetRetire(d)
<1>1. ASSUME RetCrash PROVE QuietStep
  <2>1. RetTypes BY DEF RetInv
  <2> QED BY <1>1, <2>1, PlainStep DEF RetCrash, RetGates, retLedger, RetTypes
<1> QED BY <1>1, CompactionIsQuiet, ReconcileIsQuiet, DeletionIsQuiet, SweepIsQuiet, RewriteIsQuiet DEF RetNext

---------------------------------------------------------------------------
\* What stays true of documents and segments while the journal's rows do not change.
LEMMA QuietKeeps ==
  ASSUME RetInv, QuietStep
  PROVE  RetTypes' /\ SegmentsAreSound' /\ (\A d \in RetDoc : DocumentIsSound(d)') /\ ManifestIsSound'
<1>0. RetTypes /\ SegmentsAreSound /\ ManifestIsSound /\ \A d \in RetDoc : DocumentIsSound(d) BY DEF RetInv
<1> USE DEF QuietStep
<1>1. RetTypes' BY <1>0 DEF RetTypes
<1>2. KeysOf(retSegs') = KeysOf(retSegs) /\ BaseKeys' = BaseKeys BY DEF KeysOf, BaseKeys
<1>3. \A d : Claims(d)' <=> Claims(d) BY DEF Claims
<1>4. \A d, k : Pays(d, k)' <=> <<d, k>> \in retCharged' \cup retReserved' BY DEF Pays
<1>5. SegmentsAreSound'
  <2>1. ASSUME NEW s \in retSegs PROVE SegmentIsSound(s)'
    <3>1. SegmentIsSound(s) BY <1>0 DEF SegmentsAreSound
    <3>2. \A d \in DOMAIN s.cover : Claims(d) /\ d \in RetDoc BY <1>0, SegmentFacts DEF Claims
    <3>3. s.key \in RetLive BY <1>0, SegmentFacts
    <3>4. \E o \in DOMAIN s.cover : <<o, s.key>> \in retCharged' BY <3>1, <3>2, <3>3 DEF SegmentIsSound, StaysPaid
    <3>5. \A d \in DOMAIN s.cover : retStatus'[d] # "gone" /\ (retStatus'[d] = "active" => d \in DocsIn(s.key))
      BY <3>1, <3>2 DEF SegmentIsSound
    <3>6. DocsIn(s.key) \subseteq DOMAIN s.cover \/ s.key \in RowKeys(retRows') BY <3>1 DEF SegmentIsSound
    <3> QED BY <3>1, <3>4, <3>5, <3>6 DEF SegmentIsSound
  <2> QED BY <2>1, <1>0 DEF SegmentsAreSound
<1>6. ASSUME NEW d \in RetDoc PROVE DocumentIsSound(d)'
  <2>1. DocumentIsSound(d) BY <1>0
  <2>2. retBase[d] > 0 => Claims(d) /\ BaseKey(d, retBase[d]) \in RetLive
    BY <1>0, LiveParts DEF Claims
  <2>3. retBase[d] > 0 => Pays(d, BaseKey(d, retBase[d]))' BY <2>1, <2>2, <1>4 DEF DocumentIsSound, StaysPaid
  <2>4. retBase[d] > 0 => retStatus'[d] # "gone" BY <2>1, <2>2 DEF DocumentIsSound
  <2> QED BY <2>1, <2>3, <2>4 DEF DocumentIsSound
<1>7. ManifestIsSound'
  <2>1. \A k \in retRoot : k \in RetLive BY DEF RetLive
  <2>2. \A k \in retRoot : \E d \in RetDoc : Claims(d) /\ Pays(d, k) BY <1>0 DEF ManifestIsSound
  <2>3. \A k \in retRoot : \E d \in RetDoc : Claims(d)' /\ Pays(d, k)' BY <2>1, <2>2, <1>3, <1>4 DEF StaysPaid
  <2> QED BY <1>0, <1>2, <2>3 DEF ManifestIsSound
<1> QED BY <1>1, <1>5, <1>6, <1>7

\* What the transaction of a compaction makes of the journal.
LEMMA CommitDoes ==
  ASSUME RetInv, NEW p \in retPlan, CommitPlan(p), RetOutputs(p) \subseteq retObjects,
         UNCHANGED <<retStatus, retSeq, retFlushed>>
  PROVE  /\ PlanIsSound(p) /\ p.doc \in RetDoc /\ p.seq = retSeq[p.doc] /\ p.seq > 0 /\ p.seq \in Nat
         /\ \A s : s \in retSegs' <=> s \in retSegs /\ s \notin Retirable(p.doc)
         /\ \A k : k \in KeysOf(retSegs') <=> k \in KeysOf(retSegs) /\ k \notin p.inputs
         /\ retBase' \in [RetDoc -> Nat] /\ retBase'[p.doc] = p.seq
         /\ \A d \in RetDoc : d # p.doc => retBase'[d] = retBase[d]
         /\ \A k \in BaseKeys' : k = BaseKey(p.doc, p.seq) \/ (k \in BaseKeys /\ k # BaseKey(p.doc, retBase[p.doc]))
         /\ \A k \in BaseKeys : k \in BaseKeys' \/ k = BaseKey(p.doc, retBase[p.doc])
         /\ BaseKey(p.doc, p.seq) \in BaseKeys'
         /\ retRoot' = {p.root} /\ p.root = RootKey(retRevision + 1) /\ retRevision' = retRevision + 1
         /\ \A k \in retListed' : \/ k = BaseKey(p.doc, p.seq) \/ k \in KeysOf(retSegs')
                                  \/ k \in BaseKeys /\ k # BaseKey(p.doc, retBase[p.doc])
         /\ \A k \in RowKeys(retRows) : k \in RowKeys(retRows')
         /\ retBase[p.doc] > 0 => BaseKey(p.doc, retBase[p.doc]) \in RowKeys(retRows')
         /\ \A k \in retRoot : k # p.root => k \in RowKeys(retRows')
         /\ \A k \in p.inputs : k \in RowKeys(retRows')
         /\ \A r \in retRows' : r \in retRows \/ r.kind # "rewrite"
         /\ \A r \in retRows', q \in retRows' : r.key = q.key => r = q
<1>0. RetTypes /\ SegmentsAreSound /\ ManifestIsSound /\ PlanIsSound(p) /\ RowsAreSound(retRows)
  BY DEF RetInv, PlansAreSound
<1>1. p.doc \in RetDoc /\ p.seq = retSeq[p.doc] /\ p.seq > 0 /\ p.seq \in Nat /\ p.inputs = KeysOf(Retirable(p.doc))
      /\ p.root = RootKey(retRevision + 1)
      /\ p.listed = (BaseKeys \ {BaseKey(p.doc, retBase[p.doc])}) \cup {BaseKey(p.doc, p.seq)}
                    \cup (KeysOf(retSegs) \ p.inputs)
  BY <1>0 DEF PlanIsSound, RetTypes
<1>2. \A s \in retSegs : s.key \in p.inputs <=> s \in Retirable(p.doc)
  <2>1. Retirable(p.doc) \subseteq retSegs BY DEF Retirable
  <2>2. \A s \in retSegs, t \in retSegs : s.key = t.key => s = t BY <1>0, SegmentFacts
  <2> QED BY <1>1, <2>1, <2>2 DEF KeysOf
<1>3. retSegs' = {s \in retSegs : s.key \notin p.inputs} /\ retBase' = [retBase EXCEPT ![p.doc] = p.seq]
      /\ retRoot' = {p.root} /\ retListed' = p.listed /\ retRevision' = retRevision + 1
  BY DEF CommitPlan
<1>4. \A s : s \in retSegs' <=> s \in retSegs /\ s \notin Retirable(p.doc) BY <1>2, <1>3
<1>5. \A k : k \in KeysOf(retSegs') <=> k \in KeysOf(retSegs) /\ k \notin p.inputs BY <1>3 DEF KeysOf
<1>6. retBase' \in [RetDoc -> Nat] /\ retBase'[p.doc] = p.seq /\ \A d \in RetDoc : d # p.doc => retBase'[d] = retBase[d]
  BY <1>0, <1>1, <1>3 DEF RetTypes
<1>7. BaseKeys' = {BaseKey(d, retBase'[d]) : d \in {e \in RetDoc : retBase'[e] > 0}} BY DEF BaseKeys
<1>8. \A k \in BaseKeys' : k = BaseKey(p.doc, p.seq) \/ (k \in BaseKeys /\ k # BaseKey(p.doc, retBase[p.doc]))
  <2> SUFFICES ASSUME NEW d \in RetDoc, retBase'[d] > 0, d # p.doc
               PROVE  BaseKey(d, retBase[d]) \in BaseKeys /\ BaseKey(d, retBase[d]) # BaseKey(p.doc, retBase[p.doc])
    BY <1>6, <1>7
  <2>1. BaseKey(d, retBase[d])[2] = d /\ BaseKey(p.doc, retBase[p.doc])[2] = p.doc BY KeyParts
  <2> QED BY <1>6, <2>1 DEF BaseKeys
<1>9. \A k \in BaseKeys : k \in BaseKeys' \/ k = BaseKey(p.doc, retBase[p.doc])
  BY <1>6, <1>7 DEF BaseKeys
<1>10. BaseKey(p.doc, p.seq) \in BaseKeys' BY <1>1, <1>6, <1>7
<1>11. \A k \in retListed' : \/ k = BaseKey(p.doc, p.seq) \/ k \in KeysOf(retSegs')
                             \/ k \in BaseKeys /\ k # BaseKey(p.doc, retBase[p.doc])
  BY <1>1, <1>3, <1>5
<1> DEFINE old == {Row(BaseKey(p.doc, n), "base", p.doc) : n \in {retBase[p.doc]} \ {0}}
           roots == {Row(k, "manifest", Deployment) : k \in retRoot \ {p.root}}
           ins == {Row(k, "segment", p.doc) : k \in p.inputs}
<1>12. retRows' = Queue(retRows, old \cup roots \cup ins) BY DEF CommitPlan
<1>13. RowKeys(retRows') = RowKeys(retRows) \cup RowKeys(old \cup roots \cup ins)
       /\ \A r \in retRows' : r \in retRows \/ (r \in old \cup roots \cup ins /\ r.key \notin RowKeys(retRows))
  <2> HIDE DEF old, roots, ins
  <2> QED BY <1>12, QueueKeeps
<1>14. retBase[p.doc] > 0 => BaseKey(p.doc, retBase[p.doc]) \in RowKeys(old) BY <1>0, <1>1, RowParts DEF RowKeys, RetTypes
<1>15. \A k \in retRoot : k # p.root => k \in RowKeys(roots) BY RowParts DEF RowKeys
<1>16. \A k \in p.inputs : k \in RowKeys(ins)
  <2> SUFFICES ASSUME NEW k \in p.inputs PROVE k \in RowKeys(ins) OBVIOUS
  <2>1. Row(k, "segment", p.doc) \in ins OBVIOUS
  <2>2. Row(k, "segment", p.doc).key = k BY RowParts
  <2> HIDE DEF ins
  <2> QED BY <2>1, <2>2 DEF RowKeys
<1>17. RowKeys(old \cup roots \cup ins) = RowKeys(old) \cup RowKeys(roots) \cup RowKeys(ins) BY DEF RowKeys
<1>18. \A r \in old \cup roots \cup ins : r.kind # "rewrite" BY RowParts
<1>19. /\ \A k \in p.inputs : k[1] = "segment"
       /\ \A k \in retRoot : k[1] = "manifest"
       /\ BaseKey(p.doc, retBase[p.doc])[1] = "base"
  BY <1>0, <1>1, LiveParts, KeyParts DEF KeysOf, Retirable
<1>20. \A r \in old \cup roots \cup ins, q \in old \cup roots \cup ins : r.key = q.key => r = q
  <2>1. \A r \in old : r = Row(BaseKey(p.doc, retBase[p.doc]), "base", p.doc) /\ r.key[1] = "base" BY <1>19, RowParts
  <2>2. \A r \in roots : r = Row(r.key, "manifest", Deployment) /\ r.key[1] = "manifest" BY <1>19, RowParts
  <2>3. \A r \in ins : r = Row(r.key, "segment", p.doc) /\ r.key[1] = "segment" BY <1>19, RowParts
  <2> HIDE DEF old, roots, ins
  <2> QED BY <2>1, <2>2, <2>3
<1>21. \A r \in retRows', q \in retRows' : r.key = q.key => r = q
  <2>1. \A r \in retRows, q \in retRows : r.key = q.key => r = q BY <1>0 DEF RowsAreSound, OneRowPerKey
  <2>2. \A r \in retRows : r.key \in RowKeys(retRows) BY DEF RowKeys
  <2> HIDE DEF old, roots, ins
  <2> QED BY <1>13, <1>20, <2>1, <2>2
<1>22. \A k \in RowKeys(retRows) : k \in RowKeys(retRows') BY <1>13
<1>23. \A r \in retRows' : r \in retRows \/ r.kind # "rewrite" BY <1>13, <1>18
<1> HIDE DEF old, roots, ins
<1>24. retBase[p.doc] > 0 => BaseKey(p.doc, retBase[p.doc]) \in RowKeys(retRows') BY <1>13, <1>14, <1>17
<1>25. \A k \in retRoot : k # p.root => k \in RowKeys(retRows') BY <1>13, <1>15, <1>17
<1>26. \A k \in p.inputs : k \in RowKeys(retRows') BY <1>13, <1>16, <1>17
<1> QED BY <1>0, <1>1, <1>3, <1>4, <1>5, <1>6, <1>8, <1>9, <1>10, <1>11, <1>21, <1>22, <1>23, <1>24, <1>25, <1>26

\* The commit of a preparation keeps documents, segments and manifest sound.
LEMMA CompactionKeeps ==
  ASSUME RetInv, Commits
  PROVE  RetTypes' /\ SegmentsAreSound' /\ (\A d \in RetDoc : DocumentIsSound(d)') /\ ManifestIsSound'
<1>0. RetTypes /\ SegmentsAreSound /\ ManifestIsSound /\ (\A d \in RetDoc : DocumentIsSound(d)) /\ RetLive \subseteq retObjects
  BY DEF RetInv, StoreIsWhole
<1>1. PICK p \in retPlan :
        /\ CommitPlan(p) /\ RetOutputs(p) \subseteq retObjects
        /\ UNCHANGED <<retStatus, retSeq, retFlushed, retDue, retObjects, retPass>>
        /\ retGate' \in {"free", "settle"}
        /\ retCharged \subseteq retCharged'
        /\ \A c \in retReserved : c[2] \in retObjects => c \in retCharged' \cup retReserved'
        /\ \A c \in retCharged' : c = <<c[1], c[2]>>
        /\ \A c \in retReserved' : c = <<c[1], c[2]>>
  BY DEF Commits
<1>2. /\ PlanIsSound(p) /\ p.doc \in RetDoc /\ p.seq = retSeq[p.doc] /\ p.seq > 0 /\ p.seq \in Nat
      /\ \A s : s \in retSegs' <=> s \in retSegs /\ s \notin Retirable(p.doc)
      /\ \A k : k \in KeysOf(retSegs') <=> k \in KeysOf(retSegs) /\ k \notin p.inputs
      /\ retBase' \in [RetDoc -> Nat] /\ retBase'[p.doc] = p.seq
      /\ \A d \in RetDoc : d # p.doc => retBase'[d] = retBase[d]
      /\ \A k \in BaseKeys : k \in BaseKeys' \/ k = BaseKey(p.doc, retBase[p.doc])
      /\ BaseKey(p.doc, p.seq) \in BaseKeys'
      /\ retRoot' = {p.root} /\ p.root = RootKey(retRevision + 1) /\ retRevision' = retRevision + 1
      /\ \A k \in retListed' : \/ k = BaseKey(p.doc, p.seq) \/ k \in KeysOf(retSegs')
                               \/ k \in BaseKeys /\ k # BaseKey(p.doc, retBase[p.doc])
      /\ \A k \in RowKeys(retRows) : k \in RowKeys(retRows')
  BY <1>1, CommitDoes
<1>3. RetTypes'
  <2>1. retGate' \in RetGates BY <1>1 DEF RetGates
  <2> QED BY <1>0, <1>1, <1>2, <2>1 DEF RetTypes
<1>4. ASSUME NEW d, NEW k \in retObjects, Pays(d, k) PROVE Pays(d, k)'
  <2>1. <<d, k>>[2] = k OBVIOUS
  <2> QED BY <1>1, <1>4, <2>1 DEF Pays
<1>5. SegmentsAreSound'
  <2>1. ASSUME NEW s \in retSegs' PROVE SegmentIsSound(s)'
    <3>1. s \in retSegs BY <1>2
    <3>2. SegmentIsSound(s) BY <1>0, <3>1 DEF SegmentsAreSound
    <3> QED BY <1>1, <1>2, <3>2 DEF SegmentIsSound
  <2> QED BY <2>1, <1>0, <1>2 DEF SegmentsAreSound
<1>6. /\ Pays(p.doc, BaseKey(p.doc, p.seq))' /\ Pays(p.doc, p.root)'
      /\ retStatus[p.doc] # "gone"
  <2>1. <<p.doc, BaseKey(p.doc, p.seq)>> \in retReserved /\ \E s \in retSegs : p.doc \in DOMAIN s.cover
    BY <1>2 DEF PlanIsSound
  <2>2. <<p.doc, p.root>> \in retReserved
    <3>1. p.root \in retObjects /\ p.root[1] = "manifest" /\ p.root[3] = {} /\ p.root[2] > retRevision
      BY <1>0, <1>1, <1>2, KeyParts DEF RetOutputs, RetTypes
    <3>2. PICK q \in retPlan : p.root = q.root /\ <<q.doc, p.root>> \in retReserved
      BY <3>1 DEF RetInv, RootsAreFresh
    <3>3. q = p BY DEF RetInv, PlansAreSound
    <3> QED BY <3>2, <3>3
  <2>3. p.root \in retObjects /\ BaseKey(p.doc, p.seq) \in retObjects BY <1>1 DEF RetOutputs
  <2> QED BY <1>0, <1>4, <2>1, <2>2, <2>3 DEF Pays, SegmentsAreSound, SegmentIsSound
<1>7. ASSUME NEW d \in RetDoc PROVE DocumentIsSound(d)'
  <2>1. DocumentIsSound(d) BY <1>0
  <2>2. CASE d = p.doc
    <3>1. p.doc \notin retDue BY <1>2 DEF PlanIsSound
    <3> QED BY <1>1, <1>2, <1>6, <2>2, <3>1 DEF DocumentIsSound
  <2>3. CASE d # p.doc
    <3>1. retBase[d] > 0 => Pays(d, BaseKey(d, retBase[d]))'
      <4>1. retBase[d] > 0 => BaseKey(d, retBase[d]) \in retObjects BY <1>0, LiveParts
      <4>2. PICK k : k = BaseKey(d, retBase[d]) OBVIOUS
      <4>3. retBase[d] > 0 => Pays(d, k)' BY <1>4, <2>1, <4>1, <4>2 DEF DocumentIsSound
      <4>4. retBase'[d] = retBase[d] BY <1>2, <2>3
      <4> QED BY <4>2, <4>3, <4>4 DEF Pays
    <3>2. \A s \in retSegs : d \in DOMAIN s.cover /\ s.cover[d] = retSeq[d] /\ retSeq[d] > retBase[d] => s \in retSegs'
      <4>1. retSeq[d] \in Nat /\ retBase[d] \in Nat BY <1>0 DEF RetTypes
      <4> QED BY <1>2, <2>3, <4>1 DEF Retirable
    <3> QED BY <1>1, <1>2, <2>1, <2>3, <3>1, <3>2 DEF DocumentIsSound
  <2> QED BY <2>2, <2>3
<1>8. ManifestIsSound'
  <2>1. retListed' \subseteq KeysOf(retSegs') \cup BaseKeys' BY <1>2
  <2>2. Claims(p.doc)' BY <1>2 DEF Claims
  <2>3. p.root[1] = "manifest" BY <1>2, KeyParts
  <2> QED BY <1>2, <1>6, <2>1, <2>2, <2>3 DEF ManifestIsSound
<1> QED BY <1>3, <1>5, <1>7, <1>8

---------------------------------------------------------------------------
\* What a flush makes of the journal.
LEMMA FlushDoes ==
  ASSUME RetInv, NEW ds \in SUBSET RetDoc, RetFlush(ds)
  PROVE  \E s \in Segments, o \in ds :
           /\ s.id = retFlushed + 1 /\ s.key = SegKey(retFlushed + 1, ds) /\ DOMAIN s.cover = ds
           /\ \A d \in ds : s.cover[d] = retSeq[d] + 1 /\ retStatus[d] = "active"
           /\ retSegs' = retSegs \cup {s} /\ retObjects' = retObjects \cup {s.key}
           /\ retCharged' = retCharged \cup {<<o, s.key>>}
<1> DEFINE key == SegKey(retFlushed + 1, ds)
           owner == CHOOSE d \in ds : TRUE
           cover == [d \in ds |-> retSeq[d] + 1]
           s == [id |-> retFlushed + 1, key |-> key, owner |-> owner, cover |-> cover]
<1>0. RetTypes BY DEF RetInv
<1>1. ds # {} /\ \A d \in ds : retStatus[d] = "active" BY DEF RetFlush
<1>2. owner \in ds BY <1>1
<1>3. cover \in [ds -> Nat \ {0}] BY <1>0 DEF RetTypes
<1>4. retFlushed + 1 \in Nat /\ ds \in SUBSET RetDoc /\ owner \in RetDoc BY <1>0, <1>2 DEF RetTypes
<1>5. s \in Segments
  <2> HIDE DEF cover, owner
  <2> QED BY <1>3, <1>4, SegmentMade
<1>6. s.id = retFlushed + 1 /\ s.key = key /\ s.cover = cover OBVIOUS
<1>7. DOMAIN cover = ds /\ \A d \in ds : cover[d] = retSeq[d] + 1 OBVIOUS
<1>8. retSegs' = retSegs \cup {s} /\ retObjects' = retObjects \cup {key} /\ retCharged' = retCharged \cup {<<owner, key>>}
  BY DEF RetFlush
<1> HIDE DEF s, cover, owner, key
<1>9. PICK t \in Segments : t = s BY <1>5
<1>10. PICK k : k = key OBVIOUS
<1>11. k = SegKey(retFlushed + 1, ds) BY <1>10 DEF key
<1> QED BY <1>1, <1>2, <1>6, <1>7, <1>8, <1>9, <1>10, <1>11

\* A flush does.
LEMMA FlushKeeps ==
  ASSUME RetInv, NEW ds \in SUBSET RetDoc, RetFlush(ds)
  PROVE  RetTypes' /\ SegmentsAreSound' /\ (\A d \in RetDoc : DocumentIsSound(d)') /\ ManifestIsSound'
<1>0. RetTypes /\ SegmentsAreSound /\ ManifestIsSound /\ (\A d \in RetDoc : DocumentIsSound(d)) BY DEF RetInv
<1>1. PICK n \in Segments, o \in ds :
           /\ n.id = retFlushed + 1 /\ n.key = SegKey(retFlushed + 1, ds) /\ DOMAIN n.cover = ds
           /\ \A d \in ds : n.cover[d] = retSeq[d] + 1 /\ retStatus[d] = "active"
           /\ retSegs' = retSegs \cup {n} /\ retObjects' = retObjects \cup {n.key}
           /\ retCharged' = retCharged \cup {<<o, n.key>>}
  BY FlushDoes
<1>2. /\ retSeq' = [d \in RetDoc |-> IF d \in ds THEN retSeq[d] + 1 ELSE retSeq[d]]
      /\ retDue' = retDue \cup ds /\ retFlushed' = retFlushed + 1
      /\ UNCHANGED <<retStatus, retBase, retRoot, retListed, retRevision, retRows, retReserved, retPlan, retGate>>
  BY DEF RetFlush
<1>3. \A d \in RetDoc : retSeq[d] \in Nat /\ retSeq'[d] = IF d \in ds THEN retSeq[d] + 1 ELSE retSeq[d]
  BY <1>0, <1>2 DEF RetTypes
<1>4. RetTypes' BY <1>0, <1>1, <1>2 DEF RetTypes
<1>5. SegmentsAreSound'
  <2>1. ASSUME NEW s \in retSegs PROVE SegmentIsSound(s)' /\ s.id # n.id
    <3>1. SegmentIsSound(s) /\ s.id \in Nat /\ DOMAIN s.cover \subseteq RetDoc BY <1>0, SegmentFacts DEF SegmentsAreSound
    <3>2. retFlushed \in Nat BY <1>0 DEF RetTypes
    <3>3. \A d \in DOMAIN s.cover : s.cover[d] <= retSeq'[d]
      BY <1>0, <1>3, <3>1, SegmentFacts DEF SegmentIsSound
    <3>4. s.id <= retFlushed' /\ s.id # n.id BY <3>1, <3>2, <1>1, <1>2 DEF SegmentIsSound
    <3> QED BY <1>1, <1>2, <3>1, <3>3, <3>4 DEF SegmentIsSound
  <2>2. SegmentIsSound(n)'
    <3>1. n.key[2] = n.id /\ DocsIn(n.key) = ds BY <1>1, KeyParts
    <3> QED BY <1>0, <1>1, <1>2, <1>3, <3>1 DEF SegmentIsSound, RetTypes
  <2> QED BY <2>1, <2>2, <1>0, <1>1 DEF SegmentsAreSound
<1>6. ASSUME NEW d \in RetDoc PROVE DocumentIsSound(d)'
  <2>1. DocumentIsSound(d) /\ retBase[d] \in Nat /\ retBase'[d] = retBase[d] /\ retStatus' = retStatus
    BY <1>0, <1>2 DEF RetTypes
  <2>2. \A k : Pays(d, k) => Pays(d, k)' BY <1>1, <1>2 DEF Pays
  <2>3. PICK k : k = BaseKey(d, retBase[d]) OBVIOUS
  <2>4. retBase[d] > 0 => Pays(d, k)' BY <2>1, <2>2, <2>3 DEF DocumentIsSound
  <2>5. retBase'[d] > 0 => Pays(d, BaseKey(d, retBase[d]))' BY <2>1, <2>3, <2>4 DEF Pays
  <2>6. CASE d \in ds BY <1>1, <1>2, <1>3, <2>1, <2>5, <2>6 DEF DocumentIsSound
  <2>7. CASE d \notin ds BY <1>1, <1>2, <1>3, <2>1, <2>5, <2>7 DEF DocumentIsSound
  <2> QED BY <2>6, <2>7
<1>7. ManifestIsSound'
  <2>1. KeysOf(retSegs) \subseteq KeysOf(retSegs') /\ BaseKeys' = BaseKeys BY <1>1, <1>2 DEF KeysOf, BaseKeys
  <2>2. \A d, k : Claims(d) /\ Pays(d, k) => Claims(d)' /\ Pays(d, k)' BY <1>1, <1>2 DEF Claims, Pays
  <2> QED BY <1>0, <1>2, <2>1, <2>2 DEF ManifestIsSound
<1> QED BY <1>4, <1>5, <1>6, <1>7

---------------------------------------------------------------------------
\* The segment t is what is left of s when d gives up its share.
Shrunk(t, s, d) ==
  /\ t.id = s.id /\ t.key = s.key /\ t \in Segments
  /\ DOMAIN t.cover = DOMAIN s.cover \ {d} /\ \A o \in DOMAIN t.cover : t.cover[o] = s.cover[o]

\* A segment without one of its documents.
LEMMA WithoutShrinks ==
  ASSUME NEW s \in Segments, NEW d
  PROVE  Shrunk(RetWithout(s, d), s, d)
<1>1. PICK ds \in SUBSET RetDoc : s.cover \in [ds -> Nat \ {0}] BY DEF Segments, Covers
<1> DEFINE c == [o \in DOMAIN s.cover \ {d} |-> s.cover[o]]
<1>2. c \in [ds \ {d} -> Nat \ {0}] BY <1>1
<1>3. c \in Covers BY <1>2 DEF Covers
<1>4. RetWithout(s, d) = [s EXCEPT !.cover = c] BY DEF RetWithout
<1>5. DOMAIN c = DOMAIN s.cover \ {d} /\ \A o \in DOMAIN c : c[o] = s.cover[o] OBVIOUS
<1> HIDE DEF c
<1>6. RetWithout(s, d).id = s.id /\ RetWithout(s, d).key = s.key /\ RetWithout(s, d).cover = c
      /\ RetWithout(s, d) \in Segments
  BY <1>3, <1>4 DEF Segments
<1> QED BY <1>5, <1>6 DEF Shrunk

\* What the retirement of a document's rows makes of the journal.
LEMMA RetireDoes ==
  ASSUME RetInv, NEW d \in RetDoc, RetRetire(d)
  PROVE  /\ \A t \in retSegs' : \E s \in retSegs : Shrunk(t, s, d) /\ DOMAIN s.cover # {d}
         /\ \A s \in retSegs : DOMAIN s.cover # {d} => \E t \in retSegs' : Shrunk(t, s, d)
         /\ \A e, k : e # d /\ <<e, k>> \in retCharged => <<e, k>> \in retCharged'
         /\ \A k : <<d, k>> \in retCharged => \E e : <<e, k>> \in retCharged'
         /\ \A s \in retSegs : DOMAIN s.cover # {d} /\ <<d, s.key>> \in retCharged /\ d \in DOMAIN s.cover =>
              \E o \in DOMAIN s.cover \ {d} : <<o, s.key>> \in retCharged'
         /\ \A c \in retCharged' : c = <<c[1], c[2]>>
<1>0. RetTypes /\ SegmentsAreSound BY DEF RetInv
<1> DEFINE mine == {s \in retSegs : d \in DOMAIN s.cover}
           shared == {s \in mine : DOMAIN s.cover # {d}}
<1>1. retSegs' = (retSegs \ mine) \cup {RetWithout(s, d) : s \in shared} /\ retCharged' = HandOver(d, shared)
  BY DEF RetRetire
<1>2. \A s \in retSegs : s \in Segments BY <1>0 DEF RetTypes
<1>3. \A s \in retSegs \ mine : Shrunk(s, s, d) BY <1>2 DEF Shrunk
<1>4. \A s \in retSegs \ mine : DOMAIN s.cover # {d} OBVIOUS
<1>5. \A s \in retSegs : Shrunk(RetWithout(s, d), s, d) BY <1>2, WithoutShrinks
<1>6. \A t \in retSegs' : \E s \in retSegs : Shrunk(t, s, d) /\ DOMAIN s.cover # {d} BY <1>1, <1>3, <1>4, <1>5
<1>7. \A s \in retSegs : DOMAIN s.cover # {d} => \E t \in retSegs' : Shrunk(t, s, d) BY <1>1, <1>3, <1>5
<1>8. retCharged' = (retCharged \ {<<d, s.key>> : s \in shared}) \cup
                    {<<Heir(s, d), s.key>> : s \in {t \in shared : <<d, t.key>> \in retCharged}}
  BY <1>1 DEF HandOver
<1>9. \A e, k : e # d /\ <<e, k>> \in retCharged => <<e, k>> \in retCharged' BY <1>8
<1>10. \A k : <<d, k>> \in retCharged => \E e : <<e, k>> \in retCharged'
  <2> SUFFICES ASSUME NEW k, <<d, k>> \in retCharged PROVE \E e : <<e, k>> \in retCharged' OBVIOUS
  <2>1. CASE \E s \in shared : s.key = k
    <3>1. PICK s \in shared : s.key = k BY <2>1
    <3>2. <<Heir(s, d), k>> \in retCharged' BY <1>8, <3>1
    <3> QED BY <3>2
  <2>2. CASE \A s \in shared : s.key # k
    <3>1. <<d, k>> \in retCharged' BY <1>8, <2>2
    <3> QED BY <3>1
  <2> QED BY <2>1, <2>2
<1>11. \A s \in shared : Heir(s, d) \in DOMAIN s.cover \ {d}
  <2> SUFFICES ASSUME NEW s \in shared PROVE Heir(s, d) \in DOMAIN s.cover \ {d} OBVIOUS
  <2> DEFINE others == DOMAIN s.cover \ {d}
             active == {o \in others : retStatus[o] = "active"}
             heirs == IF active # {} THEN active ELSE others
  <2>1. Heir(s, d) = CHOOSE o \in heirs : TRUE BY DEF Heir
  <2>2. heirs # {} /\ heirs \subseteq others OBVIOUS
  <2> HIDE DEF heirs
  <2> QED BY <2>1, <2>2
<1>12. \A s \in shared : <<d, s.key>> \in retCharged => <<Heir(s, d), s.key>> \in retCharged' BY <1>8
<1>13. \A c \in retCharged' : c = <<c[1], c[2]>>
  <2> SUFFICES ASSUME NEW c \in retCharged' PROVE c = <<c[1], c[2]>> OBVIOUS
  <2>1. CASE c \in retCharged BY <1>0, <2>1 DEF RetTypes
  <2>2. CASE c \notin retCharged
    <3>1. PICK s \in shared : c = <<Heir(s, d), s.key>> BY <1>8, <2>2
    <3>2. PICK e, k : c = <<e, k>> BY <3>1
    <3> QED BY <3>2
  <2> QED BY <2>1, <2>2
<1>14. \A s \in retSegs : DOMAIN s.cover # {d} /\ <<d, s.key>> \in retCharged /\ d \in DOMAIN s.cover =>
              \E o \in DOMAIN s.cover \ {d} : <<o, s.key>> \in retCharged'
  BY <1>11, <1>12
<1> QED BY <1>6, <1>7, <1>9, <1>10, <1>13, <1>14

\* What it makes of the retirement queue.
LEMMA RetireQueues ==
  ASSUME RetInv, NEW d \in RetDoc, RetRetire(d)
  PROVE  /\ \A k \in RowKeys(retRows) : k \in RowKeys(retRows')
         /\ \A k \in retRoot : k \in RowKeys(retRows')
         /\ retBase[d] > 0 => BaseKey(d, retBase[d]) \in RowKeys(retRows')
         /\ \A s \in retSegs : d \in DOMAIN s.cover => s.key \in RowKeys(retRows')
         /\ \A r \in retRows' : \/ r \in retRows \/ r.kind # "rewrite"
                                \/ r.storage = d /\ \E s \in retSegs : r.key = s.key
         /\ \A r \in retRows', q \in retRows' : r.key = q.key => r = q
<1>0. RetTypes /\ SegmentsAreSound /\ ManifestIsSound /\ RowsAreSound(retRows) BY DEF RetInv
<1> DEFINE mine == {s \in retSegs : d \in DOMAIN s.cover}
           shared == {s \in mine : DOMAIN s.cover # {d}}
           roots == {Row(k, "manifest", d) : k \in retRoot}
           bases == {Row(BaseKey(d, n), "base", d) : n \in {retBase[d]} \ {0}}
           first == roots \cup bases
           rewrites == {Row(s.key, "rewrite", d) : s \in shared}
           plain == {Row(s.key, "segment", d) : s \in mine \ shared}
           new == rewrites \cup plain
           queued == Queue(retRows, first)
<1>1. retRows' = Requeue(queued, new) BY DEF RetRetire
<1>2. /\ \A k \in retRoot : k[1] = "manifest"
      /\ BaseKey(d, retBase[d])[1] = "base"
      /\ \A s \in retSegs : s.key[1] = "segment"
      /\ \A s \in retSegs, t \in retSegs : s.key = t.key => s = t
  BY <1>0, LiveParts, KeyParts, SegmentFacts
<1>3. \A r \in first, q \in first : r.key = q.key => r = q
  <2>1. \A r \in roots : r = Row(r.key, "manifest", d) /\ r.key[1] = "manifest" BY <1>2, RowParts
  <2>2. \A r \in bases : r = Row(BaseKey(d, retBase[d]), "base", d) /\ r.key[1] = "base" BY <1>2, RowParts
  <2> HIDE DEF roots, bases
  <2> QED BY <2>1, <2>2
<1>4. \A r \in new, q \in new : r.key = q.key => r = q
  <2>1. \A r \in rewrites : \E s \in shared : r = Row(s.key, "rewrite", d) /\ r.key = s.key BY RowParts
  <2>2. \A r \in plain : \E s \in mine \ shared : r = Row(s.key, "segment", d) /\ r.key = s.key BY RowParts
  <2>3. shared \subseteq retSegs /\ mine \ shared \subseteq retSegs OBVIOUS
  <2> HIDE DEF rewrites, plain, shared, mine
  <2> QED BY <1>2, <2>1, <2>2, <2>3
<1>5. /\ RowKeys(queued) = RowKeys(retRows) \cup RowKeys(first)
      /\ \A r \in queued : r \in retRows \/ (r \in first /\ r.key \notin RowKeys(retRows))
  <2> HIDE DEF first
  <2> QED BY QueueKeeps
<1>6. \A r \in retRows, q \in retRows : r.key = q.key => r = q BY <1>0 DEF RowsAreSound, OneRowPerKey
<1>7. \A r \in queued, q \in queued : r.key = q.key => r = q
  <2>1. \A r \in retRows : r.key \in RowKeys(retRows) BY DEF RowKeys
  <2> HIDE DEF queued, first
  <2> QED BY <1>3, <1>5, <1>6, <2>1
<1>8. /\ RowKeys(retRows') = RowKeys(queued) \cup RowKeys(new)
      /\ \A r \in retRows' : r \in new \/ (r \in queued /\ r.key \notin RowKeys(new))
  <2> HIDE DEF queued, new
  <2> QED BY <1>1 DEF Requeue, RowKeys
<1>9. \A r \in retRows', q \in retRows' : r.key = q.key => r = q
  <2>1. \A r \in new : r.key \in RowKeys(new) BY DEF RowKeys
  <2> HIDE DEF queued, new
  <2> QED BY <1>4, <1>7, <1>8, <2>1
<1>10. /\ \A k \in retRoot : k \in RowKeys(first)
       /\ retBase[d] > 0 => BaseKey(d, retBase[d]) \in RowKeys(first)
  <2>1. RowKeys(first) = RowKeys(roots) \cup RowKeys(bases) BY DEF RowKeys
  <2>2. \A k \in retRoot : k \in RowKeys(roots) BY RowParts DEF RowKeys
  <2>3. retBase[d] > 0 => BaseKey(d, retBase[d]) \in RowKeys(bases) BY <1>0, RowParts DEF RowKeys, RetTypes
  <2> HIDE DEF roots, bases
  <2> QED BY <2>1, <2>2, <2>3
<1>11. \A s \in retSegs : d \in DOMAIN s.cover => s.key \in RowKeys(new)
  <2> SUFFICES ASSUME NEW s \in mine PROVE s.key \in RowKeys(new) OBVIOUS
  <2>1. CASE s \in shared
    <3>1. Row(s.key, "rewrite", d) \in new BY <2>1
    <3> HIDE DEF new
    <3> QED BY <3>1, RowParts DEF RowKeys
  <2>2. CASE s \notin shared
    <3>1. Row(s.key, "segment", d) \in new BY <2>2
    <3> HIDE DEF new
    <3> QED BY <3>1, RowParts DEF RowKeys
  <2> QED BY <2>1, <2>2
<1>12. \A r \in first : r.kind # "rewrite" BY RowParts
<1>13. \A r \in new : r.kind # "rewrite" \/ (r.storage = d /\ \E s \in retSegs : r.key = s.key) BY RowParts
<1> HIDE DEF first, new, queued, roots, bases, rewrites, plain, shared, mine
<1>14. \A r \in retRows' : \/ r \in retRows \/ r.kind # "rewrite"
                           \/ r.storage = d /\ \E s \in retSegs : r.key = s.key
  BY <1>5, <1>8, <1>12, <1>13
<1> QED BY <1>5, <1>8, <1>9, <1>10, <1>11, <1>14

\* The retirement of a document does: its shared segments go to an heir.
LEMMA RetireKeeps ==
  ASSUME RetInv, NEW d \in RetDoc, RetRetire(d)
  PROVE  RetTypes' /\ SegmentsAreSound' /\ (\A e \in RetDoc : DocumentIsSound(e)') /\ ManifestIsSound'
<1>0. RetTypes /\ SegmentsAreSound /\ ManifestIsSound /\ (\A e \in RetDoc : DocumentIsSound(e)) BY DEF RetInv
<1>1. /\ \A t \in retSegs' : \E s \in retSegs : Shrunk(t, s, d) /\ DOMAIN s.cover # {d}
      /\ \A s \in retSegs : DOMAIN s.cover # {d} => \E t \in retSegs' : Shrunk(t, s, d)
      /\ \A e, k : e # d /\ <<e, k>> \in retCharged => <<e, k>> \in retCharged'
      /\ \A s \in retSegs : DOMAIN s.cover # {d} /\ <<d, s.key>> \in retCharged /\ d \in DOMAIN s.cover =>
           \E o \in DOMAIN s.cover \ {d} : <<o, s.key>> \in retCharged'
      /\ \A c \in retCharged' : c = <<c[1], c[2]>>
  BY RetireDoes
<1>2. /\ \A k \in RowKeys(retRows) : k \in RowKeys(retRows')
      /\ \A s \in retSegs : d \in DOMAIN s.cover => s.key \in RowKeys(retRows')
  BY RetireQueues
<1>3. /\ retStatus[d] = "deleting" /\ UNCHANGED <<retDocs, retReserved, retGate>>
      /\ retBase' = [retBase EXCEPT ![d] = 0] /\ retRoot' = {} /\ retListed' = {}
      /\ retRevision' = IF retRoot # {} THEN retRevision + 1 ELSE retRevision
  BY DEF RetRetire
<1>4. RetTypes'
  <2>1. retBase' \in [RetDoc -> Nat] /\ retRevision' \in Nat BY <1>0, <1>3 DEF RetTypes
  <2>2. retSegs' \subseteq Segments BY <1>1 DEF Shrunk
  <2> QED BY <1>0, <1>1, <1>3, <2>1, <2>2 DEF RetTypes, retDocs
<1>5. SegmentsAreSound'
  <2>1. ASSUME NEW t \in retSegs' PROVE SegmentIsSound(t)'
    <3>1. PICK s \in retSegs : Shrunk(t, s, d) /\ DOMAIN s.cover # {d} BY <1>1
    <3>2. SegmentIsSound(s) BY <1>0 DEF SegmentsAreSound
    <3>3. PICK o \in DOMAIN s.cover : <<o, s.key>> \in retCharged BY <3>2 DEF SegmentIsSound
    <3>4. \E p \in DOMAIN s.cover \ {d} : <<p, s.key>> \in retCharged' BY <1>1, <3>1, <3>3
    <3>5. \E p \in DOMAIN t.cover : <<p, t.key>> \in retCharged' BY <3>1, <3>4 DEF Shrunk
    <3>6. DocsIn(t.key) \subseteq DOMAIN t.cover \/ t.key \in RowKeys(retRows')
      BY <1>2, <3>1, <3>2 DEF Shrunk, SegmentIsSound
    <3> QED BY <1>3, <3>1, <3>2, <3>5, <3>6 DEF Shrunk, SegmentIsSound, retDocs
  <2>2. ASSUME NEW t \in retSegs', NEW u \in retSegs', t.id = u.id PROVE t = u
    <3>1. PICK s \in retSegs : Shrunk(t, s, d) BY <1>1
    <3>2. PICK q \in retSegs : Shrunk(u, q, d) BY <1>1
    <3>3. s = q BY <1>0, <2>2, <3>1, <3>2 DEF Shrunk, SegmentsAreSound
    <3> DEFINE mine == {x \in retSegs : d \in DOMAIN x.cover}
               shared == {x \in mine : DOMAIN x.cover # {d}}
    <3>4. \A x \in retSegs' : x \in retSegs \ mine \/ \E y \in shared : x = RetWithout(y, d)
      BY DEF RetRetire
    <3>5. \A y \in retSegs : RetWithout(y, d).id = y.id
      BY <1>0, WithoutShrinks DEF RetTypes, Shrunk
    <3>6. \A x \in retSegs, y \in retSegs : x.id = y.id => x = y BY <1>0 DEF SegmentsAreSound
    <3>7. shared \subseteq mine /\ mine \subseteq retSegs OBVIOUS
    <3> HIDE DEF mine, shared
    <3> QED BY <2>2, <3>4, <3>5, <3>6, <3>7
  <2> QED BY <2>1, <2>2 DEF SegmentsAreSound
<1>6. ASSUME NEW e \in RetDoc PROVE DocumentIsSound(e)'
  <2>1. DocumentIsSound(e) /\ retBase[e] \in Nat /\ retSeq[e] \in Nat BY <1>0 DEF RetTypes
  <2>2. CASE e = d BY <1>0, <1>3, <2>1, <2>2 DEF DocumentIsSound, retDocs, RetTypes
  <2>3. CASE e # d
    <3>1. retBase'[e] = retBase[e] BY <1>0, <1>3, <2>3 DEF RetTypes
    <3>2. PICK k : k = BaseKey(e, retBase[e]) OBVIOUS
    <3>3. Pays(e, k) => Pays(e, k)' BY <1>1, <1>3, <2>3 DEF Pays
    <3>4. retBase[e] > 0 => Pays(e, BaseKey(e, retBase[e]))' BY <2>1, <3>1, <3>2, <3>3 DEF DocumentIsSound, Pays
    <3>5. \A s \in retSegs : e \in DOMAIN s.cover =>
             \E t \in retSegs' : e \in DOMAIN t.cover /\ t.cover[e] = s.cover[e]
      BY <1>1, <2>3 DEF Shrunk
    <3> QED BY <1>3, <2>1, <3>1, <3>4, <3>5 DEF DocumentIsSound, retDocs
  <2> QED BY <2>2, <2>3
<1>7. ManifestIsSound' BY <1>3 DEF ManifestIsSound
<1> QED BY <1>4, <1>5, <1>6, <1>7

---------------------------------------------------------------------------
\* A segment under its rewritten key.
LEMMA SegmentMoved ==
  ASSUME NEW s \in Segments, NEW m \in Nat, NEW ds \in SUBSET RetDoc, NEW h \in RetDoc
  PROVE  [s EXCEPT !.key = SegKey(m, ds), !.owner = h] \in Segments
<1> DEFINE keys == {SegKey(n, es) : n \in Nat, es \in SUBSET RetDoc}
<1>1. PICK k \in keys : k = SegKey(m, ds) OBVIOUS
<1>2. Segments = [id : Nat, key : keys, owner : RetDoc, cover : Covers] BY DEF Segments
<1> HIDE DEF keys
<1> QED BY <1>1, <1>2

\* What the transaction of a rewrite makes of the journal.
LEMMA MoveDoes ==
  ASSUME RetInv, RetRewriteMove
  PROVE  \E w \in retWork, s \in retSegs, n \in Segments :
           /\ RewriteIsSound(w) /\ s.key = w.row.key /\ w.heir \in DOMAIN s.cover
           /\ n.id = s.id /\ n.key = w.out /\ n.cover = s.cover
           /\ w.out = SegKey(s.id, DocsIn(w.out)) /\ DocsIn(w.out) # {} /\ DocsIn(w.out) # DocsIn(s.key)
           /\ DocsIn(w.out) \subseteq DOMAIN s.cover \cap DocsIn(s.key)
           /\ \A d \in DOMAIN s.cover : retStatus[d] = "active" => d \in DocsIn(w.out)
           /\ \A k \in Staged(w) : k \in retObjects /\ <<w.heir, k>> \in retCharged
           /\ w.out \notin KeysOf(retSegs)
           /\ retSegs' = (retSegs \ {s}) \cup {n}
           /\ \/ w.roots = {} /\ UNCHANGED <<retRoot, retListed>> /\ (s.key \notin retListed)
              \/ w.roots # {} /\ retRoot' = w.roots /\ retListed' = (retListed \ {s.key}) \cup {w.out}
           /\ \A k \in w.roots : k[1] = "manifest" /\ \A l \in w.roots : k = l
           /\ \A k \in RowKeys(retRows) : k \in RowKeys(retRows') \/ k \in Staged(w)
           /\ s.key \in RowKeys(retRows')
           /\ \A k \in retRoot : k \in retRoot' \/ k \in RowKeys(retRows')
           /\ \A r \in retRows' : r \in retRows \/ r.kind # "rewrite"
           /\ \A r \in retRows', q \in retRows' : r.key = q.key => r = q
<1>0. RetTypes /\ SegmentsAreSound /\ ManifestIsSound /\ RowsAreSound(retRows) /\ PassIsSound BY DEF RetInv
<1>1. PICK w \in retWork :
        LET s == CHOOSE t \in retSegs : t.key = w.row.key
        IN /\ retSegs' = (retSegs \ {s}) \cup {[s EXCEPT !.key = w.out, !.owner = w.heir]}
           /\ retRows' = MovedRows(w)
           /\ IF w.roots = {} THEN UNCHANGED <<retRoot, retListed>>
              ELSE /\ retRoot' = w.roots
                   /\ retListed' = (retListed \ {w.row.key}) \cup {w.out}
  BY DEF RetRewriteMove
<1>2. retGate = "move" /\ RewriteIsSound(w) BY <1>0 DEF RetRewriteMove, PassIsSound, Rewriting
<1>3. PICK s \in retSegs :
    /\ s.key = w.row.key /\ w.out = SegKey(s.id, DocsIn(w.out)) /\ w.heir \in DOMAIN s.cover
    /\ DocsIn(w.out) # {} /\ DocsIn(w.out) # DocsIn(s.key)
    /\ DocsIn(w.out) \subseteq DOMAIN s.cover \cap DocsIn(s.key)
    /\ \A d \in DOMAIN s.cover : retStatus[d] = "active" => d \in DocsIn(w.out)
    /\ w.roots = {MovedRoot(m, w.out) : m \in {n \in retRoot : s.key \in retListed}}
    /\ w.old = {n \in retRoot : w.roots # {}}
    /\ Staged(w) \cup {w.row.key} \subseteq RowKeys(retRows)
    /\ Staged(w) \subseteq retObjects
    /\ \A k \in Staged(w) : <<w.heir, k>> \in retCharged
  BY <1>2 DEF RewriteIsSound
<1>4. /\ s \in Segments /\ s.id \in Nat /\ s.key[1] = "segment" /\ s.key[2] = s.id /\ DOMAIN s.cover \subseteq RetDoc
      /\ \A t \in retSegs : t.key = s.key => t = s
      /\ \A t \in retSegs : t.key[2] = s.key[2] => t = s
  BY <1>0, SegmentFacts
<1>5. s = CHOOSE t \in retSegs : t.key = w.row.key BY <1>3, <1>4
<1> DEFINE n == [s EXCEPT !.key = w.out, !.owner = w.heir]
<1>6. retSegs' = (retSegs \ {s}) \cup {n} BY <1>1, <1>5
<1>7. n.id = s.id /\ n.key = w.out /\ n.cover = s.cover /\ n \in Segments
  <2>1. DocsIn(w.out) \in SUBSET RetDoc /\ w.heir \in RetDoc BY <1>3, <1>4
  <2>2. n \in Segments BY <1>3, <1>4, <2>1, SegmentMoved
  <2>3. n.id = s.id /\ n.key = w.out /\ n.cover = s.cover BY <1>4 DEF Segments
  <2> QED BY <2>2, <2>3
<1>8. w.out[1] = "segment" /\ w.out[2] = s.id BY <1>3, KeyParts
<1>9. w.out \notin KeysOf(retSegs)
  <2> SUFFICES ASSUME NEW t \in retSegs, t.key = w.out PROVE FALSE BY DEF KeysOf
  <2>1. t = s BY <1>4, <1>8
  <2> QED BY <1>3, <2>1
<1>10. \A k \in w.roots : k[1] = "manifest" /\ \A l \in w.roots : k = l
  <2>1. \A m \in retRoot, l \in retRoot : m = l BY <1>0 DEF ManifestIsSound
  <2> QED BY <1>3, <2>1, KeyParts
<1>11. \/ w.roots = {} /\ UNCHANGED <<retRoot, retListed>> /\ (s.key \notin retListed)
       \/ w.roots # {} /\ retRoot' = w.roots /\ retListed' = (retListed \ {s.key}) \cup {w.out}
  <2>1. w.roots = {} => s.key \notin retListed BY <1>0, <1>3 DEF ManifestIsSound
  <2> QED BY <1>1, <1>3, <2>1
<1> DEFINE base == {q \in retRows : q.key \notin Staged(w)}
           moved == {IF r.key = w.row.key THEN Row(r.key, "segment", w.row.storage) ELSE r : r \in base}
           olds == {Row(k, "manifest", Deployment) : k \in w.old}
<1>12. retRows' = Queue(moved, olds) BY <1>1 DEF MovedRows
<1>13. RowKeys(retRows') = RowKeys(moved) \cup RowKeys(olds)
       /\ \A r \in retRows' : r \in moved \/ (r \in olds /\ r.key \notin RowKeys(moved))
  <2> HIDE DEF moved, olds
  <2> QED BY <1>12, QueueKeeps
<1>14. \A r \in moved : (r \in base /\ r.key # w.row.key) \/ r = Row(w.row.key, "segment", w.row.storage)
  OBVIOUS
<1>15. RowKeys(moved) = RowKeys(base)
  <2>1. \A r \in moved : \E q \in base : r.key = q.key BY RowParts
  <2>2. \A q \in base : \E r \in moved : r.key = q.key
    <3> SUFFICES ASSUME NEW q \in base PROVE \E r \in moved : r.key = q.key OBVIOUS
    <3>1. (IF q.key = w.row.key THEN Row(q.key, "segment", w.row.storage) ELSE q) \in moved OBVIOUS
    <3>2. (IF q.key = w.row.key THEN Row(q.key, "segment", w.row.storage) ELSE q).key = q.key BY RowParts
    <3> HIDE DEF moved
    <3> QED BY <3>1, <3>2
  <2> HIDE DEF moved, base
  <2> QED BY <2>1, <2>2 DEF RowKeys
<1>16. \A k \in RowKeys(retRows) : k \in RowKeys(retRows') \/ k \in Staged(w)
  <2>1. \A k \in RowKeys(retRows) : k \in RowKeys(base) \/ k \in Staged(w) BY DEF RowKeys
  <2> QED BY <1>13, <1>15, <2>1
<1>17. s.key \notin Staged(w)
  <2>1. s.key # w.out BY <1>3
  <2>2. s.key \notin w.roots BY <1>4, <1>10
  <2> QED BY <2>1, <2>2 DEF Staged
<1>18. s.key \in RowKeys(retRows') BY <1>3, <1>16, <1>17
<1>19. \A k \in retRoot : k \in retRoot' \/ k \in RowKeys(retRows')
  <2>1. CASE w.roots = {} BY <1>11, <2>1
  <2>2. CASE w.roots # {}
    <3>1. ASSUME NEW k \in retRoot PROVE k \in RowKeys(olds)
      <4>1. Row(k, "manifest", Deployment) \in olds BY <1>3, <2>2
      <4> HIDE DEF olds
      <4> QED BY <4>1, RowParts DEF RowKeys
    <3> QED BY <1>13, <3>1
  <2> QED BY <2>1, <2>2
<1>20. \A r \in retRows' : r \in retRows \/ r.kind # "rewrite"
  <2>1. \A r \in olds : r.kind # "rewrite" BY RowParts
  <2>2. Row(w.row.key, "segment", w.row.storage).kind # "rewrite" BY RowParts
  <2>3. base \subseteq retRows OBVIOUS
  <2> HIDE DEF moved, base, olds
  <2> QED BY <1>13, <1>14, <2>1, <2>2, <2>3
<1>21. \A r \in retRows', q \in retRows' : r.key = q.key => r = q
  <2>1. \A r \in retRows, q \in retRows : r.key = q.key => r = q BY <1>0 DEF RowsAreSound, OneRowPerKey
  <2>2. Row(w.row.key, "segment", w.row.storage).key = w.row.key BY RowParts
  <2>3. \A r \in moved, q \in moved : r.key = q.key => r = q
    <3>1. base \subseteq retRows OBVIOUS
    <3> HIDE DEF moved, base
    <3> QED BY <1>14, <2>1, <2>2, <3>1
  <2>4. \A r \in olds : r = Row(r.key, "manifest", Deployment) BY RowParts
  <2>5. \A r \in moved : r.key \in RowKeys(moved) BY DEF RowKeys
  <2> HIDE DEF moved, olds
  <2> QED BY <1>13, <2>3, <2>4, <2>5
<1> HIDE DEF n, moved, olds, base
<1> QED BY <1>2, <1>3, <1>6, <1>7, <1>9, <1>10, <1>11, <1>16, <1>18, <1>19, <1>20, <1>21

\* The move of a rewrite does.
LEMMA MoveKeeps ==
  ASSUME RetInv, RetRewriteMove
  PROVE  RetTypes' /\ SegmentsAreSound' /\ (\A d \in RetDoc : DocumentIsSound(d)') /\ ManifestIsSound'
<1>0. RetTypes /\ SegmentsAreSound /\ ManifestIsSound /\ (\A e \in RetDoc : DocumentIsSound(e)) BY DEF RetInv
<1>1. PICK w \in retWork, s \in retSegs, n \in Segments :
           /\ s.key = w.row.key /\ w.heir \in DOMAIN s.cover
           /\ n.id = s.id /\ n.key = w.out /\ n.cover = s.cover
           /\ w.out = SegKey(s.id, DocsIn(w.out))
           /\ DocsIn(w.out) \subseteq DOMAIN s.cover \cap DocsIn(s.key)
           /\ \A d \in DOMAIN s.cover : retStatus[d] = "active" => d \in DocsIn(w.out)
           /\ \A k \in Staged(w) : k \in retObjects /\ <<w.heir, k>> \in retCharged
           /\ retSegs' = (retSegs \ {s}) \cup {n}
           /\ \/ w.roots = {} /\ UNCHANGED <<retRoot, retListed>> /\ (s.key \notin retListed)
              \/ w.roots # {} /\ retRoot' = w.roots /\ retListed' = (retListed \ {s.key}) \cup {w.out}
           /\ \A k \in w.roots : k[1] = "manifest" /\ \A l \in w.roots : k = l
           /\ \A k \in RowKeys(retRows) : k \in RowKeys(retRows') \/ k \in Staged(w)
  BY MoveDoes
<1>2. UNCHANGED <<retStatus, retSeq, retDue, retFlushed, retBase, retRevision, retCharged, retReserved>> /\ retGate' = "pass"
  BY DEF RetRewriteMove, retDocs, retLedger
<1>3. RetTypes' BY <1>0, <1>1, <1>2 DEF RetTypes, RetGates, Passing
<1>4. w.out \in Staged(w) /\ \A k \in w.roots : k \in Staged(w) BY DEF Staged
<1>5. s.id \in Nat /\ s.id <= retFlushed /\ DOMAIN s.cover \subseteq RetDoc /\ s.key[2] = s.id BY <1>0, SegmentFacts
<1>6. SegmentsAreSound'
  <2>1. ASSUME NEW t \in retSegs, t # s PROVE SegmentIsSound(t)'
    <3>1. SegmentIsSound(t) /\ t.key[1] = "segment" BY <1>0, SegmentFacts DEF SegmentsAreSound
    <3>2. t.key \notin Staged(w)
      <4>1. t.key # w.out
        <5>1. t.key[2] = t.id BY <3>1 DEF SegmentIsSound
        <5>2. w.out[2] = s.id BY <1>1, KeyParts
        <5> QED BY <1>0, <2>1, <5>1, <5>2 DEF SegmentsAreSound
      <4>2. t.key \notin w.roots BY <1>1, <3>1
      <4> QED BY <4>1, <4>2 DEF Staged
    <3> QED BY <1>1, <1>2, <3>1, <3>2 DEF SegmentIsSound
  <2>2. SegmentIsSound(n)'
    <3>1. n.key[2] = n.id BY <1>1, KeyParts
    <3>2. SegmentIsSound(s) BY <1>0 DEF SegmentsAreSound
    <3> QED BY <1>1, <1>2, <1>4, <3>1, <3>2 DEF SegmentIsSound
  <2>3. \A t \in retSegs' : (t \in retSegs /\ t # s) \/ t = n BY <1>1
  <2>4. \A t \in retSegs', u \in retSegs' : t.id = u.id => t = u
    BY <1>0, <1>1, <2>3 DEF SegmentsAreSound
  <2> QED BY <2>1, <2>2, <2>3, <2>4 DEF SegmentsAreSound
<1>7. \A d, k : Pays(d, k) => Pays(d, k)' BY <1>2 DEF Pays
<1>8. \A d \in RetDoc : Claims(d) => Claims(d)' BY <1>1, <1>2 DEF Claims
<1>9. ASSUME NEW e \in RetDoc PROVE DocumentIsSound(e)'
  <2>1. DocumentIsSound(e) BY <1>0
  <2>2. \A t \in retSegs : e \in DOMAIN t.cover => \E u \in retSegs' : e \in DOMAIN u.cover /\ u.cover[e] = t.cover[e]
    BY <1>1
  <2>3. retBase'[e] > 0 => Pays(e, BaseKey(e, retBase[e]))' BY <1>2, <2>1 DEF DocumentIsSound, Pays
  <2> QED BY <1>2, <2>1, <2>2, <2>3 DEF DocumentIsSound
<1>10. ManifestIsSound'
  <2>1. BaseKeys' = BaseKeys BY <1>2 DEF BaseKeys
  <2>2. w.out \in KeysOf(retSegs') /\ \A k \in KeysOf(retSegs) : k \in KeysOf(retSegs') \/ k = s.key
    BY <1>1 DEF KeysOf
  <2>3. Claims(w.heir)' /\ w.heir \in RetDoc BY <1>1, <1>5 DEF Claims
  <2>4. \A k \in w.roots : Pays(w.heir, k)' BY <1>1, <1>2, <1>4 DEF Pays
  <2>5. CASE w.roots = {}
    <3>1. UNCHANGED <<retRoot, retListed>> /\ s.key \notin retListed BY <1>1, <2>5
    <3>2. retListed' \subseteq KeysOf(retSegs') \cup BaseKeys' BY <1>0, <2>1, <2>2, <3>1 DEF ManifestIsSound
    <3>3. \A k \in retRoot : \E d \in RetDoc : Claims(d)' /\ Pays(d, k)' BY <1>0, <1>7, <1>8 DEF ManifestIsSound
    <3> QED BY <1>0, <3>1, <3>2, <3>3 DEF ManifestIsSound
  <2>6. CASE w.roots # {}
    <3>1. retRoot' = w.roots /\ retListed' = (retListed \ {s.key}) \cup {w.out} BY <1>1, <2>6
    <3>2. retListed' \subseteq KeysOf(retSegs') \cup BaseKeys' BY <1>0, <2>1, <2>2, <3>1 DEF ManifestIsSound
    <3> QED BY <1>1, <2>3, <2>4, <2>6, <3>1, <3>2 DEF ManifestIsSound
  <2> QED BY <2>5, <2>6
<1> QED BY <1>3, <1>6, <1>9, <1>10

\* The first four parts of the invariant.
LEMMA JournalKept ==
  ASSUME RetInv, RetNext
  PROVE  RetTypes' /\ SegmentsAreSound' /\ (\A d \in RetDoc : DocumentIsSound(d)') /\ ManifestIsSound'
<1>1. CASE QuietStep BY <1>1, QuietKeeps
<1>2. CASE Commits BY <1>2, CompactionKeeps
<1>3. CASE RetRewriteMove BY <1>3, MoveKeeps
<1>4. CASE \E ds \in SUBSET RetDoc : RetFlush(ds) BY <1>4, FlushKeeps
<1>5. CASE \E d \in RetDoc : RetRetire(d) BY <1>5, RetireKeeps
<1> QED BY <1>1, <1>2, <1>3, <1>4, <1>5, StepKinds

---------------------------------------------------------------------------
\* A request for a rewrite stays what it is.
LEMMA RewriteRowsStay ==
  ASSUME RetInv, RetNext, NEW r, RewriteRowIsSound(r)
  PROVE  RewriteRowIsSound(r)'
<1>0. RetTypes /\ SegmentsAreSound BY DEF RetInv
<1>1. CASE QuietStep BY <1>1 DEF QuietStep, RewriteRowIsSound
<1>2. CASE Commits
  <2>1. PICK p \in retPlan : CommitPlan(p) /\ UNCHANGED <<retStatus, retFlushed>> BY <1>2 DEF Commits
  <2>2. retSegs' \subseteq retSegs BY <2>1 DEF CommitPlan
  <2> QED BY <2>1, <2>2 DEF RewriteRowIsSound
<1>3. CASE RetRewriteMove
  <2>1. PICK w \in retWork, s \in retSegs, n \in Segments :
          /\ n.id = s.id /\ n.key = w.out
          /\ DocsIn(w.out) \subseteq DOMAIN s.cover \cap DocsIn(s.key)
          /\ retSegs' = (retSegs \ {s}) \cup {n}
    BY <1>3, MoveDoes
  <2>2. UNCHANGED <<retStatus, retFlushed>> BY <1>3 DEF RetRewriteMove, retDocs
  <2> QED BY <2>1, <2>2 DEF RewriteRowIsSound
<1>4. CASE \E ds \in SUBSET RetDoc : RetFlush(ds)
  <2>1. PICK ds \in SUBSET RetDoc : RetFlush(ds) BY <1>4
  <2>2. PICK n \in Segments : n.id = retFlushed + 1 /\ retSegs' = retSegs \cup {n} BY <2>1, FlushDoes
  <2>3. retStatus' = retStatus /\ retFlushed' = retFlushed + 1 BY <2>1 DEF RetFlush
  <2>4. retFlushed \in Nat BY <1>0 DEF RetTypes
  <2> QED BY <2>2, <2>3, <2>4 DEF RewriteRowIsSound
<1>5. CASE \E d \in RetDoc : RetRetire(d)
  <2>1. PICK d \in RetDoc : RetRetire(d) BY <1>5
  <2>2. \A t \in retSegs' : \E s \in retSegs : Shrunk(t, s, d) BY <2>1, RetireDoes
  <2>3. UNCHANGED <<retStatus, retFlushed>> BY <2>1 DEF RetRetire, retDocs
  <2> QED BY <2>2, <2>3 DEF RewriteRowIsSound, Shrunk
<1> QED BY <1>1, <1>2, <1>3, <1>4, <1>5, StepKinds

\* INSERT ... ON CONFLICT keeps one row per key.
LEMMA QueueOnce ==
  ASSUME NEW rows, NEW new, OneRowPerKey(rows), OneRowPerKey(new)
  PROVE  OneRowPerKey(Queue(rows, new))
<1>1. \A r \in rows : r.key \in RowKeys(rows) BY DEF RowKeys
<1> QED BY <1>1, QueueKeeps DEF OneRowPerKey

\* The rows under which a rewrite queues its outputs.
StagedRows(w) == {Row(k, "rewrite-output", w.heir) : k \in Staged(w)}

\* What a rewrite is prepared to do.
LEMMA StageDoes ==
  ASSUME RetInv, NEW r \in retPass, RetRewriteStage(r)
  PROVE  \E w : /\ retWork' = {w} /\ w.row = r
                /\ retRows' = Queue(retRows, StagedRows(w))
                /\ \E s \in retSegs :
                     /\ s.key = r.key /\ w.out = SegKey(s.id, DocsIn(w.out)) /\ w.heir \in DOMAIN s.cover
                     /\ DocsIn(w.out) # {} /\ DocsIn(w.out) # DocsIn(s.key)
                     /\ DocsIn(w.out) \subseteq DOMAIN s.cover \cap DocsIn(s.key)
                     /\ \A d \in DOMAIN s.cover : retStatus[d] = "active" => d \in DocsIn(w.out)
                     /\ w.roots = {MovedRoot(m, w.out) : m \in {n \in retRoot : s.key \in retListed}}
                     /\ w.old = {n \in retRoot : w.roots # {}}
<1>0. RetTypes /\ SegmentsAreSound /\ RowsAreSound(retPass) BY DEF RetInv
<1>1. PICK s \in retSegs :
       LET kept == DocsIn(s.key) \cap Survivors(s, r)
           heir == CHOOSE d \in Survivors(s, r) : TRUE
           out == SegKey(s.id, kept)
           roots == {MovedRoot(m, out) : m \in {n \in retRoot : s.key \in retListed}}
       IN /\ s.key = r.key /\ kept # {} /\ kept # DocsIn(s.key)
          /\ retRows' = Queue(retRows, {Row(k, "rewrite-output", heir) : k \in {out} \cup roots})
          /\ retWork' = {[row |-> r, heir |-> heir, out |-> out, roots |-> roots,
                          old |-> {n \in retRoot : roots # {}}]}
  BY DEF RetRewriteStage
<1>2. PICK kept : kept = DocsIn(s.key) \cap Survivors(s, r) OBVIOUS
<1>3. PICK heir : heir = CHOOSE d \in Survivors(s, r) : TRUE OBVIOUS
<1>4. PICK out : out = SegKey(s.id, kept) OBVIOUS
<1>5. PICK roots : roots = {MovedRoot(m, out) : m \in {n \in retRoot : s.key \in retListed}} OBVIOUS
<1>6. PICK old : old = {n \in retRoot : roots # {}} OBVIOUS
<1> DEFINE w == [row |-> r, heir |-> heir, out |-> out, roots |-> roots, old |-> old]
<1>7. /\ s.key = r.key /\ kept # {} /\ kept # DocsIn(s.key)
      /\ retRows' = Queue(retRows, {Row(k, "rewrite-output", heir) : k \in {out} \cup roots})
      /\ retWork' = {w}
  BY <1>1, <1>2, <1>3, <1>4, <1>5, <1>6
<1>8. w.row = r /\ w.heir = heir /\ w.out = out /\ w.roots = roots /\ w.old = old OBVIOUS
<1> HIDE DEF w
<1>9. Staged(w) = {out} \cup roots BY <1>8 DEF Staged
<1>10. DocsIn(out) = kept BY <1>4, KeyParts
<1>11. Survivors(s, r) # {} /\ heir \in Survivors(s, r) BY <1>2, <1>3, <1>7
<1>12. Survivors(s, r) = {d \in DOMAIN s.cover : retStatus[d] = "active" /\ d # r.storage} BY DEF Survivors
<1>13. \A d \in DOMAIN s.cover : retStatus[d] = "active" => d \in kept
  <2>1. retStatus[r.storage] # "active" BY <1>0 DEF RetRewriteStage, RowsAreSound, RewriteRowIsSound
  <2>2. \A d \in DOMAIN s.cover : retStatus[d] = "active" => d \in DocsIn(s.key)
    BY <1>0 DEF SegmentsAreSound, SegmentIsSound
  <2> QED BY <1>2, <1>12, <2>1, <2>2
<1>14. kept \subseteq DOMAIN s.cover \cap DocsIn(s.key) /\ heir \in DOMAIN s.cover BY <1>2, <1>11, <1>12
<1>15. retRows' = Queue(retRows, StagedRows(w)) BY <1>7, <1>8, <1>9 DEF StagedRows
<1>16. /\ s.key = r.key /\ w.out = SegKey(s.id, DocsIn(w.out)) /\ w.heir \in DOMAIN s.cover
       /\ DocsIn(w.out) # {} /\ DocsIn(w.out) # DocsIn(s.key)
       /\ DocsIn(w.out) \subseteq DOMAIN s.cover \cap DocsIn(s.key)
       /\ \A d \in DOMAIN s.cover : retStatus[d] = "active" => d \in DocsIn(w.out)
  BY <1>4, <1>7, <1>8, <1>10, <1>13, <1>14
<1>17. /\ w.roots = {MovedRoot(m, w.out) : m \in {n \in retRoot : s.key \in retListed}}
       /\ w.old = {n \in retRoot : w.roots # {}}
  BY <1>5, <1>6, <1>8
<1> QED BY <1>7, <1>8, <1>15, <1>16, <1>17

\* Where the rows of the retirement queue come from.
LEMMA RowsDo ==
  ASSUME RetInv, RetNext
  PROVE  /\ OneRowPerKey(retRows')
         /\ \A r \in retRows' : \/ r \in retRows \/ r.kind # "rewrite"
                                \/ \E d \in RetDoc : RetRetire(d) /\ r.storage = d /\ \E s \in retSegs : r.key = s.key
<1>0. OneRowPerKey(retRows) BY DEF RetInv, RowsAreSound
<1>1. ASSUME retRows' \subseteq retRows
      PROVE  OneRowPerKey(retRows') /\ \A r \in retRows' : r \in retRows
  BY <1>0, <1>1 DEF OneRowPerKey
<1>2. ASSUME NEW new, OneRowPerKey(new), \A r \in new : r.kind # "rewrite", retRows' = Queue(retRows, new)
      PROVE  OneRowPerKey(retRows') /\ \A r \in retRows' : r \in retRows \/ r.kind # "rewrite"
  BY <1>0, <1>2, QueueOnce, QueueKeeps
<1>3. ASSUME NEW ds \in SUBSET RetDoc, RetFlush(ds) PROVE retRows' = retRows BY <1>3 DEF RetFlush
<1>4. ASSUME RetCompact, ~Commits PROVE retRows' = retRows
  <2>1. ~RetCompactCommit
    <3> SUFFICES ASSUME RetCompactCommit PROVE Commits BY <1>4
    <3>1. QuietStep \/ Commits BY <1>4, CompactionIsQuiet
    <3>2. PICK p \in retPlan : CommitPlan(p) BY DEF RetCompactCommit
    <3>3. PlanIsSound(p) /\ retGate = "commit" BY DEF RetCompactCommit, RetInv, PlansAreSound
    <3>4. retRevision \in Nat /\ retRevision' = retRevision + 1 BY <3>2 DEF CommitPlan, RetInv, RetTypes
    <3> QED BY <3>1, <3>4 DEF QuietStep
  <2> QED BY <1>4, <2>1 DEF RetCompact, RetCompactPrepare, RetCompactPutBase, RetCompactPutRoot, RetCompactSettle,
            RetCompactFails
<1>5. ASSUME Commits PROVE OneRowPerKey(retRows') /\ \A r \in retRows' : r \in retRows \/ r.kind # "rewrite"
  BY <1>5, CommitDoes DEF Commits, OneRowPerKey
<1>6. ASSUME RetReconcile, ~Commits
      PROVE  OneRowPerKey(retRows') /\ \A r \in retRows' : r \in retRows \/ r.kind # "rewrite"
  <2>1. retRows' = retRows \/ \E p \in retPlan : CommitPlan(p) \/
          retRows' = Queue(retRows, {Row(k, "segment", p.doc) : k \in RetOutputs(p)})
    BY <1>6 DEF RetReconcile
  <2>2. ASSUME NEW p \in retPlan, CommitPlan(p) PROVE FALSE
    <3>1. QuietStep BY <1>6, ReconcileIsQuiet
    <3>2. retRevision \in Nat /\ retRevision' = retRevision + 1 BY <2>2 DEF CommitPlan, RetInv, RetTypes
    <3> QED BY <3>1, <3>2 DEF QuietStep
  <2>3. ASSUME NEW p \in retPlan, retRows' = Queue(retRows, {Row(k, "segment", p.doc) : k \in RetOutputs(p)})
        PROVE OneRowPerKey(retRows') /\ \A r \in retRows' : r \in retRows \/ r.kind # "rewrite"
    <3> DEFINE new == {Row(k, "segment", p.doc) : k \in RetOutputs(p)}
    <3>1. OneRowPerKey(new) /\ \A r \in new : r.kind # "rewrite" BY RowParts DEF OneRowPerKey
    <3>2. retRows' = Queue(retRows, new) BY <2>3
    <3> HIDE DEF new
    <3> QED BY <1>2, <3>1, <3>2
  <2>4. CASE retRows' = retRows BY <1>1, <2>4
  <2> QED BY <2>1, <2>2, <2>3, <2>4
<1>7. ASSUME NEW d \in RetDoc, RetStartDelete(d) \/ RetFinish(d) PROVE retRows' = retRows
  BY <1>7 DEF RetStartDelete, RetFinish
<1>8. ASSUME RetSweep PROVE retRows' \subseteq retRows
  BY <1>8 DEF RetSweep, RetPassBegin, RetPassEnd, RetReclaim, RetSkip, RetDelete, RetDeleteUnsure, RetRelease
<1>9. ASSUME RetRewrite PROVE OneRowPerKey(retRows') /\ \A r \in retRows' : r \in retRows \/ r.kind # "rewrite"
  <2>1. ASSUME NEW r \in retPass, RetRewriteNothing(r) PROVE retRows' \subseteq retRows BY <2>1 DEF RetRewriteNothing
  <2>2. ASSUME RetRewriteReserve \/ RetRewriteWrite \/ RetRewriteCharge \/ RetRewriteFails PROVE retRows' \subseteq retRows
    BY <2>2 DEF RetRewriteReserve, RetRewriteWrite, RetRewriteCharge, RetRewriteFails
  <2>3. ASSUME NEW r \in retPass, RetRewriteStage(r)
        PROVE OneRowPerKey(retRows') /\ \A q \in retRows' : q \in retRows \/ q.kind # "rewrite"
    <3>1. PICK w : retRows' = Queue(retRows, StagedRows(w)) BY <2>3, StageDoes
    <3>2. OneRowPerKey(StagedRows(w)) /\ \A q \in StagedRows(w) : q.kind # "rewrite"
      BY RowParts DEF OneRowPerKey, StagedRows
    <3> QED BY <1>2, <3>1, <3>2
  <2>4. ASSUME RetRewriteMove
        PROVE OneRowPerKey(retRows') /\ \A q \in retRows' : q \in retRows \/ q.kind # "rewrite"
    BY <2>4, MoveDoes DEF OneRowPerKey
  <2> QED BY <1>1, <1>9, <2>1, <2>2, <2>3, <2>4 DEF RetRewrite
<1>10. ASSUME RetCrash PROVE retRows' = retRows BY <1>10 DEF RetCrash
<1>11. ASSUME NEW d \in RetDoc, RetRetire(d)
       PROVE /\ OneRowPerKey(retRows')
             /\ \A r \in retRows' : \/ r \in retRows \/ r.kind # "rewrite"
                                    \/ r.storage = d /\ \E s \in retSegs : r.key = s.key
  BY <1>11, RetireQueues DEF OneRowPerKey
<1> QED BY <1>1, <1>3, <1>4, <1>5, <1>6, <1>7, <1>8, <1>9, <1>10, <1>11 DEF RetNext

\* The queue stays sound.
LEMMA RowsKept ==
  ASSUME RetInv, RetNext
  PROVE  RowsAreSound(retRows)'
<1>0. RetTypes /\ SegmentsAreSound /\ RowsAreSound(retRows) BY DEF RetInv
<1>1. ASSUME NEW r \in retRows' PROVE RewriteRowIsSound(r)'
  <2>1. CASE r \in retRows BY <1>0, <2>1, RewriteRowsStay DEF RowsAreSound
  <2>2. CASE r.kind # "rewrite" BY <2>2 DEF RewriteRowIsSound
  <2>3. ASSUME NEW d \in RetDoc, RetRetire(d), r.storage = d, NEW s \in retSegs, r.key = s.key
        PROVE  RewriteRowIsSound(r)'
    <3>1. s.key[1] = "segment" /\ s.key[2] = s.id /\ s.id \in Nat /\ s.id <= retFlushed BY <1>0, SegmentFacts
    <3>2. UNCHANGED <<retStatus, retFlushed>> /\ retStatus[d] = "deleting" BY <2>3 DEF RetRetire, retDocs
    <3>3. \A t \in retSegs' : \E u \in retSegs : Shrunk(t, u, d) BY <2>3, RetireDoes
    <3>4. \A t \in retSegs' : t.id = s.id => t.key = s.key BY <1>0, <3>3 DEF Shrunk, SegmentsAreSound
    <3> QED BY <2>3, <3>1, <3>2, <3>4 DEF RewriteRowIsSound
  <2> QED BY <2>1, <2>2, <2>3, RowsDo
<1>2. OneRowPerKey(retRows)' BY RowsDo DEF OneRowPerKey
<1> QED BY <1>1, <1>2 DEF RowsAreSound

\* The pass reads all rows at its beginning and only drops some of them.
LEMMA PassDoes ==
  ASSUME RetInv, RetNext
  PROVE  retPass' \subseteq retPass \/ (RetPassBegin /\ retPass' = retRows)
<1>1. ASSUME NEW ds \in SUBSET RetDoc, RetFlush(ds) PROVE retPass' = retPass BY <1>1 DEF RetFlush
<1>2. ASSUME RetCompact PROVE retPass' = retPass
  BY <1>2 DEF RetCompact, RetCompactPrepare, RetCompactPutBase, RetCompactPutRoot, RetCompactCommit, RetCompactSettle,
              RetCompactFails
<1>3. ASSUME NEW d \in RetDoc, RetStartDelete(d) \/ RetFinish(d) \/ RetRetire(d) PROVE retPass' = retPass
  BY <1>3 DEF RetStartDelete, RetFinish, RetRetire
<1>4. ASSUME RetReconcile \/ RetCrash PROVE retPass' \subseteq retPass BY <1>4 DEF RetReconcile, RetCrash
<1>5. ASSUME RetSweep PROVE retPass' \subseteq retPass \/ (RetPassBegin /\ retPass' = retRows)
  BY <1>5 DEF RetSweep, RetPassBegin, RetPassEnd, RetReclaim, RetSkip, RetDelete, RetDeleteUnsure, RetRelease
<1>6. ASSUME RetRewrite PROVE retPass' \subseteq retPass
  BY <1>6 DEF RetRewrite, RetRewriteNothing, RetRewriteStage, RetRewriteReserve, RetRewriteWrite, RetRewriteCharge,
              RetRewriteMove, RetRewriteFails
<1> QED BY <1>1, <1>2, <1>3, <1>4, <1>5, <1>6 DEF RetNext

\* The candidates of a pass stay sound while the queue moves on.
LEMMA PassRowsKept ==
  ASSUME RetInv, RetNext
  PROVE  RowsAreSound(retPass)'
<1>0. RowsAreSound(retPass) /\ RowsAreSound(retRows) BY DEF RetInv
<1>1. OneRowPerKey(retPass') /\ \A r \in retPass' : RewriteRowIsSound(r)
  BY <1>0, PassDoes DEF RowsAreSound, OneRowPerKey
<1>2. \A r \in retPass' : RewriteRowIsSound(r)' BY <1>1, RewriteRowsStay
<1> QED BY <1>1, <1>2 DEF RowsAreSound, OneRowPerKey

---------------------------------------------------------------------------
\* The steps that leave a preparation as it is.
PlanIdle ==
  /\ retPlan' = retPlan /\ UNCHANGED <<retSeq, retSegs, retBase, retRoot, retListed, retRevision>>
  /\ retDue' \subseteq retDue
  /\ \A p \in retPlan : \A k : <<p.doc, k>> \in retReserved => <<p.doc, k>> \in retReserved'
  /\ \A p \in retPlan : \A k \in RetOutputs(p) : k \in retObjects => k \in retObjects'
  /\ retGate' \notin Rewriting \cup {"settle"}
  /\ retGate' = retGate \/ retGate' \notin Compacting

\* What a step does to an unresolved preparation.
LEMMA PlanSteps ==
  ASSUME RetInv, RetNext
  PROVE  \/ retPlan' = {} \/ (\E d \in RetDoc : RetCompactPrepare(d)) \/ RetCompactPutBase \/ RetCompactPutRoot
         \/ PlanIdle
<1>0. PlansAreSound /\ DeletionIsSafe /\ SegmentsAreSound BY DEF RetInv
<1>1. ASSUME NEW ds \in SUBSET RetDoc, RetFlush(ds) PROVE retPlan' = {} BY <1>1 DEF RetFlush
<1>2. ASSUME RetCompactCommit \/ RetReconcile PROVE retPlan' = {} BY <1>2 DEF RetCompactCommit, RetReconcile
<1>3. ASSUME RetCompactSettle PROVE retPlan' = {} BY <1>0, <1>3 DEF RetCompactSettle, PlansAreSound
<1>4. ASSUME RetCompactFails PROVE PlanIdle
  <2>1. retObjects \subseteq retObjects' BY <1>4 DEF RetCompactFails
  <2>2. /\ retGate' = "free"
        /\ UNCHANGED <<retDocs, retJournal, retRows, retLedger, retPlan, retWork, retPass>>
    BY <1>4 DEF RetCompactFails
  <2> QED BY <2>1, <2>2 DEF PlanIdle, retDocs, retJournal, retLedger, Rewriting, Compacting
<1>5. ASSUME NEW d \in RetDoc, RetRetire(d) PROVE retPlan' = {} BY <1>5 DEF RetRetire
<1>6. ASSUME NEW d \in RetDoc, RetStartDelete(d), retPlan # {} PROVE PlanIdle
  <2>1. retGate \notin Rewriting \cup {"settle"} BY <1>0, <1>6 DEF PlansAreSound
  <2> QED BY <1>6, <2>1 DEF RetStartDelete, PlanIdle, retJournal, retLedger
<1>7. ASSUME NEW d \in RetDoc, RetFinish(d), retPlan # {} PROVE PlanIdle
  <2>1. retGate \notin Rewriting \cup {"settle"} BY <1>0, <1>7 DEF PlansAreSound
  <2>2. \A p \in retPlan : p.doc # d BY <1>0, <1>7 DEF PlansAreSound, PlanIsSound, RetFinish, Unclaimed
  <2>3. \A p \in retPlan : \A k : <<p.doc, k>>[1] = p.doc OBVIOUS
  <2>4. \A p \in retPlan : \A k : <<p.doc, k>> \in retReserved => <<p.doc, k>> \in retReserved'
    BY <1>7, <2>2, <2>3 DEF RetFinish
  <2> QED BY <1>7, <2>1, <2>4 DEF RetFinish, PlanIdle, retJournal
<1>8. ASSUME RetSweep PROVE PlanIdle
  <2>1. UNCHANGED <<retDocs, retJournal, retReserved, retPlan>> /\ retGate' \in Passing \cup {"free"}
    BY <1>8 DEF RetSweep, RetPassBegin, RetPassEnd, RetReclaim, RetSkip, RetDelete, RetDeleteUnsure, RetRelease, retLedger,
                InTurn, Passing
  <2>2. \A p \in retPlan : \A k \in RetOutputs(p) : k \in retObjects => k \in retObjects'
    <3>1. CASE retObjects' = retObjects BY <3>1
    <3>2. ASSUME retGate = "delete", NEW w \in retWork, retObjects' = retObjects \ {w.key}
          PROVE  \A p \in retPlan : \A k \in RetOutputs(p) : k \in retObjects => k \in retObjects'
      BY <1>0, <3>2 DEF DeletionIsSafe
    <3> QED BY <1>8, <3>1, <3>2 DEF RetSweep, RetPassBegin, RetPassEnd, RetReclaim, RetSkip, RetDelete, RetDeleteUnsure,
                RetRelease
  <2>3. retGate' \notin Rewriting \cup {"settle"} /\ retGate' \notin Compacting
    BY <2>1 DEF Passing, Rewriting, Compacting
  <2> QED BY <2>1, <2>2, <2>3 DEF PlanIdle, retDocs, retJournal
<1>9. ASSUME RetRewrite PROVE retPlan' = {}
  <2>1. ASSUME NEW r \in retPass, RetRewriteNothing(r) \/ RetRewriteStage(r) PROVE retPlan' = {}
    BY <2>1 DEF RetRewriteNothing, RetRewriteStage
  <2>2. ASSUME retGate \in Rewriting, retPlan' = retPlan PROVE retPlan' = {} BY <1>0, <2>2 DEF PlansAreSound
  <2>3. ASSUME RetRewriteReserve \/ RetRewriteWrite \/ RetRewriteCharge \/ RetRewriteMove \/ RetRewriteFails
        PROVE retGate \in Rewriting /\ retPlan' = retPlan
    BY <2>3 DEF RetRewriteReserve, RetRewriteWrite, RetRewriteCharge, RetRewriteMove, RetRewriteFails, Rewriting
  <2> QED BY <1>9, <2>1, <2>2, <2>3 DEF RetRewrite
<1>10. ASSUME RetCrash PROVE PlanIdle
  BY <1>10 DEF RetCrash, PlanIdle, retJournal, retLedger, Rewriting, Compacting
<1>11. ASSUME NEW d \in RetDoc, RetStartDelete(d) \/ RetFinish(d), retPlan = {} PROVE retPlan' = {}
  BY <1>11 DEF RetStartDelete, RetFinish
<1> QED BY <1>1, <1>2, <1>3, <1>4, <1>5, <1>6, <1>7, <1>8, <1>9, <1>10, <1>11 DEF RetNext, RetCompact

\* A preparation stays harmless until it is committed or dropped.
LEMMA PlansKept ==
  ASSUME RetInv, RetNext
  PROVE  PlansAreSound'
<1>0. PlansAreSound /\ RetTypes /\ SegmentsAreSound /\ \A d \in RetDoc : DocumentIsSound(d) BY DEF RetInv
<1>1. CASE retPlan' = {} BY <1>1 DEF PlansAreSound
<1>2. ASSUME NEW d \in RetDoc, RetCompactPrepare(d) PROVE PlansAreSound'
  <2> DEFINE base == BaseKey(d, retSeq[d])
             ins == KeysOf(Retirable(d))
             listed == (BaseKeys \ {BaseKey(d, retBase[d])}) \cup {base} \cup (KeysOf(retSegs) \ ins)
             p == [doc |-> d, seq |-> retSeq[d], inputs |-> ins, root |-> RootKey(retRevision + 1), listed |-> listed]
  <2>1. retPlan' = {p} /\ retReserved' = retReserved \cup {<<d, base>>} BY <1>2 DEF RetCompactPrepare
  <2>2. d \in retDue /\ retStatus[d] = "active" /\ retDue' = retDue \ {d} /\ retGate' = "put_base"
        /\ UNCHANGED <<retStatus, retSeq, retJournal>>
    BY <1>2 DEF RetCompactPrepare
  <2>3. retBase[d] < retSeq[d] /\ retSeq[d] \in Nat /\ retBase[d] \in Nat
    BY <1>0, <2>2 DEF DocumentIsSound, RetTypes
  <2>4. \E s \in retSegs : d \in DOMAIN s.cover BY <1>0, <2>2, <2>3 DEF DocumentIsSound
  <2>5. p.doc = d /\ p.seq = retSeq[d] /\ p.inputs = ins /\ p.root = RootKey(retRevision + 1) /\ p.listed = listed
    OBVIOUS
  <2>6. ins = KeysOf(Retirable(d))' /\ BaseKeys' = BaseKeys BY <2>2 DEF Retirable, KeysOf, BaseKeys, retJournal
  <2> HIDE DEF p
  <2>7. PICK q : q = p OBVIOUS
  <2>8. PlanIsSound(q)'
    <3>1. q.doc \in RetDoc /\ q.doc \notin retDue' /\ q.seq = retSeq'[q.doc] /\ q.seq > 0 BY <2>2, <2>3, <2>5, <2>7
    <3>2. \E s \in retSegs' : q.doc \in DOMAIN s.cover BY <2>2, <2>4, <2>5, <2>7 DEF retJournal
    <3>3. q.inputs = KeysOf(Retirable(q.doc))' BY <2>5, <2>6, <2>7
    <3>4. q.root = RootKey(retRevision' + 1) BY <2>2, <2>5, <2>7 DEF retJournal
    <3>5. q.listed = (BaseKeys' \ {BaseKey(q.doc, retBase'[q.doc])}) \cup {BaseKey(q.doc, q.seq)}
                \cup (KeysOf(retSegs') \ q.inputs)
      BY <2>2, <2>5, <2>6, <2>7 DEF retJournal
    <3>6. <<q.doc, BaseKey(q.doc, q.seq)>> \in retReserved' BY <2>1, <2>5, <2>7
    <3> HIDE DEF ins, listed, base
    <3> QED BY <2>2, <3>1, <3>2, <3>3, <3>4, <3>5, <3>6 DEF PlanIsSound
  <2>9. retGate' \notin Rewriting \cup {"settle"} BY <2>2 DEF Rewriting
  <2> QED BY <2>1, <2>7, <2>8, <2>9 DEF PlansAreSound
<1>3. ASSUME NEW p \in retPlan, p \in retPlan',
             UNCHANGED <<retSeq, retSegs, retBase, retRevision>>, retDue' \subseteq retDue,
             \A k : <<p.doc, k>> \in retReserved => <<p.doc, k>> \in retReserved',
             retGate' \in {"put_root", "commit"} => <<p.doc, p.root>> \in retReserved' /\ BaseKey(p.doc, p.seq) \in retObjects',
             retGate' = "commit" => p.root \in retObjects'
      PROVE  PlanIsSound(p)'
  <2>1. PlanIsSound(p) BY <1>0 DEF PlansAreSound
  <2>2. BaseKeys' = BaseKeys /\ KeysOf(retSegs') = KeysOf(retSegs) /\ KeysOf(Retirable(p.doc))' = KeysOf(Retirable(p.doc))
    BY <1>3 DEF BaseKeys, KeysOf, Retirable
  <2>3. <<p.doc, BaseKey(p.doc, p.seq)>> \in retReserved' BY <1>3, <2>1 DEF PlanIsSound
  <2> QED BY <1>3, <2>1, <2>2, <2>3 DEF PlanIsSound
<1>4. ASSUME RetCompactPutBase PROVE PlansAreSound'
  <2>1. PICK p \in retPlan :
       /\ retObjects' = retObjects \cup {BaseKey(p.doc, p.seq)}
       /\ retReserved' = retReserved \cup {<<p.doc, p.root>>}
    BY <1>4 DEF RetCompactPutBase
  <2>2. retGate' = "put_root" /\ UNCHANGED <<retDocs, retJournal, retPlan>> BY <1>4 DEF RetCompactPutBase
  <2>3. \A q \in retPlan : q = p BY <1>0 DEF PlansAreSound
  <2>4. PlanIsSound(p)' BY <1>3, <2>1, <2>2 DEF retDocs, retJournal
  <2> QED BY <2>2, <2>3, <2>4 DEF PlansAreSound, Rewriting
<1>5. ASSUME RetCompactPutRoot PROVE PlansAreSound'
  <2>1. PICK p \in retPlan : retObjects' = retObjects \cup {p.root} BY <1>5 DEF RetCompactPutRoot
  <2>2. retGate = "put_root" /\ retGate' = "commit" /\ UNCHANGED <<retDocs, retJournal, retLedger, retPlan>>
    BY <1>5 DEF RetCompactPutRoot
  <2>3. \A q \in retPlan : q = p BY <1>0 DEF PlansAreSound
  <2>4. <<p.doc, p.root>> \in retReserved /\ BaseKey(p.doc, p.seq) \in retObjects
    BY <1>0, <2>2 DEF PlansAreSound, PlanIsSound
  <2>5. PlanIsSound(p)' BY <1>3, <2>1, <2>2, <2>4 DEF retDocs, retJournal, retLedger
  <2> QED BY <2>2, <2>3, <2>5 DEF PlansAreSound, Rewriting
<1>6. CASE PlanIdle
  <2>1. ASSUME NEW p \in retPlan PROVE PlanIsSound(p)'
    <3>1. PlanIsSound(p) BY <1>0 DEF PlansAreSound
    <3>2. p.root \in RetOutputs(p) /\ BaseKey(p.doc, p.seq) \in RetOutputs(p) BY DEF RetOutputs
    <3>3. retGate' \in {"put_root", "commit"} => retGate' = retGate BY <1>6 DEF PlanIdle, Compacting
    <3>4. retGate' \in {"put_root", "commit"} => <<p.doc, p.root>> \in retReserved' /\ BaseKey(p.doc, p.seq) \in retObjects'
      BY <1>6, <3>1, <3>2, <3>3 DEF PlanIdle, PlanIsSound
    <3>5. retGate' = "commit" => p.root \in retObjects' BY <1>6, <3>1, <3>2, <3>3 DEF PlanIdle, PlanIsSound
    <3> QED BY <1>3, <1>6, <3>4, <3>5 DEF PlanIdle
  <2> QED BY <1>0, <1>6, <2>1 DEF PlansAreSound, PlanIdle
<1> QED BY <1>1, <1>2, <1>4, <1>5, <1>6, PlanSteps

---------------------------------------------------------------------------
\* No manifest of a later revision is in storage.
NoFreshRoot == \A k \in retObjects : k[1] = "manifest" => k[2] \in Nat /\ ~(k[3] = {} /\ k[2] > retRevision)

\* What an object that is added may be, unless it is the manifest of a preparation.
Harmless(k) == k[1] = "manifest" => k[2] \in Nat /\ k[3] # {}

\* No manifest is in the store under a revision that a later preparation may take.
LEMMA RootsKept ==
  ASSUME RetInv, RetNext
  PROVE  RootsAreFresh'
<1>0. RootsAreFresh /\ PlansAreSound /\ RetTypes /\ PassIsSound BY DEF RetInv
<1>1. retPlan = {} \/ retGate \in {"put_base", "put_root"} => NoFreshRoot BY <1>0 DEF RootsAreFresh, NoFreshRoot
<1>2. ASSUME NoFreshRoot, \A k \in retObjects' : k \in retObjects \/ Harmless(k),
             retRevision' = retRevision
      PROVE  RootsAreFresh'
  BY <1>2 DEF NoFreshRoot, RootsAreFresh, Harmless
<1>3. \A d, n : Harmless(BaseKey(d, n)) BY KeyParts DEF Harmless
<1>4. ASSUME NEW ds \in SUBSET RetDoc, RetFlush(ds) PROVE RootsAreFresh'
  <2>1. PICK s \in Segments : s.key = SegKey(retFlushed + 1, ds) /\ retObjects' = retObjects \cup {s.key}
    BY <1>4, FlushDoes
  <2>2. Harmless(s.key) BY <2>1, KeyParts DEF Harmless
  <2>3. retPlan = {} /\ retRevision' = retRevision BY <1>4 DEF RetFlush
  <2> QED BY <1>1, <1>2, <2>1, <2>2, <2>3
<1>5. ASSUME NEW d \in RetDoc, RetCompactPrepare(d) PROVE RootsAreFresh'
  BY <1>1, <1>2, <1>5 DEF RetCompactPrepare, retJournal
<1>6. ASSUME RetCompactPutBase PROVE RootsAreFresh'
  BY <1>1, <1>2, <1>3, <1>6 DEF RetCompactPutBase, retJournal
<1>7. ASSUME retGate = "put_root", NEW p \in retPlan, retObjects' = retObjects \cup {p.root}, retGate' \in {"commit", "free"},
             UNCHANGED <<retReserved, retPlan, retRevision>>
      PROVE  RootsAreFresh'
  <2>1. PlanIsSound(p) BY <1>0 DEF PlansAreSound
  <2>2. p.root[2] \in Nat BY <1>0, <2>1, KeyParts DEF PlanIsSound, RetTypes
  <2>3. <<p.doc, p.root>> \in retReserved /\ BaseKey(p.doc, p.seq) \in retObjects BY <1>7, <2>1 DEF PlanIsSound
  <2>4. NoFreshRoot BY <1>1, <1>7
  <2> SUFFICES ASSUME NEW k \in retObjects', k[1] = "manifest"
               PROVE  /\ k[2] \in Nat
                      /\ k[3] = {} /\ k[2] > retRevision' =>
                           \E q \in retPlan' : /\ k = q.root /\ <<q.doc, k>> \in retReserved'
                                               /\ BaseKey(q.doc, q.seq) \in retObjects'
                                               /\ retGate' \notin {"put_base", "put_root"}
    BY DEF RootsAreFresh
  <2>5. CASE k \in retObjects BY <1>7, <2>4, <2>5 DEF NoFreshRoot
  <2>6. CASE k = p.root BY <1>7, <2>2, <2>3, <2>6
  <2> QED BY <1>7, <2>5, <2>6
<1>8. ASSUME RetCompactPutRoot PROVE RootsAreFresh'
  BY <1>7, <1>8 DEF RetCompactPutRoot, retJournal, retLedger
<1>9. ASSUME \A k \in retObjects' : k \in retObjects, retRevision' = retRevision, PlanIdle,
             retGate' \notin {"put_base", "put_root"}
      PROVE  RootsAreFresh'
  <2> SUFFICES ASSUME NEW k \in retObjects', k[1] = "manifest"
               PROVE  /\ k[2] \in Nat
                      /\ k[3] = {} /\ k[2] > retRevision' =>
                           \E q \in retPlan' : /\ k = q.root /\ <<q.doc, k>> \in retReserved'
                                               /\ BaseKey(q.doc, q.seq) \in retObjects'
                                               /\ retGate' \notin {"put_base", "put_root"}
    BY DEF RootsAreFresh
  <2>1. k \in retObjects /\ k[2] \in Nat BY <1>0, <1>9 DEF RootsAreFresh
  <2>2. ASSUME k[3] = {}, k[2] > retRevision
        PROVE  \E q \in retPlan' : /\ k = q.root /\ <<q.doc, k>> \in retReserved'
                                   /\ BaseKey(q.doc, q.seq) \in retObjects'
    <3>1. PICK q \in retPlan : k = q.root /\ <<q.doc, k>> \in retReserved /\ BaseKey(q.doc, q.seq) \in retObjects
      BY <1>0, <2>1, <2>2 DEF RootsAreFresh
    <3>2. BaseKey(q.doc, q.seq) \in RetOutputs(q) BY DEF RetOutputs
    <3> QED BY <1>9, <3>1, <3>2 DEF PlanIdle
  <2> QED BY <1>9, <2>1, <2>2
<1>10. ASSUME RetCompactFails PROVE RootsAreFresh'
  <2>1. retGate' = "free" /\ UNCHANGED <<retReserved, retPlan, retRevision>>
    BY <1>10 DEF RetCompactFails, retLedger, retJournal
  <2>2. CASE retGate = "put_base"
    <3>1. PICK p \in retPlan : retObjects' \in {retObjects, retObjects \cup {BaseKey(p.doc, p.seq)}}
      BY <1>10, <2>2 DEF RetCompactFails
    <3> QED BY <1>1, <1>2, <1>3, <2>1, <2>2, <3>1
  <2>3. CASE retGate = "put_root"
    <3>1. PICK p \in retPlan : retObjects' \in {retObjects, retObjects \cup {p.root}}
      BY <1>10, <2>3 DEF RetCompactFails
    <3>2. CASE retObjects' = retObjects BY <1>1, <1>2, <2>1, <2>3, <3>2
    <3>3. CASE retObjects' = retObjects \cup {p.root} BY <1>7, <2>1, <2>3, <3>3
    <3> QED BY <3>1, <3>2, <3>3
  <2>4. CASE retGate = "commit"
    <3>1. retObjects' = retObjects BY <1>10, <2>4 DEF RetCompactFails
    <3> QED BY <1>0, <2>1, <2>4, <3>1 DEF RootsAreFresh
  <2> QED BY <1>10, <2>2, <2>3, <2>4 DEF RetCompactFails
<1>11. ASSUME Commits PROVE RootsAreFresh'
  <2>1. PICK p \in retPlan : CommitPlan(p) /\ RetOutputs(p) \subseteq retObjects /\ retObjects' = retObjects
    BY <1>11 DEF Commits
  <2>2. p.root = RootKey(retRevision + 1) /\ retRevision' = retRevision + 1 /\ retRevision \in Nat
    BY <1>0, <2>1 DEF PlansAreSound, PlanIsSound, CommitPlan, RetTypes
  <2>3. ASSUME NEW k \in retObjects, k[1] = "manifest" PROVE k[2] \in Nat /\ ~(k[3] = {} /\ k[2] > retRevision + 1)
    <3>1. k[2] \in Nat BY <1>0, <2>3 DEF RootsAreFresh
    <3>2. ASSUME k[3] = {}, k[2] > retRevision + 1 PROVE FALSE
      <4>1. k[2] > retRevision BY <2>2, <3>1, <3>2
      <4>2. PICK q \in retPlan : k = q.root BY <1>0, <2>3, <3>2, <4>1 DEF RootsAreFresh
      <4>3. k = p.root BY <1>0, <4>2 DEF PlansAreSound
      <4>4. k[2] = retRevision + 1 BY <2>2, <4>3, KeyParts
      <4> QED BY <2>2, <3>2, <4>4
    <3> QED BY <3>1, <3>2
  <2> QED BY <2>1, <2>2, <2>3 DEF RootsAreFresh
<1>12. ASSUME RetCompactSettle PROVE RootsAreFresh'
  <2>1. retPlan = {} /\ retObjects' = retObjects /\ retRevision' = retRevision
    BY <1>0, <1>12 DEF RetCompactSettle, PlansAreSound, retJournal
  <2> QED BY <1>1, <1>2, <2>1
<1>13. ASSUME RetReconcile, QuietStep PROVE RootsAreFresh'
  <2>1. retObjects' = retObjects /\ retRevision' = retRevision BY <1>13 DEF RetReconcile, QuietStep
  <2>2. NoFreshRoot
    <3>1. CASE retPlan = {} BY <1>1, <3>1
    <3>2. ASSUME NEW p \in retPlan, ~(RetOutputs(p) \subseteq retObjects /\ p.inputs \subseteq KeysOf(retSegs))
          PROVE  NoFreshRoot
      <4>1. PlanIsSound(p) /\ \A q \in retPlan : q = p BY <1>0 DEF PlansAreSound
      <4>2. p.inputs \subseteq KeysOf(retSegs) BY <4>1 DEF PlanIsSound, KeysOf, Retirable
      <4>3. p.root \notin retObjects \/ BaseKey(p.doc, p.seq) \notin retObjects BY <3>2, <4>2 DEF RetOutputs
      <4> QED BY <1>0, <4>1, <4>3 DEF RootsAreFresh, NoFreshRoot
    <3>3. ASSUME NEW p \in retPlan, CommitPlan(p) PROVE FALSE
      <4>1. retRevision' = retRevision + 1 /\ retRevision \in Nat BY <1>0, <3>3 DEF CommitPlan, RetTypes
      <4> QED BY <2>1, <4>1
    <3> QED BY <1>13, <3>1, <3>2, <3>3 DEF RetReconcile
  <2> QED BY <1>2, <2>1, <2>2
<1>14. ASSUME NEW d \in RetDoc, RetStartDelete(d) \/ RetFinish(d) PROVE RootsAreFresh'
  <2>1. retObjects' = retObjects /\ retRevision' = retRevision /\ retGate' = retGate /\ retPlan' = retPlan
    BY <1>14 DEF RetStartDelete, RetFinish, retJournal
  <2>2. CASE retPlan = {} \/ retGate \in {"put_base", "put_root"} BY <1>1, <1>2, <2>1, <2>2
  <2>3. CASE retPlan # {} /\ retGate \notin {"put_base", "put_root"}
    <3>1. PlanIdle
      <4>1. ~(\E e \in RetDoc : RetCompactPrepare(e)) BY <2>1, <2>3 DEF RetCompactPrepare
      <4>2. ~RetCompactPutBase /\ ~RetCompactPutRoot BY <2>3 DEF RetCompactPutBase, RetCompactPutRoot
      <4> QED BY <2>1, <2>3, <4>1, <4>2, PlanSteps
    <3> QED BY <1>9, <2>1, <2>3, <3>1
  <2> QED BY <2>2, <2>3
<1>15. ASSUME NEW d \in RetDoc, RetRetire(d) PROVE RootsAreFresh'
  <2>1. retPlan = {} /\ retObjects' = retObjects /\ retRevision' \in {retRevision, retRevision + 1} /\ retRevision \in Nat
    BY <1>0, <1>15 DEF RetRetire, RetTypes
  <2>2. NoFreshRoot BY <1>1, <2>1
  <2> QED BY <2>1, <2>2 DEF NoFreshRoot, RootsAreFresh
<1>16. ASSUME RetSweep \/ RetCrash PROVE RootsAreFresh'
  <2>1. \/ /\ retObjects' \subseteq retObjects /\ retRevision' = retRevision /\ retPlan' = retPlan
           /\ retGate' \in Passing \cup {"free", "startup"} /\ retGate \notin {"put_base", "put_root"}
        \/ RetCrash
    BY <1>16 DEF RetSweep, RetPassBegin, RetPassEnd, RetReclaim, RetSkip, RetDelete, RetDeleteUnsure, RetRelease, InTurn,
                 retJournal, Passing
  <2>2. RetCrash => retObjects' = retObjects /\ retRevision' = retRevision /\ retPlan' = retPlan /\ retGate' = "startup"
    BY DEF RetCrash, retJournal
  <2>3. CASE retPlan = {} BY <1>1, <1>2, <2>1, <2>2, <2>3
  <2>4. CASE retPlan # {} /\ RetCrash
    <3>1. PlanIdle BY <2>4 DEF RetCrash, PlanIdle, retJournal, retLedger, Rewriting, Compacting
    <3> QED BY <1>9, <2>2, <2>4, <3>1
  <2>5. CASE retPlan # {} /\ ~RetCrash
    <3>1. PlanIdle
      <4>1. ~(\E e \in RetDoc : RetCompactPrepare(e)) BY <2>5 DEF RetCompactPrepare
      <4>2. ~RetCompactPutBase /\ ~RetCompactPutRoot BY <2>1, <2>5 DEF RetCompactPutBase, RetCompactPutRoot
      <4> QED BY <2>1, <2>5, <4>1, <4>2, PlanSteps
    <3> QED BY <1>9, <2>1, <2>5, <3>1 DEF Passing
  <2> QED BY <2>3, <2>4, <2>5
<1>17. ASSUME RetRewrite PROVE RootsAreFresh'
  <2>1. NoFreshRoot
    <3>1. ASSUME NEW r \in retPass, RetRewriteNothing(r) \/ RetRewriteStage(r) PROVE retPlan = {}
      BY <3>1 DEF RetRewriteNothing, RetRewriteStage
    <3>2. ASSUME RetRewriteReserve \/ RetRewriteWrite \/ RetRewriteCharge \/ RetRewriteMove \/ RetRewriteFails
          PROVE  retPlan = {}
      BY <1>0, <3>2 DEF PlansAreSound, RetRewriteReserve, RetRewriteWrite, RetRewriteCharge, RetRewriteMove, RetRewriteFails,
                        Rewriting
    <3> QED BY <1>1, <1>17, <3>1, <3>2 DEF RetRewrite
  <2>2. retRevision' = retRevision
    BY <1>17 DEF RetRewrite, RetRewriteNothing, RetRewriteStage, RetRewriteReserve, RetRewriteWrite, RetRewriteCharge,
                 RetRewriteMove, RetRewriteFails, retJournal
  <2>3. ASSUME NEW w \in retWork, retGate = "write" PROVE \A k \in Staged(w) : Harmless(k)
    <3>1. RewriteIsSound(w) BY <1>0, <2>3 DEF PassIsSound, Rewriting
    <3>2. /\ w.out[1] = "segment"
          /\ \A k \in w.roots : \E m \in retRoot : k = MovedRoot(m, w.out)
          /\ DocsIn(w.out) # {}
      BY <3>1, KeyParts DEF RewriteIsSound
    <3>3. \A m \in retRoot : m \in retObjects /\ m[1] = "manifest"
      BY DEF RetInv, StoreIsWhole, RetLive, ManifestIsSound
    <3>4. \A m \in retRoot : m[2] \in Nat BY <1>0, <3>3 DEF RootsAreFresh
    <3>5. \A m \in retRoot : Harmless(MovedRoot(m, w.out))
      BY <3>2, <3>4, KeyParts DEF Harmless, MovedRoot
    <3> QED BY <3>2, <3>5 DEF Staged, Harmless
  <2>4. \A k \in retObjects' : k \in retObjects \/ Harmless(k)
    <3>1. ASSUME RetRewriteWrite \/ RetRewriteFails PROVE \A k \in retObjects' : k \in retObjects \/ Harmless(k)
      <4>1. PICK w \in retWork : \E landed \in SUBSET Staged(w) : retObjects' = retObjects \cup landed
        BY <3>1 DEF RetRewriteWrite, RetRewriteFails
      <4>2. retGate = "write" BY <3>1 DEF RetRewriteWrite, RetRewriteFails
      <4> QED BY <2>3, <4>1, <4>2
    <3> QED BY <1>17, <3>1 DEF RetRewrite, RetRewriteNothing, RetRewriteStage, RetRewriteReserve, RetRewriteCharge,
                 RetRewriteMove
  <2> QED BY <1>2, <2>1, <2>2, <2>4
<1>18. ASSUME RetCompact PROVE RootsAreFresh'
  <2>1. ASSUME RetCompactCommit PROVE Commits
    <3>1. QuietStep \/ Commits BY <1>18, CompactionIsQuiet
    <3>2. PICK p \in retPlan : CommitPlan(p) BY <2>1 DEF RetCompactCommit
    <3>3. retRevision \in Nat /\ retRevision' = retRevision + 1 BY <1>0, <3>2 DEF CommitPlan, RetTypes
    <3> QED BY <3>1, <3>3 DEF QuietStep
  <2> QED BY <1>5, <1>6, <1>8, <1>10, <1>11, <1>12, <1>18, <2>1 DEF RetCompact
<1> QED BY <1>4, <1>11, <1>13, <1>14, <1>15, <1>16, <1>17, <1>18, ReconcileIsQuiet DEF RetNext

---------------------------------------------------------------------------
\* What the retirement worker deletes stays unneeded until it is gone.
LEMMA DeletionKept ==
  ASSUME RetInv, RetNext
  PROVE  DeletionIsSafe'
<1>0. DeletionIsSafe BY DEF RetInv
<1>1. CASE retGate' \notin {"delete", "release"} BY <1>1 DEF DeletionIsSafe
<1>2. ASSUME NEW r \in retPass, RetReclaim(r) PROVE DeletionIsSafe'
  <2>1. retWork' = {[key |-> r.key]} /\ retGate' = "delete" /\ UNCHANGED <<retJournal, retPlan>> BY <1>2 DEF RetReclaim
  <2>2. RetLive' = RetLive BY <2>1 DEF RetLive, KeysOf, BaseKeys, retJournal
  <2>3. r.key \notin RetLive /\ \A p \in retPlan : r.key \notin RetOutputs(p) BY <1>2 DEF RetReclaim, Referenced
  <2>4. \A w \in retWork' : w.key = r.key BY <2>1
  <2> QED BY <2>1, <2>2, <2>3, <2>4 DEF DeletionIsSafe
<1>3. ASSUME RetDelete PROVE DeletionIsSafe'
  <2>1. PICK w \in retWork : retObjects' = retObjects \ {w.key} BY <1>3 DEF RetDelete
  <2>2. retGate = "delete" /\ retGate' = "release" /\ UNCHANGED <<retJournal, retPlan, retWork>> BY <1>3 DEF RetDelete
  <2>3. RetLive' = RetLive BY <2>2 DEF RetLive, KeysOf, BaseKeys, retJournal
  <2>4. \A v \in retWork : v = w BY DEF RetInv, PassIsSound
  <2> QED BY <1>0, <2>1, <2>2, <2>3, <2>4 DEF DeletionIsSafe
<1>4. ASSUME NEW d \in RetDoc, RetStartDelete(d) \/ RetFinish(d) PROVE DeletionIsSafe'
  <2>1. UNCHANGED <<retJournal, retPlan, retWork, retGate, retObjects>> BY <1>4 DEF RetStartDelete, RetFinish
  <2>2. RetLive' = RetLive BY <2>1 DEF RetLive, KeysOf, BaseKeys, retJournal
  <2> QED BY <1>0, <2>1, <2>2 DEF DeletionIsSafe
<1>5. ASSUME NEW ds \in SUBSET RetDoc, RetFlush(ds) PROVE retGate' = "free" BY <1>5 DEF RetFlush
<1>6. ASSUME RetCompact PROVE retGate' \notin {"delete", "release"}
  BY <1>6 DEF RetCompact, RetCompactPrepare, RetCompactPutBase, RetCompactPutRoot, RetCompactCommit, RetCompactSettle,
              RetCompactFails
<1>7. ASSUME RetReconcile \/ RetCrash PROVE retGate' \notin {"delete", "release"} BY <1>7 DEF RetReconcile, RetCrash
<1>8. ASSUME NEW d \in RetDoc, RetRetire(d) PROVE retGate' = "free" BY <1>8 DEF RetRetire
<1>9. ASSUME RetPassBegin \/ RetPassEnd \/ RetDeleteUnsure \/ RetRelease PROVE retGate' \notin {"delete", "release"}
  BY <1>9 DEF RetPassBegin, RetPassEnd, RetDeleteUnsure, RetRelease
<1>10. ASSUME NEW r \in retPass, RetSkip(r) PROVE retGate' = "pass" BY <1>10 DEF RetSkip, InTurn
<1>11. ASSUME RetRewrite PROVE retGate' \notin {"delete", "release"}
  BY <1>11 DEF RetRewrite, RetRewriteNothing, RetRewriteStage, RetRewriteReserve, RetRewriteWrite, RetRewriteCharge,
                 RetRewriteMove, RetRewriteFails, InTurn
<1> QED BY <1>1, <1>2, <1>3, <1>4, <1>5, <1>6, <1>7, <1>8, <1>9, <1>10, <1>11 DEF RetNext, RetSweep

---------------------------------------------------------------------------
\* What does not change while a rewrite is at work.
RewriteIdle(w) ==
  /\ UNCHANGED <<retSegs, retRoot, retListed, retRows, retPass>>
  /\ \A d \in RetDoc : retStatus'[d] = "active" => retStatus[d] = "active"

\* A rewrite's steps before its move leave it sound.
LEMMA RewriteStays ==
  ASSUME RetTypes, SegmentsAreSound, NEW w, RewriteIsSound(w), RewriteIdle(w),
         retGate' \in {"write", "charge"} => \A k \in Staged(w) : <<w.heir, k>> \in retReserved',
         retGate' \in {"charge", "move"} => Staged(w) \subseteq retObjects',
         retGate' = "move" => \A k \in Staged(w) : <<w.heir, k>> \in retCharged'
  PROVE  RewriteIsSound(w)'
<1>1. PICK s \in retSegs :
    /\ s.key = w.row.key /\ w.out = SegKey(s.id, DocsIn(w.out)) /\ w.heir \in DOMAIN s.cover
    /\ DocsIn(w.out) # {} /\ DocsIn(w.out) # DocsIn(s.key)
    /\ DocsIn(w.out) \subseteq DOMAIN s.cover \cap DocsIn(s.key)
    /\ \A d \in DOMAIN s.cover : retStatus[d] = "active" => d \in DocsIn(w.out)
    /\ w.roots = {MovedRoot(m, w.out) : m \in {n \in retRoot : s.key \in retListed}}
    /\ w.old = {n \in retRoot : w.roots # {}}
    /\ Staged(w) \cup {w.row.key} \subseteq RowKeys(retRows)
  BY DEF RewriteIsSound
<1>2. DOMAIN s.cover \subseteq RetDoc BY SegmentFacts
<1>3. \A d \in DOMAIN s.cover : retStatus'[d] = "active" => d \in DocsIn(w.out) BY <1>1, <1>2 DEF RewriteIdle
<1>4. /\ w.roots = {MovedRoot(m, w.out) : m \in {n \in retRoot' : s.key \in retListed'}}
      /\ w.old = {n \in retRoot' : w.roots # {}}
      /\ s \in retSegs'
      /\ Staged(w) \cup {w.row.key} \subseteq RowKeys(retRows')
  BY <1>1 DEF RewriteIdle
<1> QED BY <1>1, <1>3, <1>4 DEF RewriteIsSound

\* The pass is empty while nobody passes.
LEMMA PassEnds ==
  ASSUME RetInv, RetNext, retGate' \notin Passing \cup Rewriting
  PROVE  retPass' = {}
<1>0. retGate \notin Passing \cup Rewriting => retPass = {} BY DEF RetInv, PassIsSound
<1>1. ASSUME NEW ds \in SUBSET RetDoc, RetFlush(ds) PROVE retPass' = {}
  BY <1>0, <1>1 DEF RetFlush, Passing, Rewriting
<1>2. ASSUME RetCompact PROVE retPass' = {}
  <2>1. retPass' = retPass /\ retGate \notin Passing \cup Rewriting
    BY <1>2 DEF RetCompact, RetCompactPrepare, RetCompactPutBase, RetCompactPutRoot, RetCompactCommit, RetCompactSettle,
              RetCompactFails, Passing, Rewriting
  <2> QED BY <1>0, <2>1
<1>3. ASSUME NEW d \in RetDoc, RetStartDelete(d) \/ RetFinish(d) PROVE retPass' = {}
  BY <1>0, <1>3 DEF RetStartDelete, RetFinish
<1>4. ASSUME NEW d \in RetDoc, RetRetire(d) PROVE retPass' = {}
  BY <1>0, <1>4 DEF RetRetire, Passing, Rewriting
<1>5. ASSUME RetReconcile \/ RetCrash PROVE retPass' = {}
  BY <1>0, <1>5 DEF RetReconcile, RetCrash, Passing, Rewriting
<1>6. ASSUME RetSweep PROVE retPass' = {}
  BY <1>6 DEF RetSweep, RetPassBegin, RetPassEnd, RetReclaim, RetSkip, RetDelete, RetDeleteUnsure, RetRelease, Passing,
              InTurn
<1>7. ASSUME RetRewrite PROVE FALSE
  BY <1>7 DEF RetRewrite, RetRewriteNothing, RetRewriteStage, RetRewriteReserve, RetRewriteWrite, RetRewriteCharge,
                 RetRewriteMove, RetRewriteFails, InTurn, Passing, Rewriting
<1> QED BY <1>1, <1>2, <1>3, <1>4, <1>5, <1>6, <1>7 DEF RetNext

\* A row that is still to be handled is still in the queue.
PassIsQueued == \A r \in retPass : r.kind = "rewrite" /\ r.key \in KeysOf(retSegs) => r.key \in RowKeys(retRows)

\* A candidate that asks for a rewrite of a live segment is still in the queue.
LEMMA PassQueuedKept ==
  ASSUME RetInv, RetNext
  PROVE  PassIsQueued'
<1>0. PassIsSound /\ DeletionIsSafe /\ RowsAreSound(retPass) /\ RetTypes /\ SegmentsAreSound BY DEF RetInv
<1>1. PassIsQueued BY <1>0 DEF PassIsSound, PassIsQueued
<1>2. CASE retGate' \notin Passing \cup Rewriting BY <1>2, PassEnds DEF PassIsQueued
<1>3. ASSUME retSegs' = retSegs, retPass' \subseteq retPass, \A k \in RowKeys(retRows) : k \in RowKeys(retRows')
      PROVE  PassIsQueued'
  BY <1>1, <1>3 DEF PassIsQueued
<1>4. ASSUME NEW d \in RetDoc, RetStartDelete(d) \/ RetFinish(d) PROVE PassIsQueued'
  BY <1>3, <1>4 DEF RetStartDelete, RetFinish, retJournal
<1>5. ASSUME RetPassBegin PROVE PassIsQueued'
  <2>1. retPass' = retRows /\ retRows' = retRows BY <1>5 DEF RetPassBegin
  <2> QED BY <2>1 DEF PassIsQueued, RowKeys
<1>6. ASSUME RetDelete \/ RetDeleteUnsure PROVE PassIsQueued'
  BY <1>3, <1>6 DEF RetDelete, RetDeleteUnsure, retJournal
<1>7. ASSUME NEW r \in retPass, RetReclaim(r) \/ RetSkip(r) PROVE PassIsQueued'
  BY <1>3, <1>7 DEF RetReclaim, RetSkip, retJournal
<1>8. ASSUME RetRelease PROVE PassIsQueued'
  <2>1. PICK w \in retWork : retRows' = {r \in retRows : r.key # w.key} BY <1>8 DEF RetRelease
  <2>2. w.key \notin KeysOf(retSegs) BY <1>0, <1>8 DEF RetRelease, DeletionIsSafe, RetLive
  <2>3. retPass' = retPass /\ retSegs' = retSegs BY <1>8 DEF RetRelease, retJournal
  <2> QED BY <1>1, <2>1, <2>2, <2>3 DEF PassIsQueued, RowKeys
<1>9. ASSUME NEW r \in retPass, RetRewriteNothing(r) PROVE PassIsQueued'
  <2>1. retPass' = retPass \ {r} /\ retSegs' = retSegs BY <1>9 DEF RetRewriteNothing, retJournal
  <2>2. retRows' = retRows \/ retRows' = {q \in retRows : q.key # r.key} BY <1>9 DEF RetRewriteNothing
  <2>3. \A q \in retPass : q.key = r.key => q = r BY <1>0 DEF RowsAreSound, OneRowPerKey
  <2> QED BY <1>1, <2>1, <2>2, <2>3 DEF PassIsQueued, RowKeys
<1>10. ASSUME NEW r \in retPass, RetRewriteStage(r) PROVE PassIsQueued'
  <2>1. retPass' = retPass \ {r} /\ retSegs' = retSegs BY <1>10 DEF RetRewriteStage, retJournal
  <2>2. \E w : retRows' = Queue(retRows, StagedRows(w)) BY <1>10, StageDoes
  <2>3. \A k \in RowKeys(retRows) : k \in RowKeys(retRows') BY <2>2, QueueKeeps
  <2> QED BY <1>3, <2>1, <2>3
<1>11. ASSUME RetRewriteReserve \/ RetRewriteWrite \/ RetRewriteCharge \/ RetRewriteFails PROVE PassIsQueued'
  BY <1>3, <1>11 DEF RetRewriteReserve, RetRewriteWrite, RetRewriteCharge, RetRewriteFails, retJournal
<1>12. ASSUME RetRewriteMove PROVE PassIsQueued'
  <2>1. PICK w \in retWork, s \in retSegs, n \in Segments :
           /\ s.key = w.row.key /\ n.id = s.id /\ n.key = w.out
           /\ w.out = SegKey(s.id, DocsIn(w.out)) /\ DocsIn(w.out) # DocsIn(s.key)
           /\ DocsIn(w.out) \subseteq DOMAIN s.cover \cap DocsIn(s.key)
           /\ retSegs' = (retSegs \ {s}) \cup {n}
           /\ \A k \in w.roots : k[1] = "manifest"
           /\ \A k \in RowKeys(retRows) : k \in RowKeys(retRows') \/ k \in Staged(w)
    BY <1>12, MoveDoes
  <2>2. retPass' = retPass BY <1>12 DEF RetRewriteMove
  <2>3. ASSUME NEW r \in retPass, r.kind = "rewrite", r.key \in KeysOf(retSegs') PROVE r.key \in RowKeys(retRows')
    <3>1. RewriteRowIsSound(r) BY <1>0 DEF RowsAreSound
    <3>2. r.key # w.out
      <4> SUFFICES ASSUME r.key = w.out PROVE FALSE OBVIOUS
      <4>1. r.key[2] = s.id BY <2>1, KeyParts
      <4>2. DocsIn(s.key) \subseteq DocsIn(w.out) BY <2>3, <3>1, <4>1 DEF RewriteRowIsSound
      <4> QED BY <2>1, <4>2
    <3>3. r.key \in KeysOf(retSegs) BY <2>1, <2>3, <3>2 DEF KeysOf
    <3>4. r.key \in RowKeys(retRows) BY <1>1, <2>3, <3>3 DEF PassIsQueued
    <3>5. r.key \notin w.roots BY <2>1, <2>3, <3>1 DEF RewriteRowIsSound
    <3> QED BY <2>1, <3>2, <3>4, <3>5 DEF Staged
  <2> QED BY <2>2, <2>3 DEF PassIsQueued
<1>13. ASSUME NEW ds \in SUBSET RetDoc, RetFlush(ds) PROVE retGate' = "free" BY <1>13 DEF RetFlush
<1>14. ASSUME RetCompact \/ RetReconcile \/ RetCrash PROVE retGate' \notin Passing \cup Rewriting
  BY <1>14 DEF RetCompact, RetCompactPrepare, RetCompactPutBase, RetCompactPutRoot, RetCompactCommit, RetCompactSettle,
              RetCompactFails, RetReconcile, RetCrash, Passing, Rewriting
<1>15. ASSUME NEW d \in RetDoc, RetRetire(d) PROVE retGate' = "free" BY <1>15 DEF RetRetire
<1>16. ASSUME RetPassEnd PROVE retGate' = "free" BY <1>16 DEF RetPassEnd
<1>17. "free" \notin Passing \cup Rewriting BY DEF Passing, Rewriting
<1> QED BY <1>2, <1>4, <1>5, <1>6, <1>7, <1>8, <1>9, <1>10, <1>11, <1>12, <1>13, <1>14, <1>15, <1>16, <1>17
        DEF RetNext, RetSweep, RetRewrite

\* What a rewrite has established stays true until its rows are moved.
LEMMA RewriteKept ==
  ASSUME RetInv, RetNext, retGate' \in Rewriting, NEW w \in retWork'
  PROVE  RewriteIsSound(w)' /\ \A r \in retPass' : r.key # w.row.key
<1>0. PassIsSound /\ RetTypes /\ SegmentsAreSound /\ RowsAreSound(retPass) BY DEF RetInv
<1>1. ASSUME retGate \in Rewriting, w \in retWork
      PROVE  RewriteIsSound(w) /\ \A r \in retPass : r.key # w.row.key
  BY <1>0, <1>1 DEF PassIsSound
<1>2. ASSUME NEW d \in RetDoc, RetStartDelete(d) \/ RetFinish(d)
      PROVE  RewriteIsSound(w)' /\ \A r \in retPass' : r.key # w.row.key
  <2>1. /\ UNCHANGED <<retSegs, retRoot, retListed, retRows, retPass, retObjects, retGate, retWork>>
        /\ \A e \in RetDoc : retStatus'[e] = "active" => retStatus[e] = "active"
    BY <1>0, <1>2 DEF RetStartDelete, RetFinish, retJournal, RetTypes
  <2>2. RewriteIsSound(w) /\ \A r \in retPass : r.key # w.row.key BY <1>1, <2>1
  <2>3. \A k : /\ <<w.heir, k>> \in retReserved => <<w.heir, k>> \in retReserved'
               /\ <<w.heir, k>> \in retCharged => <<w.heir, k>> \in retCharged'
    <3>1. CASE RetStartDelete(d) BY <3>1 DEF RetStartDelete, retLedger
    <3>2. CASE RetFinish(d)
      <4>1. w.heir # d BY <2>2, <3>2 DEF RewriteIsSound, RetFinish, Unclaimed
      <4>2. \A k : <<w.heir, k>>[1] = w.heir OBVIOUS
      <4> QED BY <3>2, <4>1, <4>2 DEF RetFinish
    <3> QED BY <1>2, <3>1, <3>2
  <2>4. retGate' \in {"write", "charge"} => \A k \in Staged(w) : <<w.heir, k>> \in retReserved'
    BY <2>1, <2>2, <2>3 DEF RewriteIsSound
  <2>5. retGate' \in {"charge", "move"} => Staged(w) \subseteq retObjects' BY <2>1, <2>2 DEF RewriteIsSound
  <2>6. retGate' = "move" => \A k \in Staged(w) : <<w.heir, k>> \in retCharged'
    BY <2>1, <2>2, <2>3 DEF RewriteIsSound
  <2> QED BY <1>0, <2>1, <2>2, <2>4, <2>5, <2>6, RewriteStays DEF RewriteIdle
<1>3. ASSUME NEW r \in retPass, RetRewriteStage(r)
      PROVE  RewriteIsSound(w)' /\ \A q \in retPass' : q.key # w.row.key
  <2>1. PICK v : /\ retWork' = {v} /\ v.row = r
                 /\ retRows' = Queue(retRows, StagedRows(v))
                 /\ \E s \in retSegs :
                     /\ s.key = r.key /\ v.out = SegKey(s.id, DocsIn(v.out)) /\ v.heir \in DOMAIN s.cover
                     /\ DocsIn(v.out) # {} /\ DocsIn(v.out) # DocsIn(s.key)
                     /\ DocsIn(v.out) \subseteq DOMAIN s.cover \cap DocsIn(s.key)
                     /\ \A d \in DOMAIN s.cover : retStatus[d] = "active" => d \in DocsIn(v.out)
                     /\ v.roots = {MovedRoot(m, v.out) : m \in {n \in retRoot : s.key \in retListed}}
                     /\ v.old = {n \in retRoot : v.roots # {}}
    BY <1>3, StageDoes
  <2>2. w = v BY <2>1
  <2>3. retPass' = retPass \ {r} /\ retGate' = "reserve" /\ UNCHANGED <<retDocs, retJournal>> BY <1>3 DEF RetRewriteStage
  <2>4. \A q \in retPass' : q.key # w.row.key BY <1>0, <2>1, <2>2, <2>3 DEF RowsAreSound, OneRowPerKey
  <2>5. r.key \in RowKeys(retRows)
    <3>1. r.kind = "rewrite" /\ r.key \in KeysOf(retSegs) BY <1>3, <2>1 DEF RetRewriteStage, KeysOf
    <3> QED BY <1>0, <3>1 DEF PassIsSound
  <2>6. Staged(w) \cup {w.row.key} \subseteq RowKeys(retRows')
    <3>1. RowKeys(retRows') = RowKeys(retRows) \cup RowKeys(StagedRows(w)) BY <2>1, <2>2, QueueKeeps
    <3>2. \A k \in Staged(w) : k \in RowKeys(StagedRows(w)) BY RowParts DEF RowKeys, StagedRows
    <3> QED BY <2>1, <2>2, <2>5, <3>1, <3>2
  <2>7. PICK s \in retSegs :
                     /\ s.key = w.row.key /\ w.out = SegKey(s.id, DocsIn(w.out)) /\ w.heir \in DOMAIN s.cover
                     /\ DocsIn(w.out) # {} /\ DocsIn(w.out) # DocsIn(s.key)
                     /\ DocsIn(w.out) \subseteq DOMAIN s.cover \cap DocsIn(s.key)
                     /\ \A d \in DOMAIN s.cover : retStatus[d] = "active" => d \in DocsIn(w.out)
                     /\ w.roots = {MovedRoot(m, w.out) : m \in {n \in retRoot : s.key \in retListed}}
                     /\ w.old = {n \in retRoot : w.roots # {}}
    BY <2>1, <2>2
  <2>8. UNCHANGED <<retSegs, retStatus, retRoot, retListed>> BY <2>3 DEF retDocs, retJournal
  <2>9. /\ w.roots = {MovedRoot(m, w.out) : m \in {n \in retRoot' : s.key \in retListed'}}
        /\ w.old = {n \in retRoot' : w.roots # {}}
    BY <2>7, <2>8
  <2>10. RewriteIsSound(w)' BY <2>3, <2>6, <2>7, <2>8, <2>9 DEF RewriteIsSound
  <2> QED BY <2>4, <2>10
<1>4. ASSUME retGate \in Rewriting, w \in retWork, UNCHANGED <<retDocs, retJournal, retRows, retPass>>,
         retGate' \in {"write", "charge"} => \A k \in Staged(w) : <<w.heir, k>> \in retReserved',
         retGate' \in {"charge", "move"} => Staged(w) \subseteq retObjects',
         retGate' = "move" => \A k \in Staged(w) : <<w.heir, k>> \in retCharged'
      PROVE  RewriteIsSound(w)' /\ \A q \in retPass' : q.key # w.row.key
  <2>1. RewriteIdle(w) BY <1>4 DEF RewriteIdle, retDocs, retJournal
  <2> QED BY <1>0, <1>1, <1>4, <2>1, RewriteStays
<1>5. \A v \in retWork, u \in retWork : v = u BY DEF RetInv, PassIsSound
<1>6. ASSUME RetRewriteReserve PROVE RewriteIsSound(w)' /\ \A q \in retPass' : q.key # w.row.key
  <2>1. PICK v \in retWork :
       \/ /\ retReserved' = retReserved \cup {<<v.heir, k>> : k \in Staged(v)}
          /\ retGate' = "write" /\ UNCHANGED retWork
       \/ retGate' = "pass" /\ retWork' = {}
    BY <1>6 DEF RetRewriteReserve
  <2>2. retReserved' = retReserved \cup {<<v.heir, k>> : k \in Staged(v)} /\ retGate' = "write" /\ w \in retWork
    BY <2>1
  <2>3. w = v BY <1>5, <2>2
  <2>4. \A k \in Staged(w) : <<w.heir, k>> \in retReserved' BY <2>2, <2>3
  <2>5. retGate \in Rewriting /\ UNCHANGED <<retDocs, retJournal, retRows, retPass>>
    BY <1>6 DEF RetRewriteReserve, Rewriting
  <2> QED BY <1>4, <2>2, <2>4, <2>5
<1>7. ASSUME RetRewriteWrite PROVE RewriteIsSound(w)' /\ \A q \in retPass' : q.key # w.row.key
  <2>1. PICK v \in retWork : retObjects' = retObjects \cup Staged(v) BY <1>7 DEF RetRewriteWrite
  <2>2. retGate = "write" /\ retGate' = "charge" /\ UNCHANGED <<retDocs, retJournal, retRows, retLedger, retWork, retPass>>
    BY <1>7 DEF RetRewriteWrite
  <2>3. w = v BY <1>5, <2>1, <2>2
  <2>4. \A k \in Staged(w) : <<w.heir, k>> \in retReserved'
    BY <1>1, <2>2 DEF RewriteIsSound, Rewriting, retLedger
  <2> QED BY <1>4, <2>1, <2>2, <2>3, <2>4 DEF Rewriting
<1>8. ASSUME RetRewriteCharge PROVE RewriteIsSound(w)' /\ \A q \in retPass' : q.key # w.row.key
  <2>1. PICK v \in retWork : retCharged' = retCharged \cup ({<<v.heir, k>> : k \in Staged(v)} \cap retReserved)
    BY <1>8 DEF RetRewriteCharge
  <2>2. retGate = "charge" /\ retGate' = "move" /\ UNCHANGED <<retDocs, retJournal, retRows, retObjects, retWork, retPass>>
    BY <1>8 DEF RetRewriteCharge
  <2>3. w = v BY <1>5, <2>1, <2>2
  <2>4. RewriteIsSound(w) BY <1>1, <2>2 DEF Rewriting
  <2>5. Staged(w) \subseteq retObjects' BY <2>2, <2>4 DEF RewriteIsSound
  <2>6. \A k \in Staged(w) : <<w.heir, k>> \in retCharged' BY <2>1, <2>2, <2>3, <2>4 DEF RewriteIsSound
  <2> QED BY <1>4, <2>2, <2>5, <2>6 DEF Rewriting
<1>9. ASSUME RetRewriteMove \/ RetRewriteFails PROVE FALSE
  BY <1>9 DEF RetRewriteMove, RetRewriteFails, Rewriting
<1>10. ASSUME NEW r \in retPass, RetRewriteNothing(r) PROVE FALSE BY <1>10 DEF RetRewriteNothing, InTurn, Rewriting
<1>11. ASSUME RetSweep PROVE FALSE
  BY <1>11 DEF RetSweep, RetPassBegin, RetPassEnd, RetReclaim, RetSkip, RetDelete, RetDeleteUnsure, RetRelease, InTurn,
               Rewriting
<1>12. ASSUME RetCompact \/ RetReconcile \/ RetCrash PROVE FALSE
  BY <1>12 DEF RetCompact, RetCompactPrepare, RetCompactPutBase, RetCompactPutRoot, RetCompactCommit, RetCompactSettle,
              RetCompactFails, RetReconcile, RetCrash, Rewriting
<1>13. ASSUME NEW d \in RetDoc, RetRetire(d) PROVE FALSE BY <1>13 DEF RetRetire, Rewriting
<1>14. ASSUME NEW ds \in SUBSET RetDoc, RetFlush(ds) PROVE FALSE BY <1>14 DEF RetFlush, Rewriting
<1> QED BY <1>2, <1>3, <1>6, <1>7, <1>8, <1>9, <1>10, <1>11, <1>12, <1>13, <1>14 DEF RetNext, RetRewrite

\* The pass stays sound.
LEMMA PassKept ==
  ASSUME RetInv, RetNext
  PROVE  PassIsSound'
<1>1. retGate' \notin Passing \cup Rewriting => retPass' = {} BY PassEnds
<1>2. PassIsQueued' BY PassQueuedKept
<1>3. \A v \in retWork', u \in retWork' : v = u
  <2>1. \A v \in retWork, u \in retWork : v = u BY DEF RetInv, PassIsSound
  <2>2. ASSUME NEW ds \in SUBSET RetDoc, RetFlush(ds) PROVE retWork' = retWork BY <2>2 DEF RetFlush
  <2>3. ASSUME RetCompact \/ RetReconcile \/ RetCrash PROVE retWork' = retWork \/ \E x : retWork' \subseteq {x}
    BY <2>3 DEF RetCompact, RetCompactPrepare, RetCompactPutBase, RetCompactPutRoot, RetCompactCommit, RetCompactSettle,
              RetCompactFails, RetReconcile, RetCrash
  <2>4. ASSUME NEW d \in RetDoc, RetStartDelete(d) \/ RetFinish(d) \/ RetRetire(d) PROVE retWork' = retWork
    BY <2>4 DEF RetStartDelete, RetFinish, RetRetire
  <2>5. ASSUME RetSweep PROVE retWork' = retWork \/ \E x : retWork' \subseteq {x}
    BY <2>5 DEF RetSweep, RetPassBegin, RetPassEnd, RetReclaim, RetSkip, RetDelete, RetDeleteUnsure, RetRelease
  <2>6. ASSUME RetRewrite PROVE retWork' = retWork \/ \E x : retWork' \subseteq {x}
    <3>1. ASSUME NEW r \in retPass, RetRewriteStage(r) PROVE \E x : retWork' \subseteq {x} BY <3>1, StageDoes
    <3> QED BY <2>6, <3>1 DEF RetRewrite, RetRewriteNothing, RetRewriteReserve, RetRewriteWrite,
                 RetRewriteCharge, RetRewriteMove, RetRewriteFails
  <2>7. retWork' = retWork \/ \E x : retWork' \subseteq {x} BY <2>2, <2>3, <2>4, <2>5, <2>6 DEF RetNext
  <2> QED BY <2>1, <2>7
<1>4. retGate' \in Rewriting => \A w \in retWork' : RewriteIsSound(w)' /\ \A r \in retPass' : r.key # w.row.key
  BY RewriteKept
<1> QED BY <1>1, <1>2, <1>3, <1>4 DEF PassIsSound, PassIsQueued

---------------------------------------------------------------------------
\* What the store agreement says of one object.
ObjectIsWhole(k) ==
  /\ k \in Reachable
  /\ Charged(k) \/ LeftBehind(k)
  /\ \A d \in RetDoc : retStatus[d] = "gone" /\ HoldsBytesOf(k, d) => k \in RowKeys(retRows)

\* The agreement is one of the live keys and of each object.
LEMMA StoreParts ==
  StoreIsWhole <=> RetLive \subseteq retObjects /\ \A k \in retObjects : ObjectIsWhole(k)
BY DEF StoreIsWhole, ObjectIsWhole, RetErasureIsQueued

\* The same of the next state.
LEMMA StoreMade ==
  ASSUME RetLive' \subseteq retObjects', \A k \in retObjects' : ObjectIsWhole(k)'
  PROVE  StoreIsWhole'
BY DEF StoreIsWhole, ObjectIsWhole, RetErasureIsQueued

\* The steps that leave the journal's rows and the deletions alone.
StoreIdle ==
  /\ UNCHANGED retJournal
  /\ \A d \in RetDoc : retStatus'[d] = "gone" <=> retStatus[d] = "gone"
  /\ \A c \in retCharged \cup retReserved : c[2] \in retObjects' => c \in retCharged' \cup retReserved'
  /\ \A k \in retObjects' : \A p \in retPlan : k \in RetOutputs(p) =>
       (\E q \in retPlan' : k \in RetOutputs(q)) \/ k \in RowKeys(retRows')

\* Such a step keeps the store whole if it takes no live object and gives every new one a row or a payer.
LEMMA StoreStays ==
  ASSUME RetInv, StoreIdle, RetLive \subseteq retObjects',
         \A k \in retObjects' : k \in retObjects \/ ObjectIsWhole(k),
         \A k \in retObjects' : k \in RowKeys(retRows) =>
           \/ k \in RowKeys(retRows')
           \/ k \in RetLive /\ \A d \in RetDoc : retStatus[d] = "gone" => ~HoldsBytesOf(k, d)
  PROVE  StoreIsWhole'
<1>1. RetLive' = RetLive BY DEF StoreIdle, RetLive, KeysOf, BaseKeys, retJournal
<1>2. ASSUME NEW k \in retObjects' PROVE ObjectIsWhole(k)'
  <2>1. ObjectIsWhole(k) BY StoreParts DEF RetInv
  <2>2. k \in Reachable'
    <3>1. k \in RetLive \/ k \in RowKeys(retRows) \/ \E p \in retPlan : k \in RetOutputs(p)
      BY <2>1 DEF ObjectIsWhole, Reachable
    <3>2. CASE k \in RetLive BY <1>1, <3>2 DEF Reachable
    <3>3. CASE k \in RowKeys(retRows) BY <1>1, <3>3 DEF Reachable
    <3>4. CASE \E p \in retPlan : k \in RetOutputs(p)
      <4>1. (\E q \in retPlan' : k \in RetOutputs(q)) \/ k \in RowKeys(retRows') BY <3>4 DEF StoreIdle
      <4> QED BY <4>1 DEF Reachable
    <3> QED BY <3>1, <3>2, <3>3, <3>4
  <2>3. Charged(k) => Charged(k)' BY DEF StoreIdle, Charged
  <2>4. LeftBehind(k) => LeftBehind(k)' BY <1>1 DEF StoreIdle, LeftBehind
  <2>5. \A d \in RetDoc : retStatus'[d] = "gone" /\ HoldsBytesOf(k, d) => k \in RowKeys(retRows')
    BY <2>1 DEF StoreIdle, ObjectIsWhole
  <2>6. \A d \in RetDoc : HoldsBytesOf(k, d)' <=> HoldsBytesOf(k, d) BY DEF HoldsBytesOf
  <2> QED BY <2>1, <2>2, <2>3, <2>4, <2>5 DEF ObjectIsWhole
<1>3. RetLive' \subseteq retObjects' BY <1>1
<1> QED BY <1>2, <1>3, StoreMade

\* The steps that write nothing to the store.
LEMMA StoreRests ==
  ASSUME RetInv, StoreIdle, UNCHANGED retObjects, RowKeys(retRows) \subseteq RowKeys(retRows')
  PROVE  StoreIsWhole'
<1>1. RetLive \subseteq retObjects BY DEF RetInv, StoreIsWhole
<1> QED BY <1>1, StoreStays

\* The steps that write objects and change nothing else that matters here.
LEMMA StoreGrows ==
  ASSUME RetInv, UNCHANGED <<retJournal, retStatus, retRows, retPlan>>,
         retCharged \cup retReserved \subseteq retCharged' \cup retReserved',
         retObjects \subseteq retObjects', \A k \in retObjects' : k \in retObjects \/ ObjectIsWhole(k)
  PROVE  StoreIsWhole'
<1>1. RetLive \subseteq retObjects' BY DEF RetInv, StoreIsWhole
<1>2. StoreIdle BY DEF StoreIdle
<1> QED BY <1>1, <1>2, StoreStays

\* The steps that remove what nothing needs.
LEMMA SweepStore ==
  ASSUME RetInv, RetSweep
  PROVE  StoreIsWhole'
<1>0. RetLive \subseteq retObjects BY DEF RetInv, StoreIsWhole
<1>1. ASSUME RetPassBegin \/ RetPassEnd PROVE StoreIsWhole'
  BY <1>1, StoreRests DEF RetPassBegin, RetPassEnd, StoreIdle, retDocs, retLedger
<1>2. ASSUME NEW r \in retPass, RetReclaim(r) \/ RetSkip(r) PROVE StoreIsWhole'
  BY <1>2, StoreRests DEF RetReclaim, RetSkip, StoreIdle, retDocs, retLedger
<1>3. ASSUME RetDelete \/ RetDeleteUnsure PROVE StoreIsWhole'
  <2>1. PICK w \in retWork : retObjects' = retObjects \/ retObjects' = retObjects \ {w.key}
    BY <1>3 DEF RetDelete, RetDeleteUnsure
  <2>2. w.key \notin RetLive BY <1>3 DEF RetDelete, RetDeleteUnsure, RetInv, DeletionIsSafe
  <2>3. UNCHANGED <<retDocs, retJournal, retRows, retLedger, retPlan>> BY <1>3 DEF RetDelete, RetDeleteUnsure
  <2>4. StoreIdle BY <2>3 DEF StoreIdle, retDocs, retLedger
  <2>5. RetLive \subseteq retObjects' BY <1>0, <2>1, <2>2
  <2>6. retObjects' \subseteq retObjects BY <2>1
  <2> QED BY <2>3, <2>4, <2>5, <2>6, StoreStays
<1>4. ASSUME RetRelease PROVE StoreIsWhole'
  <2>1. PICK w \in retWork : /\ retCharged' = {c \in retCharged : c[2] # w.key}
                             /\ retRows' = {r \in retRows : r.key # w.key}
    BY <1>4 DEF RetRelease
  <2>2. w.key \notin retObjects BY <1>4 DEF RetRelease, RetInv, DeletionIsSafe
  <2>3. UNCHANGED <<retDocs, retJournal, retObjects, retReserved, retPlan>> BY <1>4 DEF RetRelease
  <2>4. StoreIdle BY <2>1, <2>2, <2>3 DEF StoreIdle, retDocs
  <2>5. \A k \in retObjects : k \in RowKeys(retRows) => k \in RowKeys(retRows') BY <2>1, <2>2 DEF RowKeys
  <2> QED BY <1>0, <2>3, <2>4, <2>5, StoreStays
<1> QED BY <1>1, <1>2, <1>3, <1>4 DEF RetSweep

\* A compaction up to its commit: its outputs are reserved before they are written.
LEMMA CompactStore ==
  ASSUME RetInv, RetCompact, ~RetCompactCommit
  PROVE  StoreIsWhole'
<1>0. RetLive \subseteq retObjects /\ SegmentsAreSound BY DEF RetInv, StoreIsWhole
<1>1. ASSUME NEW d \in RetDoc, RetCompactPrepare(d) PROVE StoreIsWhole'
  <2>1. UNCHANGED <<retStatus, retJournal, retRows, retObjects, retCharged>> /\ retPlan = {}
        /\ retReserved \subseteq retReserved'
    BY <1>1 DEF RetCompactPrepare
  <2>2. StoreIdle BY <2>1 DEF StoreIdle
  <2> QED BY <2>1, <2>2, StoreRests
<1>2. ASSUME NEW p \in retPlan PROVE ObjectIsWhole(BaseKey(p.doc, p.seq))
  <2>1. PICK k : k = BaseKey(p.doc, p.seq) OBVIOUS
  <2>2. <<p.doc, k>> \in retReserved /\ \E s \in retSegs : p.doc \in DOMAIN s.cover /\ p.doc \in RetDoc
    BY <2>1 DEF RetInv, PlansAreSound, PlanIsSound
  <2>3. retStatus[p.doc] # "gone" BY <1>0, <2>2 DEF SegmentsAreSound, SegmentIsSound
  <2>4. k[1] = "base" /\ k[2] = p.doc BY <2>1, KeyParts
  <2>5. k \in Reachable BY <2>1 DEF Reachable, RetOutputs
  <2>6. <<p.doc, k>>[2] = k OBVIOUS
  <2>7. Charged(k) BY <2>2, <2>6 DEF Charged
  <2> QED BY <2>1, <2>3, <2>4, <2>5, <2>7 DEF ObjectIsWhole, HoldsBytesOf
<1>3. ASSUME RetCompactPutBase PROVE StoreIsWhole'
  <2>1. PICK p \in retPlan : retObjects' = retObjects \cup {BaseKey(p.doc, p.seq)} /\ retReserved \subseteq retReserved'
    BY <1>3 DEF RetCompactPutBase
  <2>2. UNCHANGED <<retJournal, retStatus, retRows, retPlan, retCharged>> BY <1>3 DEF RetCompactPutBase, retDocs
  <2> QED BY <1>2, <2>1, <2>2, StoreGrows
<1>4. ASSUME NEW p \in retPlan, retGate = "put_root" PROVE ObjectIsWhole(p.root)
  <2>1. <<p.doc, p.root>> \in retReserved /\ p.root = RootKey(retRevision + 1)
    BY <1>4 DEF RetInv, PlansAreSound, PlanIsSound
  <2>2. p.root[1] = "manifest" BY <2>1, KeyParts
  <2>3. p.root \in Reachable BY DEF Reachable, RetOutputs
  <2>4. <<p.doc, p.root>>[2] = p.root OBVIOUS
  <2>5. Charged(p.root) BY <2>1, <2>4 DEF Charged
  <2> QED BY <2>2, <2>3, <2>5 DEF ObjectIsWhole, HoldsBytesOf
<1>5. ASSUME RetCompactPutRoot PROVE StoreIsWhole'
  <2>1. PICK p \in retPlan : retObjects' = retObjects \cup {p.root} BY <1>5 DEF RetCompactPutRoot
  <2>2. UNCHANGED <<retJournal, retStatus, retRows, retPlan, retCharged, retReserved>> /\ retGate = "put_root"
    BY <1>5 DEF RetCompactPutRoot, retDocs, retLedger
  <2> QED BY <1>4, <2>1, <2>2, StoreGrows
<1>6. ASSUME RetCompactFails PROVE StoreIsWhole'
  <2>1. PICK p \in retPlan : \/ retObjects' = retObjects
                             \/ retObjects' = retObjects \cup {BaseKey(p.doc, p.seq)}
                             \/ retObjects' = retObjects \cup {p.root} /\ retGate = "put_root"
    BY <1>6 DEF RetCompactFails
  <2>2. UNCHANGED <<retJournal, retStatus, retRows, retPlan, retCharged, retReserved>>
    BY <1>6 DEF RetCompactFails, retDocs, retLedger
  <2>3. \A k \in retObjects' : k \in retObjects \/ ObjectIsWhole(k) BY <1>2, <1>4, <2>1
  <2>4. retObjects \subseteq retObjects' BY <2>1
  <2> QED BY <2>2, <2>3, <2>4, StoreGrows
<1>7. ASSUME RetCompactSettle PROVE StoreIsWhole'
  <2>1. PICK w \in retWork : /\ retCharged' = retCharged \cup (w.keys \cap retReserved)
                             /\ retReserved' = retReserved \ w.keys
    BY <1>7 DEF RetCompactSettle
  <2>2. UNCHANGED <<retDocs, retJournal, retRows, retObjects, retPlan>> BY <1>7 DEF RetCompactSettle
  <2>3. StoreIdle BY <2>1, <2>2 DEF StoreIdle, retDocs
  <2> QED BY <2>2, <2>3, StoreRests
<1> QED BY <1>1, <1>3, <1>5, <1>6, <1>7 DEF RetCompact

\* The steps of a rewrite before its outputs take over.
LEMMA RewriteStore ==
  ASSUME RetInv, RetRewrite, ~RetRewriteMove
  PROVE  StoreIsWhole'
<1>0. RetLive \subseteq retObjects /\ SegmentsAreSound /\ RetTypes BY DEF RetInv, StoreIsWhole
<1>1. ASSUME NEW r \in retPass, RetRewriteNothing(r) PROVE StoreIsWhole'
  <2>1. PICK s \in retSegs :
          /\ s.key = r.key
          /\ \/ UNCHANGED retRows
             \/ /\ DocsIn(s.key) \subseteq Survivors(s, r)
                /\ retRows' = {q \in retRows : q.key # r.key}
    BY <1>1 DEF RetRewriteNothing
  <2>2. UNCHANGED <<retDocs, retJournal, retObjects, retLedger, retPlan>> BY <1>1 DEF RetRewriteNothing
  <2>3. StoreIdle BY <2>2 DEF StoreIdle, retDocs, retLedger
  <2>4. s.key \in RetLive /\ s.key[1] = "segment" BY <1>0, SegmentFacts
  <2>5. DocsIn(s.key) \subseteq Survivors(s, r) =>
          \A d \in RetDoc : retStatus[d] = "gone" => ~HoldsBytesOf(s.key, d)
    BY <2>4 DEF Survivors, HoldsBytesOf
  <2>6. \A k \in RowKeys(retRows) : k \in RowKeys(retRows') \/ (k = s.key /\ DocsIn(s.key) \subseteq Survivors(s, r))
    BY <2>1 DEF RowKeys
  <2> QED BY <1>0, <2>2, <2>3, <2>4, <2>5, <2>6, StoreStays
<1>2. ASSUME NEW r \in retPass, RetRewriteStage(r) PROVE StoreIsWhole'
  <2>1. \E new : retRows' = Queue(retRows, new) BY <1>2 DEF RetRewriteStage
  <2>2. RowKeys(retRows) \subseteq RowKeys(retRows') BY <2>1, QueueKeeps
  <2>3. UNCHANGED <<retDocs, retJournal, retObjects, retLedger, retPlan>> BY <1>2 DEF RetRewriteStage
  <2>4. StoreIdle BY <2>3 DEF StoreIdle, retDocs, retLedger
  <2> QED BY <2>2, <2>3, <2>4, StoreRests
<1>3. ASSUME RetRewriteReserve PROVE StoreIsWhole'
  <2>1. retReserved \subseteq retReserved' BY <1>3 DEF RetRewriteReserve
  <2>2. UNCHANGED <<retDocs, retJournal, retRows, retObjects, retCharged, retPlan>> BY <1>3 DEF RetRewriteReserve
  <2>3. StoreIdle BY <2>1, <2>2 DEF StoreIdle, retDocs
  <2> QED BY <2>2, <2>3, StoreRests
<1>4. ASSUME RetRewriteWrite \/ RetRewriteFails PROVE StoreIsWhole'
  <2>1. PICK w \in retWork : retObjects \subseteq retObjects' /\ retObjects' \subseteq retObjects \cup Staged(w)
    BY <1>4 DEF RetRewriteWrite, RetRewriteFails
  <2>2. retGate = "write" /\ UNCHANGED <<retDocs, retJournal, retRows, retLedger, retPlan>>
    BY <1>4 DEF RetRewriteWrite, RetRewriteFails
  <2>3. RewriteIsSound(w) BY <2>2 DEF RetInv, PassIsSound, Rewriting
  <2>4. ASSUME NEW k \in Staged(w) PROVE ObjectIsWhole(k)
    <3>1. k \in RowKeys(retRows) /\ <<w.heir, k>> \in retReserved BY <2>2, <2>3 DEF RewriteIsSound
    <3>2. <<w.heir, k>>[2] = k OBVIOUS
    <3> QED BY <3>1, <3>2 DEF ObjectIsWhole, Reachable, Charged
  <2> QED BY <2>1, <2>2, <2>4, StoreGrows DEF retDocs, retLedger
<1>5. ASSUME RetRewriteCharge PROVE StoreIsWhole'
  <2>1. PICK w \in retWork :
           /\ retCharged' = retCharged \cup ({<<w.heir, k>> : k \in Staged(w)} \cap retReserved)
           /\ retReserved' = retReserved \ {<<w.heir, k>> : k \in Staged(w)}
    BY <1>5 DEF RetRewriteCharge
  <2>2. UNCHANGED <<retDocs, retJournal, retRows, retObjects, retPlan>> BY <1>5 DEF RetRewriteCharge
  <2>3. StoreIdle BY <2>1, <2>2 DEF StoreIdle, retDocs
  <2> QED BY <2>2, <2>3, StoreRests
<1> QED BY <1>1, <1>2, <1>3, <1>4, <1>5 DEF RetRewrite

\* The steps that change what is live.
LEMMA ObjectMoves ==
  ASSUME NEW k, ObjectIsWhole(k), UNCHANGED retStatus,
         k \in RetLive => k \in RetLive' \/ k \in RowKeys(retRows'),
         k \in RowKeys(retRows) =>
           \/ k \in RowKeys(retRows')
           \/ k \in RetLive' /\ Charged(k)' /\ \A d \in RetDoc : retStatus[d] = "gone" => ~HoldsBytesOf(k, d),
         \A p \in retPlan : k \in RetOutputs(p) => k \in RetLive' \/ k \in RowKeys(retRows'),
         Charged(k) => Charged(k)',
         k \notin RetLive /\ k \in RetLive' => Charged(k)'
  PROVE  ObjectIsWhole(k)'
<1>1. k \in RetLive \/ k \in RowKeys(retRows) \/ \E p \in retPlan : k \in RetOutputs(p)
  BY DEF ObjectIsWhole, Reachable
<1>2. k \in RetLive' \/ k \in RowKeys(retRows') BY <1>1
<1>3. k \in Reachable' BY <1>2 DEF Reachable
<1>4. Charged(k)' \/ LeftBehind(k)' BY DEF ObjectIsWhole, LeftBehind
<1>5. \A d \in RetDoc : HoldsBytesOf(k, d)' <=> HoldsBytesOf(k, d) BY DEF HoldsBytesOf
<1>6. \A d \in RetDoc : retStatus[d] = "gone" /\ HoldsBytesOf(k, d) => k \in RowKeys(retRows')
  BY DEF ObjectIsWhole
<1> QED BY <1>3, <1>4, <1>5, <1>6 DEF ObjectIsWhole

\* A flush writes a key that is live and charged in the same step.
LEMMA FlushStore ==
  ASSUME RetInv, NEW ds \in SUBSET RetDoc, RetFlush(ds)
  PROVE  StoreIsWhole'
<1>0. RetLive \subseteq retObjects /\ \A k \in retObjects : ObjectIsWhole(k) BY StoreParts DEF RetInv
<1>1. PICK s \in Segments, o \in ds :
        /\ s.key = SegKey(retFlushed + 1, ds)
        /\ \A d \in ds : retStatus[d] = "active"
        /\ retSegs' = retSegs \cup {s} /\ retObjects' = retObjects \cup {s.key}
        /\ retCharged' = retCharged \cup {<<o, s.key>>}
  BY FlushDoes
<1>2. UNCHANGED <<retStatus, retBase, retRoot, retListed, retRows, retReserved>> /\ retPlan = {} BY DEF RetFlush
<1>3. \A k : k \in RetLive' <=> k \in RetLive \/ k = s.key BY <1>1, <1>2 DEF RetLive, KeysOf, BaseKeys
<1>4. <<o, s.key>>[2] = s.key OBVIOUS
<1>5. Charged(s.key)'
  <2>1. PICK k : k = s.key OBVIOUS
  <2>2. Charged(k)' BY <1>1, <1>4, <2>1 DEF Charged
  <2> QED BY <2>1, <2>2
<1>6. ASSUME NEW k \in retObjects PROVE ObjectIsWhole(k)'
  <2>1. Charged(k) => Charged(k)' BY <1>1, <1>2 DEF Charged
  <2>2. k = s.key => Charged(k)' BY <1>1, <1>4 DEF Charged
  <2> QED BY <1>0, <1>2, <1>3, <1>6, <2>1, <2>2, ObjectMoves
<1>7. ASSUME NEW k, k = s.key PROVE ObjectIsWhole(k)'
  <2>1. k \in Reachable' BY <1>3, <1>7 DEF Reachable
  <2>2. Charged(k)' BY <1>1, <1>4, <1>7 DEF Charged
  <2>3. k[1] = "segment" /\ DocsIn(k) = ds BY <1>1, <1>7, KeyParts
  <2>4. \A d \in RetDoc : retStatus'[d] = "gone" => ~HoldsBytesOf(k, d)'
    BY <1>1, <1>2, <2>3 DEF HoldsBytesOf
  <2> QED BY <2>1, <2>2, <2>4 DEF ObjectIsWhole
<1>8. \A k \in retObjects' : ObjectIsWhole(k)' BY <1>1, <1>6, <1>7
<1>9. RetLive' \subseteq retObjects' BY <1>0, <1>1, <1>3
<1> QED BY <1>8, <1>9, StoreMade

\* What a commit replaces is queued in its transaction; its outputs are paid.
LEMMA CommitStore ==
  ASSUME RetInv, Commits
  PROVE  StoreIsWhole'
<1>0. /\ RetLive \subseteq retObjects /\ \A k \in retObjects : ObjectIsWhole(k)
      /\ RetTypes /\ SegmentsAreSound /\ ManifestIsSound
  BY StoreParts DEF RetInv
<1>1. PICK p \in retPlan :
        /\ CommitPlan(p) /\ RetOutputs(p) \subseteq retObjects
        /\ UNCHANGED <<retStatus, retSeq, retFlushed, retObjects>>
        /\ retCharged \subseteq retCharged'
        /\ \A c \in retReserved : c[2] \in retObjects => c \in retCharged' \cup retReserved'
  BY DEF Commits
<1>2. /\ p.doc \in RetDoc /\ p.seq > 0
      /\ \A k : k \in KeysOf(retSegs') <=> k \in KeysOf(retSegs) /\ k \notin p.inputs
      /\ retBase'[p.doc] = p.seq
      /\ \A k \in BaseKeys' : k = BaseKey(p.doc, p.seq) \/ k \in BaseKeys
      /\ \A k \in BaseKeys : k \in BaseKeys' \/ k = BaseKey(p.doc, retBase[p.doc])
      /\ BaseKey(p.doc, p.seq) \in BaseKeys'
      /\ retRoot' = {p.root}
      /\ \A k \in retListed' : k = BaseKey(p.doc, p.seq) \/ k \in KeysOf(retSegs') \/ k \in BaseKeys
      /\ \A k \in RowKeys(retRows) : k \in RowKeys(retRows')
      /\ retBase[p.doc] > 0 => BaseKey(p.doc, retBase[p.doc]) \in RowKeys(retRows')
      /\ \A k \in retRoot : k # p.root => k \in RowKeys(retRows')
      /\ \A k \in p.inputs : k \in RowKeys(retRows')
  BY <1>1, CommitDoes
<1>3. /\ \A k \in BaseKeys : retBase[k[2]] > 0
      /\ RetLive = KeysOf(retSegs) \cup BaseKeys \cup retRoot
  BY <1>0, LiveParts
<1>4. BaseKey(p.doc, retBase[p.doc])[2] = p.doc BY KeyParts
<1>5. RetLive' = KeysOf(retSegs') \cup BaseKeys' \cup retRoot' \cup retListed' BY DEF RetLive
<1>6. \A k \in RetLive : k \in RetLive' \/ k \in RowKeys(retRows') BY <1>2, <1>3, <1>4, <1>5
<1>7. \A k \in RetLive' : k \in RetLive \/ k \in RetOutputs(p) BY <1>2, <1>3, <1>5 DEF RetOutputs
<1>8. \A k \in RetOutputs(p) : k \in RetLive' BY <1>2, <1>5 DEF RetOutputs
<1>9. \A k \in RetOutputs(p) : Charged(k)'
  <2>1. DocumentIsSound(p.doc)' /\ ManifestIsSound' BY <1>2, CompactionKeeps
  <2>2. PICK b : b = BaseKey(p.doc, p.seq) OBVIOUS
  <2>3. Pays(p.doc, BaseKey(p.doc, retBase[p.doc]))' BY <1>2, <2>1 DEF DocumentIsSound
  <2>4. <<p.doc, b>> \in retCharged' \cup retReserved' BY <1>2, <2>2, <2>3 DEF Pays
  <2>5. <<p.doc, b>>[2] = b OBVIOUS
  <2>6. Charged(b)' BY <2>4, <2>5 DEF Charged
  <2>7. PICK r : r = p.root OBVIOUS
  <2>8. \E d \in RetDoc : Pays(d, r)' BY <1>2, <2>1, <2>7 DEF ManifestIsSound
  <2>9. PICK d \in RetDoc : <<d, r>> \in retCharged' \cup retReserved' BY <2>8 DEF Pays
  <2>10. <<d, r>>[2] = r OBVIOUS
  <2>11. Charged(r)' BY <2>9, <2>10 DEF Charged
  <2> QED BY <2>2, <2>6, <2>7, <2>11 DEF RetOutputs
<1>10. \A q \in retPlan : q = p BY DEF RetInv, PlansAreSound
<1>11. ASSUME NEW k \in retObjects PROVE ObjectIsWhole(k)'
  <2>1. Charged(k) => Charged(k)' BY <1>1 DEF Charged
  <2> QED BY <1>0, <1>1, <1>2, <1>6, <1>7, <1>8, <1>9, <1>10, <2>1, ObjectMoves
<1>12. RetLive' \subseteq retObjects' BY <1>0, <1>1, <1>7
<1> QED BY <1>1, <1>11, <1>12, StoreMade

\* An abandoned preparation leaves its outputs to the worker.
LEMMA ReconcileStore ==
  ASSUME RetInv, RetReconcile
  PROVE  StoreIsWhole' \/ Commits
<1>1. /\ retCharged' = retCharged \cup {r \in retReserved : r[2] \in retObjects}
      /\ retReserved' = {} /\ retPlan' = {} /\ retGate' = "free"
      /\ UNCHANGED <<retDocs, retObjects, retPass>>
      /\ retGate \notin Passing \cup Rewriting
  BY DEF RetReconcile, Passing, Rewriting
<1>2. ASSUME UNCHANGED <<retJournal, retRows>>, retPlan = {} PROVE StoreIsWhole'
  <2>1. StoreIdle BY <1>1, <1>2 DEF StoreIdle, retDocs
  <2> QED BY <1>1, <1>2, <2>1, StoreRests
<1>3. ASSUME NEW p \in retPlan, CommitPlan(p), RetOutputs(p) \subseteq retObjects, p.inputs \subseteq KeysOf(retSegs)
      PROVE  Commits
  <2>1. /\ \A c \in retCharged' : c = <<c[1], c[2]>>
        /\ \A c \in retReserved' : c = <<c[1], c[2]>>
    BY <1>1 DEF RetInv, RetTypes
  <2> QED BY <1>1, <1>3, <2>1 DEF Commits, retDocs
<1>4. ASSUME NEW p \in retPlan, retRows' = Queue(retRows, {Row(k, "segment", p.doc) : k \in RetOutputs(p)}),
             UNCHANGED retJournal
      PROVE  StoreIsWhole'
  <2> DEFINE new == {Row(k, "segment", p.doc) : k \in RetOutputs(p)}
  <2>1. \A k \in RetOutputs(p) : k \in RowKeys(new)
    <3> SUFFICES ASSUME NEW k \in RetOutputs(p) PROVE k \in RowKeys(new) OBVIOUS
    <3>1. Row(k, "segment", p.doc) \in new OBVIOUS
    <3>2. Row(k, "segment", p.doc).key = k BY RowParts
    <3> HIDE DEF new
    <3> QED BY <3>1, <3>2 DEF RowKeys
  <2>2. retRows' = Queue(retRows, new) BY <1>4
  <2> HIDE DEF new
  <2>3. RowKeys(retRows') = RowKeys(retRows) \cup RowKeys(new) BY <2>2, QueueKeeps
  <2>4. \A q \in retPlan : q = p BY DEF RetInv, PlansAreSound
  <2>5. \A k : \A q \in retPlan : k \in RetOutputs(q) => k \in RowKeys(retRows') BY <2>1, <2>3, <2>4
  <2>6. StoreIdle BY <1>1, <1>4, <2>5 DEF StoreIdle, retDocs
  <2>7. RowKeys(retRows) \subseteq RowKeys(retRows') BY <2>3
  <2> QED BY <1>1, <2>6, <2>7, StoreRests
<1> QED BY <1>2, <1>3, <1>4 DEF RetReconcile

\* finish_delete takes the charges of a document that claims nothing.
LEMMA FinishStore ==
  ASSUME RetInv, NEW d \in RetDoc, RetFinish(d)
  PROVE  StoreIsWhole'
<1>0. /\ RetLive \subseteq retObjects /\ \A k \in retObjects : ObjectIsWhole(k)
      /\ RetTypes /\ SegmentsAreSound /\ ManifestIsSound /\ \A e \in RetDoc : DocumentIsSound(e)
  BY StoreParts DEF RetInv
<1>1. ~Claims(d) BY <1>0 DEF RetFinish, Unclaimed, Claims, RetTypes
<1>2. /\ retStatus' = [retStatus EXCEPT ![d] = "gone"]
      /\ retCharged' = {c \in retCharged : c[1] # d} /\ retReserved' = {c \in retReserved : c[1] # d}
      /\ UNCHANGED <<retJournal, retRows, retObjects, retPlan>>
  BY DEF RetFinish
<1>3. RetLive' = RetLive BY <1>2 DEF RetLive, KeysOf, BaseKeys, retJournal
<1>4. Reachable' = Reachable BY <1>2, <1>3 DEF Reachable
<1>5. retStatus'[d] = "gone" /\ \A e \in RetDoc : e # d => retStatus'[e] = retStatus[e] BY <1>0, <1>2 DEF RetTypes
<1>6. ASSUME NEW e, e # d, NEW k, Pays(e, k) PROVE Charged(k)'
  <2>1. <<e, k>>[1] = e /\ <<e, k>>[2] = k OBVIOUS
  <2> QED BY <1>2, <1>6, <2>1 DEF Pays, Charged
<1>7. ASSUME NEW k \in RetLive PROVE Charged(k)'
  <2>1. k \in KeysOf(retSegs) \/ k \in BaseKeys \/ k \in retRoot BY <1>0, LiveParts
  <2>2. CASE k \in KeysOf(retSegs)
    <3>1. PICK s \in retSegs : s.key = k BY <2>2 DEF KeysOf
    <3>2. PICK o \in DOMAIN s.cover : <<o, k>> \in retCharged BY <1>0, <3>1 DEF SegmentsAreSound, SegmentIsSound
    <3>3. o # d BY <1>1 DEF Claims
    <3> QED BY <1>6, <3>2, <3>3 DEF Pays
  <2>3. CASE k \in BaseKeys
    <3>1. k[2] \in RetDoc /\ retBase[k[2]] > 0 /\ k = BaseKey(k[2], retBase[k[2]]) BY <1>0, <2>3, LiveParts
    <3>2. PICK e \in RetDoc : e = k[2] BY <3>1
    <3>3. Pays(e, k) BY <1>0, <3>1, <3>2 DEF DocumentIsSound
    <3>4. e # d BY <1>1, <3>1, <3>2 DEF Claims
    <3> QED BY <1>6, <3>3, <3>4
  <2>4. CASE k \in retRoot
    <3>1. PICK e \in RetDoc : Claims(e) /\ Pays(e, k) BY <1>0, <2>4 DEF ManifestIsSound
    <3> QED BY <1>1, <1>6, <3>1
  <2> QED BY <2>1, <2>2, <2>3, <2>4
<1>8. ASSUME NEW k \in retObjects, NEW p \in retPlan, k \in RetOutputs(p)
      PROVE  Charged(k)' /\ ~HoldsBytesOf(k, d)
  <2>1. /\ p.doc # d /\ p.root = RootKey(retRevision + 1)
        /\ <<p.doc, BaseKey(p.doc, p.seq)>> \in retReserved
    BY <1>1 DEF RetInv, PlansAreSound, PlanIsSound, Claims
  <2>2. CASE k = BaseKey(p.doc, p.seq)
    <3>1. k[1] = "base" /\ k[2] = p.doc BY <2>2, KeyParts
    <3>2. Pays(p.doc, k) BY <2>1, <2>2 DEF Pays
    <3> QED BY <1>6, <2>1, <3>1, <3>2 DEF HoldsBytesOf
  <2>3. CASE k = p.root
    <3>1. k[1] = "manifest" /\ k[3] = {} /\ k[2] > retRevision BY <1>0, <2>1, <2>3, KeyParts DEF RetTypes
    <3>2. PICK q \in retPlan : <<q.doc, k>> \in retReserved BY <3>1 DEF RetInv, RootsAreFresh
    <3>3. q = p BY DEF RetInv, PlansAreSound
    <3>4. Pays(p.doc, k) BY <3>2, <3>3 DEF Pays
    <3> QED BY <1>6, <2>1, <3>1, <3>4 DEF HoldsBytesOf
  <2> QED BY <1>8, <2>2, <2>3 DEF RetOutputs
<1>9. ASSUME NEW k \in RetLive, HoldsBytesOf(k, d) PROVE k \in RowKeys(retRows)
  <2>1. k \in KeysOf(retSegs) \/ k \in BaseKeys \/ k \in retRoot BY <1>0, LiveParts
  <2>2. CASE k \in KeysOf(retSegs)
    <3>1. PICK s \in retSegs : s.key = k BY <2>2 DEF KeysOf
    <3>2. k[1] = "segment" BY <1>0, <3>1, SegmentFacts
    <3>3. d \in DocsIn(k) BY <1>9, <3>2 DEF HoldsBytesOf
    <3>4. d \notin DOMAIN s.cover BY <1>1 DEF Claims
    <3> QED BY <1>0, <3>1, <3>3, <3>4 DEF SegmentsAreSound, SegmentIsSound
  <2>3. CASE k \in BaseKeys
    <3>1. k[1] = "base" /\ retBase[k[2]] > 0 BY <1>0, <2>3, LiveParts
    <3> QED BY <1>1, <1>9, <3>1 DEF HoldsBytesOf, Claims
  <2>4. CASE k \in retRoot
    <3>1. k[1] = "manifest" BY <1>0, <2>4, LiveParts
    <3> QED BY <1>9, <3>1 DEF HoldsBytesOf
  <2> QED BY <2>1, <2>2, <2>3, <2>4
<1>10. ASSUME NEW k \in retObjects PROVE ObjectIsWhole(k)'
  <2>1. ObjectIsWhole(k) BY <1>0
  <2>2. k \in RetLive \/ k \in RowKeys(retRows) \/ \E p \in retPlan : k \in RetOutputs(p)
    BY <2>1 DEF ObjectIsWhole, Reachable
  <2>3. k \in RowKeys(retRows) /\ k \notin RetLive => LeftBehind(k)' BY <1>2, <1>3, <1>5 DEF LeftBehind
  <2>4. Charged(k)' \/ LeftBehind(k)' BY <1>7, <1>8, <2>2, <2>3
  <2>5. HoldsBytesOf(k, d) => k \in RowKeys(retRows) BY <1>8, <1>9, <2>2
  <2>6. \A e \in RetDoc : HoldsBytesOf(k, e)' <=> HoldsBytesOf(k, e) BY DEF HoldsBytesOf
  <2>7. \A e \in RetDoc : retStatus'[e] = "gone" /\ HoldsBytesOf(k, e) => k \in RowKeys(retRows)
    BY <1>5, <2>1, <2>5 DEF ObjectIsWhole
  <2> QED BY <1>2, <1>4, <2>1, <2>4, <2>6, <2>7 DEF ObjectIsWhole
<1>11. RetLive' \subseteq retObjects' BY <1>0, <1>2, <1>3
<1> QED BY <1>2, <1>10, <1>11, StoreMade

\* What a retired document gives up is queued, and its charges are handed over.
LEMMA RetireStore ==
  ASSUME RetInv, NEW d \in RetDoc, RetRetire(d)
  PROVE  StoreIsWhole'
<1>0. /\ RetLive \subseteq retObjects /\ \A k \in retObjects : ObjectIsWhole(k)
      /\ RetTypes /\ SegmentsAreSound /\ ManifestIsSound
  BY StoreParts DEF RetInv
<1>1. /\ \A t \in retSegs' : \E s \in retSegs : Shrunk(t, s, d)
      /\ \A s \in retSegs : DOMAIN s.cover # {d} => \E t \in retSegs' : Shrunk(t, s, d)
      /\ \A e, k : e # d /\ <<e, k>> \in retCharged => <<e, k>> \in retCharged'
      /\ \A k : <<d, k>> \in retCharged => \E e : <<e, k>> \in retCharged'
  BY RetireDoes
<1>2. /\ \A k \in RowKeys(retRows) : k \in RowKeys(retRows')
      /\ \A k \in retRoot : k \in RowKeys(retRows')
      /\ retBase[d] > 0 => BaseKey(d, retBase[d]) \in RowKeys(retRows')
      /\ \A s \in retSegs : d \in DOMAIN s.cover => s.key \in RowKeys(retRows')
  BY RetireQueues
<1>3. /\ UNCHANGED <<retDocs, retObjects, retReserved>> /\ retPlan = {}
      /\ retBase' = [retBase EXCEPT ![d] = 0] /\ retRoot' = {} /\ retListed' = {}
  BY DEF RetRetire
<1>4. \A k \in KeysOf(retSegs') : k \in KeysOf(retSegs) BY <1>1 DEF KeysOf, Shrunk
<1>5. \A k \in KeysOf(retSegs) : k \in KeysOf(retSegs') \/ k \in RowKeys(retRows')
  <2> SUFFICES ASSUME NEW s \in retSegs PROVE s.key \in KeysOf(retSegs') \/ s.key \in RowKeys(retRows') BY DEF KeysOf
  <2>1. CASE d \in DOMAIN s.cover BY <1>2, <2>1
  <2>2. CASE d \notin DOMAIN s.cover
    <3>1. PICK t \in retSegs' : Shrunk(t, s, d) BY <1>1, <2>2
    <3> QED BY <3>1 DEF KeysOf, Shrunk
  <2> QED BY <2>1, <2>2
<1>6. \A e \in RetDoc : retBase'[e] = IF e = d THEN 0 ELSE retBase[e] BY <1>0, <1>3 DEF RetTypes
<1>7. BaseKeys' = {BaseKey(e, retBase'[e]) : e \in {f \in RetDoc : retBase'[f] > 0}} BY DEF BaseKeys
<1>8. \A k \in BaseKeys' : k \in BaseKeys BY <1>6, <1>7 DEF BaseKeys
<1>9. \A k \in BaseKeys : k \in BaseKeys' \/ (k = BaseKey(d, retBase[d]) /\ retBase[d] > 0) BY <1>6, <1>7 DEF BaseKeys
<1>10. RetLive = KeysOf(retSegs) \cup BaseKeys \cup retRoot BY <1>0, LiveParts
<1>11. RetLive' = KeysOf(retSegs') \cup BaseKeys' BY <1>3 DEF RetLive
<1>12. \A k \in RetLive : k \in RetLive' \/ k \in RowKeys(retRows') BY <1>2, <1>5, <1>9, <1>10, <1>11
<1>13. \A k \in RetLive' : k \in RetLive BY <1>4, <1>8, <1>10, <1>11
<1>14. ASSUME NEW k \in retObjects, Charged(k) PROVE Charged(k)'
  <2>1. PICK c \in retCharged \cup retReserved : c[2] = k BY <1>14 DEF Charged
  <2>2. c = <<c[1], k>> BY <1>0, <2>1 DEF RetTypes
  <2>3. PICK e : e = c[1] OBVIOUS
  <2>4. CASE c \in retReserved BY <1>3, <2>1, <2>4 DEF Charged
  <2>5. CASE c \in retCharged
    <3>1. <<e, k>> \in retCharged BY <2>2, <2>3, <2>5
    <3>2. PICK f : <<f, k>> \in retCharged' BY <1>1, <3>1
    <3>3. <<f, k>>[2] = k OBVIOUS
    <3> QED BY <3>2, <3>3 DEF Charged
  <2> QED BY <2>1, <2>4, <2>5
<1>15. ASSUME NEW k \in retObjects PROVE ObjectIsWhole(k)'
  BY <1>0, <1>2, <1>3, <1>12, <1>13, <1>14, <1>15, ObjectMoves DEF retDocs
<1>16. RetLive' \subseteq retObjects' BY <1>0, <1>3, <1>13
<1> QED BY <1>3, <1>15, <1>16, StoreMade

\* What a rewrite replaces is queued as its outputs leave the queue and become live.
LEMMA MoveStore ==
  ASSUME RetInv, RetRewriteMove
  PROVE  StoreIsWhole'
<1>0. /\ RetLive \subseteq retObjects /\ \A k \in retObjects : ObjectIsWhole(k)
      /\ RetTypes /\ SegmentsAreSound /\ ManifestIsSound
  BY StoreParts DEF RetInv
<1>1. PICK w \in retWork, s \in retSegs, n \in Segments :
        /\ n.key = w.out /\ w.out = SegKey(s.id, DocsIn(w.out)) /\ DocsIn(w.out) \subseteq DOMAIN s.cover
        /\ \A k \in Staged(w) : k \in retObjects /\ <<w.heir, k>> \in retCharged
        /\ retSegs' = (retSegs \ {s}) \cup {n}
        /\ \/ w.roots = {} /\ UNCHANGED <<retRoot, retListed>>
           \/ w.roots # {} /\ retRoot' = w.roots /\ retListed' = (retListed \ {s.key}) \cup {w.out}
        /\ \A k \in w.roots : k[1] = "manifest"
        /\ \A k \in RowKeys(retRows) : k \in RowKeys(retRows') \/ k \in Staged(w)
        /\ s.key \in RowKeys(retRows')
        /\ \A k \in retRoot : k \in retRoot' \/ k \in RowKeys(retRows')
  BY MoveDoes
<1>2. UNCHANGED <<retDocs, retBase, retObjects, retLedger, retPlan>> /\ retGate \in Rewriting
  BY DEF RetRewriteMove, Rewriting
<1>3. retPlan = {} BY <1>2 DEF RetInv, PlansAreSound
<1>4. Staged(w) = {w.out} \cup w.roots BY DEF Staged
<1>5. BaseKeys' = BaseKeys BY <1>2 DEF BaseKeys
<1>6. \A k : k \in KeysOf(retSegs) => k \in KeysOf(retSegs') \/ k = s.key BY <1>1 DEF KeysOf
<1>7. \A k : k \in KeysOf(retSegs') => k \in KeysOf(retSegs) \/ k = w.out BY <1>1 DEF KeysOf
<1>8. w.out \in KeysOf(retSegs') BY <1>1 DEF KeysOf
<1>9. RetLive = KeysOf(retSegs) \cup BaseKeys \cup retRoot /\ RetLive = KeysOf(retSegs) \cup BaseKeys \cup retRoot \cup retListed
  BY <1>0, LiveParts DEF RetLive
<1>10. RetLive' = KeysOf(retSegs') \cup BaseKeys' \cup retRoot' \cup retListed' BY DEF RetLive
<1>11. \A k \in RetLive' : k \in RetLive \/ k \in Staged(w) BY <1>1, <1>4, <1>5, <1>7, <1>9, <1>10
<1>12. \A k \in RetLive : k \in RetLive' \/ k \in RowKeys(retRows') BY <1>1, <1>5, <1>6, <1>9, <1>10
<1>13. \A k \in Staged(w) : k \in RetLive' BY <1>1, <1>4, <1>8, <1>10
<1>14. \A k : <<w.heir, k>>[2] = k OBVIOUS
<1>15. \A k \in Staged(w) : Charged(k) BY <1>1, <1>14 DEF Charged
<1>16. \A k : Charged(k) => Charged(k)' BY <1>2 DEF Charged, retLedger
<1>17. ASSUME NEW k \in Staged(w), NEW d \in RetDoc, retStatus[d] = "gone" PROVE ~HoldsBytesOf(k, d)
  <2>1. CASE k = w.out
    <3>1. k[1] = "segment" BY <1>1, <2>1, KeyParts
    <3>2. d \notin DOMAIN s.cover BY <1>0, <1>17 DEF SegmentsAreSound, SegmentIsSound
    <3> QED BY <1>1, <2>1, <3>1, <3>2 DEF HoldsBytesOf
  <2>2. CASE k \in w.roots BY <1>1, <2>2 DEF HoldsBytesOf
  <2> QED BY <1>4, <2>1, <2>2
<1>18. ASSUME NEW k \in retObjects PROVE ObjectIsWhole(k)'
  <2>1. UNCHANGED retStatus BY <1>2 DEF retDocs
  <2>2. k \in RowKeys(retRows) =>
           \/ k \in RowKeys(retRows')
           \/ k \in RetLive' /\ Charged(k)' /\ \A d \in RetDoc : retStatus[d] = "gone" => ~HoldsBytesOf(k, d)
    BY <1>1, <1>13, <1>15, <1>16, <1>17
  <2>3. k \notin RetLive /\ k \in RetLive' => Charged(k)' BY <1>11, <1>15, <1>16
  <2>4. Charged(k) => Charged(k)' BY <1>16
  <2>5. ObjectIsWhole(k) /\ (k \in RetLive => k \in RetLive' \/ k \in RowKeys(retRows')) BY <1>0, <1>12
  <2> QED BY <1>3, <2>1, <2>2, <2>3, <2>4, <2>5, ObjectMoves
<1>19. RetLive' \subseteq retObjects' BY <1>0, <1>1, <1>2, <1>11
<1> QED BY <1>2, <1>18, <1>19, StoreMade

\* Every step keeps the store whole.
LEMMA StoreKept ==
  ASSUME RetInv, RetNext
  PROVE  StoreIsWhole'
<1>1. ASSUME NEW d \in RetDoc, RetStartDelete(d) PROVE StoreIsWhole'
  <2>1. UNCHANGED <<retJournal, retRows, retObjects, retLedger, retPlan>> BY <1>1 DEF RetStartDelete
  <2>2. \A e \in RetDoc : retStatus'[e] = "gone" <=> retStatus[e] = "gone"
    BY <1>1 DEF RetStartDelete, RetInv, RetTypes
  <2>3. StoreIdle BY <2>1, <2>2 DEF StoreIdle, retLedger
  <2> QED BY <2>1, <2>3, StoreRests
<1>2. ASSUME RetCrash PROVE StoreIsWhole'
  <2>1. UNCHANGED <<retStatus, retJournal, retRows, retObjects, retLedger, retPlan>> BY <1>2 DEF RetCrash
  <2>2. StoreIdle BY <2>1 DEF StoreIdle, retLedger
  <2> QED BY <2>1, <2>2, StoreRests
<1>3. ASSUME RetCompact PROVE StoreIsWhole'
  <2>1. CASE RetCompactCommit
    <3>2. PICK p \in retPlan : CommitPlan(p) BY <2>1 DEF RetCompactCommit
    <3>3. PlanIsSound(p) /\ retGate = "commit" BY <2>1 DEF RetCompactCommit, RetInv, PlansAreSound
    <3>4. RetOutputs(p) \subseteq retObjects BY <3>3 DEF PlanIsSound, RetOutputs
    <3>5. p.inputs \subseteq KeysOf(retSegs) BY <3>3 DEF PlanIsSound, KeysOf, Retirable
    <3>6. UNCHANGED <<retDocs, retObjects, retLedger, retPass>> /\ retPlan' = {} /\ retGate' = "settle"
      BY <2>1 DEF RetCompactCommit
    <3>7. retGate \notin Passing \cup Rewriting BY <3>3 DEF Passing, Rewriting
    <3>8. /\ \A c \in retCharged' : c = <<c[1], c[2]>>
          /\ \A c \in retReserved' : c = <<c[1], c[2]>>
      BY <3>6 DEF RetInv, RetTypes, retLedger
    <3>9. Commits BY <3>2, <3>4, <3>5, <3>6, <3>7, <3>8 DEF Commits, retDocs, retLedger
    <3> QED BY <3>9, CommitStore
  <2> QED BY <1>3, <2>1, CompactStore
<1> QED BY <1>1, <1>2, <1>3, FlushStore, CommitStore, ReconcileStore, FinishStore, RetireStore, SweepStore,
        RewriteStore, MoveStore DEF RetNext

---------------------------------------------------------------------------
\* The invariant holds of an empty journal.
LEMMA InvariantStarts ==
  ASSUME RetInit
  PROVE  RetInv
<1> USE DEF RetInit
<1>1. RetTypes BY RetAssumption DEF RetTypes, RetStatuses, RetGates
<1>2. SegmentsAreSound /\ \A d \in RetDoc : DocumentIsSound(d) BY DEF SegmentsAreSound, DocumentIsSound
<1>3. ManifestIsSound /\ RowsAreSound(retRows) /\ RowsAreSound(retPass) /\ PlansAreSound
  BY DEF ManifestIsSound, RowsAreSound, OneRowPerKey, PlansAreSound, Rewriting
<1>4. RootsAreFresh /\ DeletionIsSafe /\ PassIsSound
  BY DEF RootsAreFresh, DeletionIsSafe, PassIsSound, Rewriting, Passing
<1>5. BaseKeys = {} BY DEF BaseKeys
<1>6. StoreIsWhole BY <1>5 DEF StoreIsWhole, RetErasureIsQueued, RetLive, KeysOf
<1> QED BY <1>1, <1>2, <1>3, <1>4, <1>6 DEF RetInv

\* The invariant reads nothing but the variables.
LEMMA InvariantStutters ==
  ASSUME RetInv, UNCHANGED retVars
  PROVE  RetInv'
<1>0. UNCHANGED <<retStatus, retSeq, retDue, retFlushed, retSegs, retBase, retRoot, retListed, retRevision, retRows,
                  retObjects, retReserved, retCharged, retPlan, retGate, retWork, retPass, retFails>>
  BY DEF retVars, retDocs, retJournal, retLedger
<1>1. RetTypes' BY <1>0 DEF RetInv, RetTypes
<1>2. BaseKeys' = BaseKeys /\ KeysOf(retSegs') = KeysOf(retSegs) BY <1>0 DEF BaseKeys
<1>3. RetLive' = RetLive BY <1>0, <1>2 DEF RetLive
<1>4. SegmentsAreSound'
  <2>1. \A s \in retSegs : SegmentIsSound(s)' <=> SegmentIsSound(s) BY <1>0 DEF SegmentIsSound
  <2> QED BY <1>0, <2>1 DEF RetInv, SegmentsAreSound
<1>5. ASSUME NEW d \in RetDoc PROVE DocumentIsSound(d)'
  <2>1. DocumentIsSound(d) BY DEF RetInv
  <2> QED BY <1>0, <2>1 DEF DocumentIsSound, Pays
<1>6. ManifestIsSound' BY <1>0, <1>2 DEF RetInv, ManifestIsSound, Claims, Pays
<1>7. \A r : RewriteRowIsSound(r)' <=> RewriteRowIsSound(r) BY <1>0 DEF RewriteRowIsSound
<1>8. RowsAreSound(retRows)' /\ RowsAreSound(retPass)' BY <1>0, <1>7 DEF RetInv, RowsAreSound
<1>9. PlansAreSound'
  <2>1. \A p \in retPlan : PlanIsSound(p)' <=> PlanIsSound(p) BY <1>0, <1>2 DEF PlanIsSound, Retirable
  <2> QED BY <1>0, <2>1 DEF RetInv, PlansAreSound
<1>10. RootsAreFresh' BY <1>0 DEF RetInv, RootsAreFresh
<1>11. DeletionIsSafe' BY <1>0, <1>3 DEF RetInv, DeletionIsSafe
<1>12. PassIsSound'
  <2>1. \A w \in retWork : RewriteIsSound(w)' <=> RewriteIsSound(w) BY <1>0 DEF RewriteIsSound
  <2> QED BY <1>0, <1>2, <2>1 DEF RetInv, PassIsSound
<1>13. StoreIsWhole'
  <2>1. StoreIdle BY <1>0 DEF StoreIdle, retJournal
  <2> QED BY <1>0, <2>1, StoreRests
<1> QED BY <1>1, <1>4, <1>5, <1>6, <1>8, <1>9, <1>10, <1>11, <1>12, <1>13 DEF RetInv

\* The invariant behind StoreAgrees, of every behaviour: any documents, any number of flushes and of crashes,
\* failed puts, failed commits and unsure deletions.
THEOREM RetentionInvariant == RetSpec => []RetInv
<1>1. RetInit => RetInv BY InvariantStarts
<1>2. RetInv /\ [RetNext]_retVars => RetInv'
  <2> SUFFICES ASSUME RetInv, RetNext PROVE RetInv' BY InvariantStutters
  <2>1. RetTypes' /\ SegmentsAreSound' /\ (\A d \in RetDoc : DocumentIsSound(d)') /\ ManifestIsSound' BY JournalKept
  <2>2. RowsAreSound(retRows)' BY RowsKept
  <2>3. RowsAreSound(retPass)' BY PassRowsKept
  <2>4. PlansAreSound' BY PlansKept
  <2>5. RootsAreFresh' BY RootsKept
  <2>6. DeletionIsSafe' BY DeletionKept
  <2>7. PassIsSound' BY PassKept
  <2>8. StoreIsWhole' BY StoreKept
  <2> QED BY <2>1, <2>2, <2>3, <2>4, <2>5, <2>6, <2>7, <2>8 DEF RetInv
<1> QED BY <1>1, <1>2, PTL DEF RetSpec

\* Recovery returns the last sequence when the tail holds it, or the base is up to it.
LEMMA RecoveryIsComplete ==
  ASSUME RetInv
  PROVE  RetRecoversTheLatest
<1>0. RetTypes /\ SegmentsAreSound BY DEF RetInv
<1> SUFFICES ASSUME NEW d \in RetDoc, retStatus[d] = "active" PROVE RetRecovered(d) = retSeq[d]
  BY DEF RetRecoversTheLatest
<1> DEFINE tail == {t \in retSegs : d \in DOMAIN t.cover /\ d \in DocsIn(t.key)}
           found == {retBase[d]} \cup {s.cover[d] : s \in tail}
<1>1. DocumentIsSound(d) BY DEF RetInv
<1>2. retSeq[d] \in Nat /\ retBase[d] \in Nat /\ retBase[d] <= retSeq[d] BY <1>0, <1>1 DEF RetTypes, DocumentIsSound
<1>3. \A s \in retSegs : d \in DOMAIN s.cover =>
         s.cover[d] \in Nat /\ s.cover[d] <= retSeq[d] /\ d \in DocsIn(s.key)
  BY <1>0, SegmentFacts DEF SegmentsAreSound, SegmentIsSound
<1>4. \A x \in found : x \in Nat /\ x <= retSeq[d] BY <1>2, <1>3
<1>5. retSeq[d] \in found
  <2>1. CASE retSeq[d] = retBase[d] BY <2>1
  <2>2. CASE retSeq[d] # retBase[d]
    <3>1. retSeq[d] > retBase[d] BY <1>2, <2>2
    <3>2. PICK s \in retSegs : d \in DOMAIN s.cover /\ s.cover[d] = retSeq[d] BY <1>1, <3>1 DEF DocumentIsSound
    <3>3. s \in tail BY <1>3, <3>2
    <3> QED BY <3>2, <3>3
  <2> QED BY <2>1, <2>2
<1>6. RetRecovered(d) = Max(found) BY DEF RetRecovered
<1> HIDE DEF found, tail
<1>7. \A y \in found : retSeq[d] >= y BY <1>2, <1>4
<1>8. \A x \in found : (\A y \in found : x >= y) => x = retSeq[d] BY <1>2, <1>4, <1>5
<1>9. Max(found) = CHOOSE x \in found : \A y \in found : x >= y BY DEF Max
<1> QED BY <1>5, <1>6, <1>7, <1>8, <1>9

\* Compaction, deletion and rewriting never lose an object that is needed, never leave one that no later pass
\* can reach or nobody pays for, and never take a document back (compact, retire_storage_sql, finish_delete,
\* run_once, rewrite_shared_segment).
THEOREM StoreAgrees == RetSpec => []RetStoreAgrees
<1>1. RetInv => RetStoreAgrees BY RecoveryIsComplete DEF RetInv, StoreIsWhole, RetStoreAgrees
<1> QED BY <1>1, RetentionInvariant, PTL

==============================================================================
