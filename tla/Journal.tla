------------------------------- MODULE Journal -------------------------------
(***************************************************************************)
(* The append path of the journal: the in-memory coordinator that batches  *)
(* records of several rooms, the publication gate, the prepare / write /   *)
(* commit protocol over the SQL catalogue and the object store, and the    *)
(* reconciliation of an operation whose outcome is not known.              *)
(*                                                                         *)
(* A writer is one call of append in flight.  A record is an identity      *)
(* <<storage, sequence>> and a body (the encoded snapshot); its fragments  *)
(* are one record here, because chunked() enqueues them together and seal  *)
(* drains them together.                                                   *)
(***************************************************************************)
EXTENDS Naturals, FiniteSets

CONSTANTS
  Writer,         \* calls of append that may be in flight together
  Room,           \* storage ids
  MaxSequence,    \* bound: sequences a room may use
  Body,           \* encoded snapshots
  SegmentRecords, \* CoordinatorLimits.max_records_per_segment
  QueueRecords,   \* CoordinatorLimits.max_queued_records
  QueueBytes,     \* CoordinatorLimits.max_queued_bytes, a record being one byte
  Faults,         \* which failures the environment may inject
  MaxOperations,  \* bound: operation ids handed out
  Nobody,         \* the gate is free
  NoCall          \* the writer has no call

FaultKinds == {"read", "prepare", "reserve", "put", "commit", "settle",
               "cancel", "crash", "retry"}

Identity == Room \X (1 .. MaxSequence)
Record == [id : Identity, body : Body]
\* A record in memory.  The slot only tells two copies of one record apart:
\* the order of the queue decides nothing but the segment a record lands in.
Entry == [rec : Record, slot : Nat]
Key == Nat \X Nat      \* journal_segment_key: operation id and segment index

ASSUME ConstantsAssumption ==
  /\ MaxSequence \in Nat \ {0} /\ MaxOperations \in Nat \ {0}
  /\ SegmentRecords \in Nat \ {0}
  /\ QueueRecords \in Nat \ {0} /\ QueueBytes \in Nat \ {0}
  /\ Faults \subseteq FaultKinds
  /\ Nobody \notin Writer /\ NoCall \notin Record

VARIABLES
  \* volatile: lost when the process stops
  queue,      \* JournalCoordinator.queued
  pending,    \* JournalRuntime.pending: identities some call has claimed
  gate,       \* JournalRuntime.publication: the writer that holds it
  pc, call,   \* where each call of append is, and what it appends
  round,      \* what the gate holder has sealed: [op, entries, count, cut, written]
  serving,    \* FALSE from a crash until startup has reconciled
  \* durable: the catalogue and the object store
  prep,       \* the unresolved row of journal_preparations, a set of at most one
  segments,   \* journal_segments with their coverage: [key, cover]
  objects,    \* object key -> the entries of the segment stored there
  reserved,   \* object_reservations
  charged,    \* object_accounting
  retired,    \* journal_retirements
  operations, \* operation ids handed out (clock and counter: never reused)
  \* history
  acked       \* records whose append has returned Ok

volatile == <<queue, pending, gate, pc, call, round, serving>>
catalogue == <<prep, segments, retired>>
accounting == <<reserved, charged>>
vars == <<volatile, catalogue, accounting, objects, operations, acked>>

---------------------------------------------------------------------------
Records(entries) == {e.rec : e \in entries}
Ids(entries) == {e.rec.id : e \in entries}
NoRound == [op |-> 0, entries |-> {}, count |-> 0, cut |-> <<>>, written |-> 0]

\* seal drains the whole queue into segments of bounded length; which entry
\* closes a segment depends on encoded sizes, so every such cut is possible.
Sealed(entries, n, c) ==
  \A i \in 1 .. n : LET filled == {e \in entries : c[e] = i}
                    IN filled # {} /\ Cardinality(filled) <= SegmentRecords
Content(r, i) == {e \in r.entries : r.cut[e] = i}
Outputs(r) == {r.op} \X (1 .. r.count)

\* covered_ranges: per storage, from the least to the greatest sequence.
Span(ids) == {id \in Identity :
                \E a, b \in ids : a[1] = id[1] /\ b[1] = id[1] /\ a[2] <= id[2] /\ id[2] <= b[2]}
PlanOf(r) == [op |-> r.op, outputs |-> Outputs(r), cover |-> Span(Ids(r.entries))]

\* sequence_committed, and the entries found for an identity in the segments.
SequenceCommitted(id) == \E s \in segments : id \in s.cover
Stored == UNION {Records(objects[s.key]) : s \in segments}
Copies(id) == UNION {{<<s.key, e>> : e \in {f \in objects[s.key] : f.rec.id = id}} : s \in segments}

LatestSequence(room) ==
  LET covered == {id[2] : id \in {i \in UNION {s.cover : s \in segments} : i[1] = room}}
  IN IF covered = {} THEN 0 ELSE CHOOSE n \in covered : \A m \in covered : m <= n

QueueHas(id) == id \in Ids(queue)
\* (mutant) a failed record stays queued.
RemoveNothing(q, id) == q
RemoveIdentity(q, id) == {e \in q : e.rec.id # id}
\* queued_bytes + executing_bytes: what a sealed round holds still counts.
HeldBytes == Cardinality(queue) + Cardinality(round.entries)
QueueFits == Cardinality(queue) + 1 <= QueueRecords /\ HeldBytes + 1 <= QueueBytes
FreeSlot(r) == CHOOSE n \in 0 .. HeldBytes : [rec |-> r, slot |-> n] \notin queue \cup round.entries

Quiet == {"idle", "ok", "err"}
Holding == {"reconcile", "status", "prepare", "write", "recoverWrite", "recoverCommit", "settle"}
Goto(w, step) == pc' = [pc EXCEPT ![w] = step]

\* (mutant) the claims of the flush are not released.
ReturnKeepingClaims(w, result, ids) ==
  /\ pending' = pending
  /\ Goto(w, result)
  /\ call' = [call EXCEPT ![w] = NoCall]
  /\ acked' = IF result = "ok" THEN acked \cup {call[w]} ELSE acked
  /\ IF gate = w THEN gate' = Nobody /\ round' = NoRound ELSE UNCHANGED <<gate, round>>

\* finish_pending and the return of append, with the guards append owns
\* (the gate, the executing bytes) dropped.
Return(w, result, ids) ==
  /\ pending' = pending \ ids
  /\ Goto(w, result)
  /\ call' = [call EXCEPT ![w] = NoCall]
  /\ acked' = IF result = "ok" THEN acked \cup {call[w]} ELSE acked
  /\ IF gate = w THEN gate' = Nobody /\ round' = NoRound ELSE UNCHANGED <<gate, round>>

---------------------------------------------------------------------------
(* What the catalogue and the object store do.                             *)

\* (mutant) the new descriptors replace the old ones.
CommitSegmentsReplacing(p) ==
  /\ segments' = {[key |-> k, cover |-> p.cover] : k \in p.outputs}
  /\ prep' = prep \ {p}
  /\ UNCHANGED retired

\* commit_segments_sql: descriptors, coverage, head and resolution in one
\* transaction.
CommitSegments(p) ==
  /\ segments' = segments \cup {[key |-> k, cover |-> p.cover] : k \in p.outputs}
  /\ prep' = prep \ {p}
  /\ UNCHANGED retired

\* abort_preparation_sql: every planned key is handed to the deletion worker.
AbortPreparation(p) ==
  /\ retired' = retired \cup p.outputs
  /\ prep' = prep \ {p}
  /\ UNCHANGED segments

\* (mutant) one object of the plan is taken for all of them.
CompleteIfAny(p) == p.outputs \cap DOMAIN objects # {}
Complete(p) == p.outputs \subseteq DOMAIN objects

\* (mutant) an incomplete output set is left for later.
ReconcileOnlyComplete(p) ==
  /\ p.outputs # {}
  /\ Complete(p) /\ CommitSegments(p)

\* reconcile_pending for a flush, when every object read gets an answer: a
\* complete output set is committed, anything less is a known abort.  An empty
\* plan reaches commit_segments_async, which refuses an empty batch.
ReconcilePending(p) ==
  /\ p.outputs # {}
  /\ IF Complete(p) THEN CommitSegments(p) ELSE AbortPreparation(p)

\* (mutant) every reservation of an aborted plan is refunded.
SettleAbortedRefunding(p) ==
  /\ charged' = charged
  /\ reserved' = reserved \ p.outputs

\* settle_aborted_reservations for the keys of an aborted plan.
SettleAborted(p) ==
  /\ charged' = charged \cup (p.outputs \cap reserved \cap DOMAIN objects)
  /\ reserved' = reserved \ p.outputs

\* reconcile_object_reservations: an object that exists is charged, a
\* reservation without an object is refunded.
ReconcileReservations ==
  /\ charged' = charged \cup (reserved \cap DOMAIN objects)
  /\ reserved' = {}

\* commit_object for some of the reserved keys.
Charge(keys) == charged' = charged \cup keys /\ reserved' = reserved \ keys

Store(k, content) ==
  objects' = [key \in DOMAIN objects \cup {k} |-> IF key = k THEN content ELSE objects[key]]

---------------------------------------------------------------------------
(* One call of append, step by step.                                       *)

\* The caller's side.  A room holds session_write across its append, so it has
\* one in flight.
Request(w, r) ==
  /\ serving /\ pc[w] \in Quiet
  /\ operations + Cardinality({v \in Writer : pc[v] \notin Quiet}) < MaxOperations
  /\ \A v \in Writer : pc[v] \notin Quiet => call[v].id[1] # r.id[1]
  /\ Goto(w, "await")
  /\ call' = [call EXCEPT ![w] = r]
  /\ UNCHANGED <<queue, pending, gate, round, serving, catalogue, accounting, objects,
                 operations, acked>>

\* (mutant) a claim names the storage, not the identity.
ClaimStorage(w) ==
  /\ pc[w] = "await"
  /\ call[w].id[1] \notin pending
  /\ pending' = pending \cup {call[w].id[1]}
  /\ Goto(w, "enqueue")
  /\ UNCHANGED <<queue, gate, call, round, serving, catalogue, accounting, objects,
                 operations, acked>>

Claim(w) ==
  /\ pc[w] = "await"
  /\ call[w].id \notin pending
  /\ pending' = pending \cup {call[w].id}
  /\ Goto(w, "enqueue")
  /\ UNCHANGED <<queue, gate, call, round, serving, catalogue, accounting, objects,
                 operations, acked>>

Enqueue(w) ==
  /\ pc[w] = "enqueue"
  /\ QueueHas(call[w].id) \/ QueueFits
  /\ queue' = IF QueueHas(call[w].id) THEN queue ELSE queue \cup {[rec |-> call[w], slot |-> FreeSlot(call[w])]}
  /\ Goto(w, "gate")
  /\ UNCHANGED <<pending, gate, call, round, serving, catalogue, accounting, objects,
                 operations, acked>>

EnqueueBusy(w) ==
  /\ pc[w] = "enqueue"
  /\ ~QueueHas(call[w].id) /\ ~QueueFits
  /\ Return(w, "err", {call[w].id})
  /\ UNCHANGED <<queue, serving, catalogue, accounting, objects, operations>>

TakeGate(w) ==
  /\ pc[w] = "gate" /\ gate = Nobody
  /\ gate' = w
  /\ Goto(w, "reconcile")
  /\ UNCHANGED <<queue, pending, call, round, serving, catalogue, accounting, objects,
                 operations, acked>>

\* An earlier operation left a preparation unresolved: finish it first.
ReconcileFirst(w) ==
  /\ pc[w] = "reconcile"
  /\ IF prep = {} THEN UNCHANGED <<catalogue, accounting>>
     ELSE /\ \E p \in prep : ReconcilePending(p)
          /\ ReconcileReservations
  /\ Goto(w, "status")
  /\ UNCHANGED <<queue, pending, gate, call, round, serving, objects, operations, acked>>

\* Reading the preparation, an object or the reservations failed, or the plan
\* is empty.  The operation may have been resolved before the failing read.
ReconcileFirstFails(w) ==
  /\ pc[w] = "reconcile"
  /\ \/ "read" \in Faults /\ UNCHANGED catalogue
     \/ "read" \in Faults /\ \E p \in prep : ReconcilePending(p)
     \/ (\E p \in prep : p.outputs = {}) /\ UNCHANGED catalogue
  /\ queue' = RemoveIdentity(queue, call[w].id)
  /\ Return(w, "err", {call[w].id})
  /\ UNCHANGED <<serving, accounting, objects, operations>>

\* committed_payload_status when the sequence is covered: the same payload is
\* a no-op, a different one is refused.
AlreadyCommitted(w) ==
  /\ pc[w] = "status"
  /\ SequenceCommitted(call[w].id)
  /\ Cardinality(Copies(call[w].id)) = 1
  /\ queue' = RemoveIdentity(queue, call[w].id)
  /\ Return(w, IF call[w] \in Stored THEN "ok" ELSE "err", {call[w].id})
  /\ UNCHANGED <<serving, catalogue, accounting, objects, operations>>

\* The status could not be read, or the sequence is covered and its fragments
\* are not exactly one record (Corrupt).  The record stays queued.
StatusFails(w) ==
  /\ pc[w] = "status"
  /\ \/ "read" \in Faults
     \/ SequenceCommitted(call[w].id) /\ Cardinality(Copies(call[w].id)) # 1
  /\ Return(w, "err", {call[w].id})
  /\ UNCHANGED <<queue, serving, catalogue, accounting, objects, operations>>

\* Not committed: seal the whole queue, whoever the records belong to.
Seal(w) ==
  /\ pc[w] = "status"
  /\ ~SequenceCommitted(call[w].id)
  /\ operations' = operations + 1
  /\ \E n \in 0 .. Cardinality(queue) : \E c \in [queue -> 1 .. n] :
       /\ Sealed(queue, n, c)
       /\ round' = [op |-> operations + 1, entries |-> queue, count |-> n, cut |-> c,
                    written |-> 0]
  /\ queue' = {}
  /\ Goto(w, "prepare")
  /\ UNCHANGED <<pending, gate, call, serving, catalogue, accounting, objects, acked>>

Prepare(w) ==
  /\ pc[w] = "prepare"
  /\ prep = {}
  /\ prep' = {PlanOf(round)}
  /\ Goto(w, "write")
  /\ UNCHANGED <<queue, pending, gate, call, round, serving, segments, retired, accounting,
                 objects, operations, acked>>

\* state_async or prepare_async failed, before or after the row was written:
\* the sealed records go back to the front of the queue, the caller's too.
PrepareFails(w) ==
  /\ pc[w] = "prepare"
  /\ "prepare" \in Faults
  /\ \/ UNCHANGED prep
     \/ prep = {} /\ prep' = {PlanOf(round)}
  /\ queue' = queue \cup round.entries
  /\ Return(w, "err", Ids(round.entries))
  /\ UNCHANGED <<serving, segments, retired, accounting, objects, operations>>

\* write_segments, one segment: reserve, then put.
WriteSegment(w) ==
  /\ pc[w] = "write" /\ round.written < round.count
  /\ LET k == <<round.op, round.written + 1>>
     IN /\ Store(k, Content(round, round.written + 1))
        /\ reserved' = reserved \cup {k}
  /\ round' = [round EXCEPT !.written = @ + 1]
  /\ UNCHANGED <<queue, pending, gate, pc, call, serving, catalogue, charged, operations,
                 acked>>

ReserveFails(w) ==
  /\ pc[w] = "write" /\ round.written < round.count
  /\ "reserve" \in Faults
  /\ Goto(w, "recoverWrite")
  /\ UNCHANGED <<queue, pending, gate, call, round, serving, catalogue, accounting, objects,
                 operations, acked>>

\* The store may have accepted the object before reporting an error.
PutFails(w) ==
  /\ pc[w] = "write" /\ round.written < round.count
  /\ "put" \in Faults
  /\ LET k == <<round.op, round.written + 1>>
     IN /\ reserved' = reserved \cup {k}
        /\ Store(k, Content(round, round.written + 1)) \/ UNCHANGED objects
  /\ Goto(w, "recoverWrite")
  /\ UNCHANGED <<queue, pending, gate, call, round, serving, catalogue, charged, operations,
                 acked>>

Written(w) == pc[w] = "write" /\ round.written = round.count

Commit(w) ==
  /\ Written(w) /\ round.count > 0
  /\ \E p \in prep : CommitSegments(p)
  /\ Goto(w, "settle")
  /\ UNCHANGED <<queue, pending, gate, call, round, serving, accounting, objects, operations,
                 acked>>

\* (mutant) a failed commit is taken for a done one.
CommitFailsIgnored(w) ==
  /\ Written(w)
  /\ "commit" \in Faults /\ UNCHANGED catalogue
  /\ Goto(w, "settle")
  /\ UNCHANGED <<queue, pending, gate, call, round, serving, accounting, objects, operations,
                 acked>>

\* An empty batch is refused; any other failure may follow the commit.
CommitFails(w) ==
  /\ Written(w)
  /\ \/ round.count = 0 /\ UNCHANGED catalogue
     \/ "commit" \in Faults /\ UNCHANGED catalogue
     \/ "commit" \in Faults /\ round.count > 0 /\ \E p \in prep : CommitSegments(p)
  /\ Goto(w, "recoverCommit")
  /\ UNCHANGED <<queue, pending, gate, call, round, serving, accounting, objects, operations,
                 acked>>

\* recover_failed_flush found the operation committed.  A failed write reports
\* its error all the same.
RecoverCommitted(w) ==
  /\ pc[w] \in {"recoverWrite", "recoverCommit"}
  /\ \/ prep = {} /\ UNCHANGED catalogue
     \/ \E p \in prep : p.outputs # {} /\ Complete(p) /\ CommitSegments(p)
  /\ Return(w, IF pc[w] = "recoverCommit" THEN "ok" ELSE "err", Ids(round.entries))
  /\ UNCHANGED <<queue, serving, accounting, objects, operations>>

\* (mutant) the whole sealed round is dropped.
RecoverAbortedDropping(w) ==
  /\ pc[w] \in {"recoverWrite", "recoverCommit"}
  /\ \E p \in prep : ~Complete(p) /\ AbortPreparation(p) /\ SettleAborted(p)
  /\ Return(w, "err", Ids(round.entries))
  /\ UNCHANGED <<queue, serving, objects, operations>>

\* recover_failed_flush proved the abort: the other calls' records are queued
\* again, the failed one is dropped.
RecoverAborted(w) ==
  /\ pc[w] \in {"recoverWrite", "recoverCommit"}
  /\ \E p \in prep : ~Complete(p) /\ AbortPreparation(p) /\ SettleAborted(p)
  /\ queue' = RemoveIdentity(queue \cup round.entries, call[w].id)
  /\ Return(w, "err", Ids(round.entries))
  /\ UNCHANGED <<serving, objects, operations>>

\* recover_failed_flush could not tell: the sealed records are dropped.
RecoverFails(w) ==
  /\ pc[w] \in {"recoverWrite", "recoverCommit"}
  /\ \/ "read" \in Faults /\ UNCHANGED catalogue
     \/ "read" \in Faults /\ \E p \in prep : ReconcilePending(p)
     \/ (\E p \in prep : p.outputs = {}) /\ UNCHANGED catalogue
  /\ Return(w, "err", Ids(round.entries))
  /\ UNCHANGED <<queue, serving, accounting, objects, operations>>

\* commit_object for each segment.
Settle(w) ==
  /\ pc[w] = "settle"
  /\ Charge(Outputs(round) \cap reserved)
  /\ Return(w, "ok", Ids(round.entries))
  /\ UNCHANGED <<queue, serving, catalogue, objects, operations>>

\* The head is durable, the accounting failed at some segment: reconcile the
\* reservations, as far as that goes.
SettleFails(w) ==
  /\ pc[w] = "settle"
  /\ "settle" \in Faults
  /\ ReconcileReservations \/ \E keys \in SUBSET (Outputs(round) \cap reserved) : Charge(keys)
  /\ Return(w, "err", Ids(round.entries))
  /\ UNCHANGED <<queue, serving, catalogue, objects, operations>>

\* The future is dropped at an await.  Its guards release the gate and the
\* sealed round; nothing releases its identities in pending.  The put or the
\* commit it was waiting for may still land.
Cancel(w) ==
  /\ "cancel" \in Faults
  /\ pc[w] \notin Quiet
  /\ Goto(w, "idle")
  /\ call' = [call EXCEPT ![w] = NoCall]
  /\ IF gate = w THEN gate' = Nobody /\ round' = NoRound ELSE UNCHANGED <<gate, round>>
  /\ \/ UNCHANGED <<catalogue, objects, reserved>>
     \/ /\ pc[w] = "prepare" /\ prep = {} /\ prep' = {PlanOf(round)}
        /\ UNCHANGED <<segments, retired, objects, reserved>>
     \/ /\ pc[w] = "write" /\ round.written < round.count
        /\ Store(<<round.op, round.written + 1>>, Content(round, round.written + 1))
        /\ reserved' = reserved \cup {<<round.op, round.written + 1>>}
        /\ UNCHANGED catalogue
     \/ /\ Written(w) /\ round.count > 0
        /\ \E p \in prep : CommitSegments(p)
        /\ UNCHANGED <<objects, reserved>>
  /\ UNCHANGED <<queue, pending, serving, charged, operations, acked>>

\* The process stops: memory is lost, the catalogue and the store stay.
Crash ==
  /\ "crash" \in Faults /\ serving
  /\ serving' = FALSE
  /\ queue' = {} /\ pending' = {} /\ gate' = Nobody /\ round' = NoRound
  /\ pc' = [w \in Writer |-> "idle"] /\ call' = [w \in Writer |-> NoCall]
  /\ UNCHANGED <<catalogue, accounting, objects, operations, acked>>

\* Startup reconciles before it serves, and dies if it cannot.
Startup ==
  /\ ~serving
  /\ \/ prep = {} /\ UNCHANGED catalogue
     \/ \E p \in prep : ReconcilePending(p)
  /\ ReconcileReservations
  /\ serving' = TRUE
  /\ UNCHANGED <<queue, pending, gate, pc, call, round, objects, operations, acked>>

---------------------------------------------------------------------------
Init ==
  /\ queue = {} /\ pending = {} /\ gate = Nobody /\ round = NoRound /\ serving = TRUE
  /\ pc = [w \in Writer |-> "idle"] /\ call = [w \in Writer |-> NoCall]
  /\ prep = {} /\ segments = {} /\ retired = {}
  /\ objects = [k \in {} |-> {}] /\ reserved = {} /\ charged = {}
  /\ operations = 0 /\ acked = {}

\* A failure the environment injects on a call.
Fault(w) ==
  PrepareFails(w) \/ ReserveFails(w) \/ PutFails(w) \/ SettleFails(w)

\* The steps a call takes by itself.
Step(w) ==
  \/ Claim(w) \/ Enqueue(w) \/ EnqueueBusy(w) \/ TakeGate(w)
  \/ ReconcileFirst(w) \/ ReconcileFirstFails(w)
  \/ AlreadyCommitted(w) \/ StatusFails(w) \/ Seal(w)
  \/ Prepare(w) \/ WriteSegment(w) \/ Commit(w) \/ CommitFails(w)
  \/ RecoverCommitted(w) \/ RecoverAborted(w) \/ RecoverFails(w)
  \/ Settle(w)

\* The clients: an append of an identity always carries the same bytes (BodyOf),
\* as the retry contract of append_with_epoch supposes, and asks for a sequence
\* that is not committed yet unless the client retries.
CONSTANT BodyOf

ASSUME ClientAssumption == BodyOf \in [Identity -> Body]

Next ==
  \/ \E w \in Writer, id \in Identity :
       /\ "retry" \in Faults \/ ~SequenceCommitted(id)
       /\ Request(w, [id |-> id, body |-> BodyOf[id]])
  \/ \E w \in Writer : Step(w) \/ Fault(w) \/ Cancel(w)
  \/ Crash
  \/ Startup

Spec == Init /\ [][Next]_vars

\* A call keeps running, startup is retried by the supervisor; the gate is a
\* FIFO mutex and finish_pending wakes every call that waits for an identity, so
\* a call that could go on again and again does.
FairSpec ==
  /\ Spec
  /\ \A w \in Writer : SF_vars(Step(w))
  /\ WF_vars(Startup)

---------------------------------------------------------------------------
TypeOK ==
  /\ queue \subseteq Entry /\ pending \subseteq Identity
  /\ gate \in Writer \cup {Nobody} /\ serving \in BOOLEAN
  /\ pc \in [Writer -> Quiet \cup {"await", "enqueue", "gate"} \cup Holding]
  /\ call \in [Writer -> Record \cup {NoCall}]
  /\ round.op \in Nat /\ round.entries \subseteq Entry
  /\ round.count \in Nat /\ round.written \in Nat
  /\ \A p \in prep : p.op \in Nat /\ p.outputs \subseteq Key /\ p.cover \subseteq Identity
  /\ \A s \in segments : s.key \in Key /\ s.cover \subseteq Identity
  /\ DOMAIN objects \subseteq Key /\ \A k \in DOMAIN objects : objects[k] \subseteq Entry
  /\ reserved \subseteq Key /\ charged \subseteq Key /\ retired \subseteq Key
  /\ operations \in Nat /\ acked \subseteq Record

\* append answers Ok only for a record that a committed segment holds: what the
\* room turns into a y-ack is on disk.
AckedIsDurable == acked \subseteq Stored

\* A cursor has at most one durable record.  recover_latest skips an equal copy
\* and reports a different one as corrupt; committed_payload_status reports both,
\* so with two copies no append at that cursor can ever be answered.
OneRecordPerCursor == \A id \in Identity : Cardinality(Copies(id)) <= 1

\* Every stored object is paid for: a put that failed after landing, a crash or
\* an abort leaves it reserved or charged until the deletion worker removes it.
ObjectsAreCharged == DOMAIN objects \subseteq reserved \cup charged

\* A committed descriptor names an object that exists and that no abort has
\* handed to the deletion worker.
CommittedNotRetired ==
  \A s \in segments : s.key \in DOMAIN objects /\ s.key \notin retired

\* A preparation can be reconciled once its objects can be read: it names the
\* objects whose presence decides it.
PreparationResolvable == \A p \in prep : p.outputs # {}

\* No step un-commits: a durable record stays durable through aborts,
\* reconciliation, crashes and restarts.
DurableForever == [][Stored \subseteq Stored']_vars

\* Every append returns.
AppendReturns == \A w \in Writer : pc[w] \notin Quiet ~> pc[w] \in Quiet

\* A crash with an unresolved preparation does not keep the deployment down.
ServesAgain == ~serving ~> serving

Abstract == INSTANCE DurableLog WITH log <- Stored, answered <- acked
ImplementsDurableLog == Abstract!Spec
=============================================================================
