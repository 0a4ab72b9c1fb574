--------------------------- MODULE RoomJournalProofs ---------------------------
(***************************************************************************)
(* What a client was told is saved would be recovered, and a clean room is *)
(* on disk, proved for any number of rooms and edits.  The rooms are       *)
(* clients of the journal as JournalCursorProofs knows them: one append of *)
(* a room in flight, at a cursor past everything committed.  On top of its *)
(* invariants the records of a room are newer and larger in the order they *)
(* are committed, also the ones a crash left prepared.                     *)
(***************************************************************************)
EXTENDS RoomJournal, JournalCursorProofs

StoredOf(r) == {q \in Stored : q.id[1] = r}
\* What recovery finds: the newest record has every edit of the older ones.
Latest(r, q) == q \in StoredOf(r) /\ \A p \in StoredOf(r) : p.id[2] <= q.id[2] /\ p.body \subseteq q.body
Ahead(q, x) == q.id[2] < x.id[2] /\ q.body \subseteq x.body
\* The records a reconciliation may commit.
Prepared == UNION {Records(objects[k]) : k \in (UNION {p.outputs : p \in prep}) \cap DOMAIN objects}

RoomTypes ==
  /\ generation \in [Room -> Nat] /\ doc \in [Room -> SUBSET Edit] /\ dirty \in [Room -> BOOLEAN]
  /\ DOMAIN snapshot = Room /\ DOMAIN saved = Room
  /\ \A r \in Room : snapshot[r] = NoSnapshot \/ snapshot[r] \in [body : SUBSET Edit, generation : Nat]
  /\ Stored \subseteq Record /\ Prepared \subseteq Record

StorageOrdered ==
  /\ \A r \in Room : StoredOf(r) = {} \/ \E q \in StoredOf(r) : Latest(r, q)
  /\ \A x \in Prepared : \A q \in StoredOf(x.id[1]) : Ahead(q, x)
  /\ \A x, y \in Prepared : x.id[1] = y.id[1] => x = y

Writing ==
  /\ \A r \in Room : pc[r] \notin Quiet =>
       /\ call[r].id[1] = r /\ snapshot[r] # NoSnapshot /\ call[r].body = snapshot[r].body
       /\ \A q \in StoredOf(r) : q = call[r] \/ Ahead(q, call[r])
  /\ \A r \in Room : snapshot[r] # NoSnapshot =>
       /\ serving /\ pc[r] # "idle" /\ snapshot[r].body \subseteq doc[r]
       /\ snapshot[r].generation <= generation[r]
       /\ ~EditedMeanwhile(r) \/ ~dirty[r] => doc[r] = snapshot[r].body
       /\ pc[r] = "ok" => \E q \in StoredOf(r) : Latest(r, q) /\ q.body = snapshot[r].body

InMemory ==
  /\ serving => \A r \in Room : \A q \in StoredOf(r) : q.body \subseteq doc[r]
  /\ \A r \in Room : \A e \in saved[r] : \E q \in StoredOf(r) : e \in q.body
  /\ \A r \in Room : serving /\ ~dirty[r] =>
       \/ StoredOf(r) = {} /\ doc[r] = {}
       \/ \E q \in StoredOf(r) : Latest(r, q) /\ doc[r] = q.body

Rooms == RoomTypes /\ StorageOrdered /\ Writing /\ InMemory

---------------------------------------------------------------------------
(* Recovery finds the latest record.                                       *)

LEMMA StoredOnce ==
  ASSUME Unique, NEW p \in Stored, NEW q \in Stored, p.id = q.id
  PROVE  p = q
BY DEF Stored, Records, Unique, OneCopy, CommittedKeys

RecoveredRight ==
  \A r \in Room :
    /\ StoredOf(r) = {} => Recovered(r) = {} /\ LatestSequence(r) = 0
    /\ \A q \in StoredOf(r) : Latest(r, q) => Recovered(r) = q.body /\ LatestSequence(r) = q.id[2]

StoredTyped == Stored \subseteq Record

\* With one record for a cursor, a restart recovers the latest state of a room.
LEMMA RecoveryIsLatest == Once /\ StoredTyped => RecoveredRight
<1> SUFFICES ASSUME Once, StoredTyped, NEW r \in Room
             PROVE  /\ StoredOf(r) = {} => Recovered(r) = {} /\ LatestSequence(r) = 0
                    /\ \A q \in StoredOf(r) :
                         Latest(r, q) => Recovered(r) = q.body /\ LatestSequence(r) = q.id[2]
  BY DEF RecoveredRight
<1> DEFINE covers == UNION {s.cover : s \in segments}
           covered == {id[2] : id \in {i \in covers : i[1] = r}}
<1>1. covers = StoredIds
  BY StoredIdsAre DEF Once, Exact, Covered, Ids
<1>2. covered = {q.id[2] : q \in StoredOf(r)}
  BY <1>1 DEF StoredIds, StoredOf
<1>3. LatestSequence(r) = IF covered = {} THEN 0 ELSE CHOOSE n \in covered : \A m \in covered : m <= n
  BY DEF LatestSequence
<1> HIDE DEF covered, covers
<1>4. \A q \in StoredOf(r) : q \in Stored /\ q.id[1] = r /\ q.id[2] \in Nat \ {0} /\ q.id = <<r, q.id[2]>>
  BY ConstantsAssumption DEF StoredOf, StoredTyped, Record, Identity
<1>5. CASE StoredOf(r) = {}
  <2>1. LatestSequence(r) = 0
    BY <1>2, <1>3, <1>5
  <2>2. {q \in Stored : q.id = <<r, LatestSequence(r)>>} = {}
    BY <1>5 DEF StoredOf
  <2>. QED  BY <1>5, <2>1, <2>2 DEF Recovered
<1>6. ASSUME NEW q \in StoredOf(r), Latest(r, q)
      PROVE  Recovered(r) = q.body /\ LatestSequence(r) = q.id[2]
  <2>1. q.id[2] \in covered /\ \A m \in covered : m <= q.id[2]
    BY <1>2, <1>6 DEF Latest
  <2>2. \A n \in covered : n \in Nat
    BY <1>2, <1>4
  <2>3. LatestSequence(r) = CHOOSE n \in covered : \A m \in covered : m <= n
    BY <1>3, <2>1
  <2>4. LatestSequence(r) \in covered /\ \A m \in covered : m <= LatestSequence(r)
    BY <2>1, <2>3
  <2>5. LatestSequence(r) = q.id[2]
    BY <1>4, <2>1, <2>2, <2>4
  <2>6. {p \in Stored : p.id = <<r, LatestSequence(r)>>} = {q}
    BY <1>4, <2>5, StoredOnce DEF Once
  <2>. QED  BY <2>5, <2>6 DEF Recovered
<1>. QED  BY <1>5, <1>6

---------------------------------------------------------------------------
(* What a step of the journal does to the records.                         *)

\* A call that takes a step is the only one that moves; it is not forgotten, and
\* it answers Ok for what is stored.
LEMMA StepEffect ==
  ASSUME Durable, Once, NEW w \in Writer, Step(w) \/ Fault(w), [CursorNext]_vars
  PROVE  /\ serving /\ serving'
         /\ \A v \in Writer : v # w => pc'[v] = pc[v] /\ call'[v] = call[v]
         /\ pc[w] \notin Quiet /\ pc'[w] # "idle"
         /\ pc'[w] \notin Quiet => call'[w] = call[w]
         /\ pc'[w] = "ok" => call[w] \in Stored'
<1> USE DEF Once
<1>1. Stored \subseteq Stored'
  <2>1. [AnyNext]_vars
    BY DEF CursorNext, AnyNext
  <2>. QED  BY <2>1, StorageGrows DEF Stored, Records
<1>2. DOMAIN pc = Writer /\ DOMAIN call = Writer /\ (~serving => pc[w] \in Quiet)
  BY DEF Durable, GateHeld, Asked
<1>3. ASSUME NEW s, Goto(w, s), call' = call, serving' = serving, pc[w] \notin Quiet,
             s \notin Quiet
      PROVE  /\ serving /\ serving'
             /\ \A v \in Writer : v # w => pc'[v] = pc[v] /\ call'[v] = call[v]
             /\ pc[w] \notin Quiet /\ pc'[w] = s /\ call'[w] = call[w]
  BY <1>2, <1>3 DEF Goto
<1>4. ASSUME NEW result \in {"ok", "err"}, NEW ids, Return(w, result, ids), serving' = serving,
             pc[w] \notin Quiet, result = "ok" => call[w] \in Stored'
      PROVE  /\ serving /\ serving'
             /\ \A v \in Writer : v # w => pc'[v] = pc[v] /\ call'[v] = call[v]
             /\ pc[w] \notin Quiet /\ pc'[w] = result
             /\ pc'[w] = "ok" => call[w] \in Stored'
  BY <1>2, <1>4 DEF Return, Goto
<1>5. CASE Claim(w) \/ Enqueue(w) \/ TakeGate(w) \/ ReconcileFirst(w) \/ Seal(w) \/ Prepare(w)
  BY <1>3, <1>5 DEF Claim, Enqueue, TakeGate, ReconcileFirst, Seal, Prepare, Quiet
<1>6. CASE ReserveFails(w) \/ PutFails(w) \/ Commit(w) \/ CommitFails(w)
  BY <1>3, <1>6 DEF ReserveFails, PutFails, Commit, CommitFails, Written, Quiet
<1>7. CASE WriteSegment(w)
  BY <1>2, <1>7 DEF WriteSegment, Quiet
<1>8. CASE EnqueueBusy(w) \/ ReconcileFirstFails(w) \/ StatusFails(w) \/ RecoverAborted(w)
           \/ RecoverFails(w) \/ PrepareFails(w) \/ SettleFails(w)
  BY <1>4, <1>8
     DEF EnqueueBusy, ReconcileFirstFails, StatusFails, RecoverAborted, RecoverFails, PrepareFails,
         SettleFails, Quiet
<1>9. CASE AlreadyCommitted(w)
  <2>1. PICK result \in {"ok", "err"} :
          /\ Return(w, result, {call[w].id})
          /\ result = "ok" => call[w] \in Stored
    BY <1>9 DEF AlreadyCommitted
  <2>. QED  BY <1>1, <1>4, <1>9, <2>1 DEF AlreadyCommitted, Quiet
<1>10. CASE Settle(w)
  <2>1. call[w] \in Stored
    BY <1>10 DEF Settle, RoundHeld, Sealing
  <2>. QED  BY <1>1, <1>4, <1>10, <2>1 DEF Settle, Quiet
<1>11. CASE RecoverCommitted(w)
  <2>1. pc[w] \in {"recoverWrite", "recoverCommit"} /\ pc[w] \in Sealing /\ call[w] \in Records(round.entries)
    BY <1>11 DEF RecoverCommitted, RoundHeld, Sealing
  <2>2. CASE prep = {}
    BY <1>1, <1>4, <1>11, <2>1, <2>2 DEF RecoverCommitted, RoundHeld, Sealing, Quiet
  <2>3. CASE \E p \in prep : Complete(p) /\ CommitSegments(p)
    <3>1. prep = {PlanOf(round)}
      BY <2>1, <2>3 DEF RoundHeld
    <3>2. Records(round.entries) \subseteq Stored'
      BY <1>11, <2>1, <2>3, <3>1, CommitStores DEF RecoverCommitted
    <3>. QED  BY <1>4, <1>11, <2>1, <3>2 DEF RecoverCommitted, Quiet
  <2>. QED  BY <1>11, <2>2, <2>3 DEF RecoverCommitted
<1>. QED
  BY <1>5, <1>6, <1>7, <1>8, <1>9, <1>10, <1>11 DEF Step, Fault

\* Storage gains what was prepared; what is prepared gains records of the round.
LEMMA PreparedNext ==
  ASSUME NothingLeftBehind, Durable, Once, [CursorNext]_vars
  PROVE  /\ \A q \in Stored' : q \in Stored \/ q \in Prepared
         /\ \A x \in Prepared' : x \in Prepared \/ (x \in Records(round.entries) /\ x.id \notin StoredIds)
         /\ Prepared' # {} => Stored' = Stored
<1> USE DEF Once
<1> DEFINE Good == /\ \A q \in Stored' : q \in Stored \/ q \in Prepared
                   /\ \A x \in Prepared' : \/ x \in Prepared
                                           \/ x \in Records(round.entries) /\ x.id \notin StoredIds
                   /\ Prepared' # {} => Stored' = Stored
<1>1. ASSUME UNCHANGED <<prep, segments, objects>>
      PROVE  Good
  BY <1>1 DEF Stored, Prepared, Records
<1>2. ASSUME NEW p \in prep, Complete(p), CommitSegments(p), UNCHANGED objects
      PROVE  Good
  <2>1. prep' = {}
    BY <1>2 DEF CommitSegments, Durable, Separated
  <2>2. \A s \in segments' : s \in segments \/ s.key \in p.outputs
    BY <1>2 DEF CommitSegments
  <2>3. \A k \in p.outputs : k \in (UNION {o.outputs : o \in prep}) \cap DOMAIN objects
    BY <1>2 DEF Complete
  <2>4. \A q \in Stored' : q \in Stored \/ q \in Prepared
    BY <1>2, <2>2, <2>3 DEF Stored, Prepared
  <2>5. Prepared' = {}
    BY <2>1 DEF Prepared
  <2>. QED  BY <2>4, <2>5
<1>3. ASSUME NEW p \in prep, AbortPreparation(p), UNCHANGED objects
      PROVE  Good
  <2>1. prep' = {} /\ segments' = segments
    BY <1>3 DEF AbortPreparation, Durable, Separated
  <2>. QED  BY <1>3, <2>1 DEF Stored, Prepared
<1>4. ASSUME NEW w \in Writer, Prepare(w)
      PROVE  Good
  <2>1. prep' = {PlanOf(round)} /\ UNCHANGED <<segments, objects>> /\ pc[w] = "prepare"
    BY <1>4 DEF Prepare
  <2>2. Outputs(round) \cap DOMAIN objects = {}
    BY <2>1 DEF Durable, RoundPlanned
  <2>3. Prepared' = {}
    BY <2>1, <2>2 DEF Prepared, PlanOf
  <2>. QED  BY <2>1, <2>3 DEF Stored
<1>5. ASSUME NEW w \in Writer, pc[w] = "write", round.written < round.count,
             Store(<<round.op, round.written + 1>>, Content(round, round.written + 1)),
             UNCHANGED <<prep, segments>>
      PROVE  Good
  <2>1. Stored' = Stored
    BY <1>5, WriteOnce
  <2>2. \A e \in round.entries : e.rec.id \notin StoredIds
    BY <1>5 DEF Fresh, Uncommitted, Sealing, Durable, RoundPlanned
  <2>3. ASSUME NEW k \in DOMAIN objects'
        PROVE  \/ k \in DOMAIN objects /\ objects'[k] = objects[k]
               \/ objects'[k] \subseteq round.entries
    BY <1>5 DEF Store, Content
  <2>4. \A x \in Prepared' : x \in Prepared \/ (x \in Records(round.entries) /\ x.id \notin StoredIds)
    <3>1. ASSUME NEW k \in (UNION {o.outputs : o \in prep}) \cap DOMAIN objects',
                 NEW e \in objects'[k]
          PROVE  \/ e.rec \in Prepared
                 \/ e.rec \in Records(round.entries) /\ e.rec.id \notin StoredIds
      BY <2>2, <2>3 DEF Prepared, Records
    <3>. QED  BY <1>5, <3>1 DEF Prepared, Records
  <2>. QED  BY <2>1, <2>4
<1>6. CASE UNCHANGED vars
  BY <1>1, <1>6 DEF vars, catalogue
<1>7. CASE Crash \/ Startup
  BY <1>1, <1>2, <1>3, <1>7 DEF Crash, Startup, ReconcilePending, catalogue
<1>8. ASSUME NEW w \in Writer, Noted(w) \/ Cancel(w) \/ \E r \in Record : Request(w, r)
      PROVE  Good
  BY <1>1, <1>8 DEF Request, Noted, Cancel, NothingLeftBehind, catalogue
<1>9. ASSUME NEW w \in Writer, Step(w) \/ Fault(w)
      PROVE  Good
  <2>1. ASSUME Written(w)  PROVE \A p \in prep : Complete(p)
    BY <2>1, CompleteWhenWritten DEF Durable
  <2>2. CASE Claim(w) \/ Enqueue(w) \/ EnqueueBusy(w) \/ TakeGate(w) \/ AlreadyCommitted(w)
             \/ StatusFails(w) \/ Seal(w) \/ Settle(w) \/ SettleFails(w) \/ ReserveFails(w)
    BY <1>1, <2>2
       DEF Claim, Enqueue, EnqueueBusy, TakeGate, AlreadyCommitted, StatusFails, Seal, Settle,
           SettleFails, ReserveFails, catalogue
  <2>3. CASE WriteSegment(w) \/ PutFails(w)
    BY <1>1, <1>5, <2>3 DEF WriteSegment, PutFails, catalogue
  <2>4. CASE Prepare(w) \/ PrepareFails(w)
    BY <1>4, <2>4 DEF PrepareFails, NothingLeftBehind
  <2>5. CASE Commit(w) \/ CommitFails(w)
    <3>1. UNCHANGED objects /\ Written(w)
      BY <2>5 DEF Commit, CommitFails
    <3>2. UNCHANGED catalogue \/ \E p \in prep : CommitSegments(p)
      BY <2>5 DEF Commit, CommitFails
    <3>. QED  BY <1>1, <1>2, <2>1, <3>1, <3>2 DEF catalogue
  <2>6. CASE ReconcileFirst(w) \/ ReconcileFirstFails(w) \/ RecoverCommitted(w)
             \/ RecoverAborted(w) \/ RecoverFails(w)
    <3>1. UNCHANGED objects
      BY <2>6 DEF ReconcileFirst, ReconcileFirstFails, RecoverCommitted, RecoverAborted, RecoverFails
    <3>2. \/ UNCHANGED catalogue
          \/ \E p \in prep : Complete(p) /\ CommitSegments(p)
          \/ \E p \in prep : AbortPreparation(p)
      BY <2>6
         DEF ReconcileFirst, ReconcileFirstFails, RecoverCommitted, RecoverAborted, RecoverFails,
             ReconcilePending
    <3>. QED  BY <1>1, <1>2, <1>3, <3>1, <3>2 DEF catalogue
  <2>. QED  BY <1>9, <2>2, <2>3, <2>4, <2>5, <2>6 DEF Step, Fault
<1>. QED
  BY <1>6, <1>7, <1>8, <1>9 DEF CursorNext

\* While the process runs, a prepared record is the record of a call in flight.
LEMMA PreparedAsked ==
  ASSUME Durable, Once, serving, NEW x \in Prepared
  PROVE  \E w \in Writer : pc[w] \notin Quiet /\ call[w] = x
<1>1. PICK w \in Writer : pc[w] \in {"write", "recoverWrite", "recoverCommit"}
  BY DEF Once, Exact, Prepared
<1>2. prep \subseteq {PlanOf(round)}
  BY <1>1 DEF Once, RoundHeld, Sealing, Durable, RoundPlanned
<1>3. PICK k \in (UNION {p.outputs : p \in prep}) \cap DOMAIN objects : x \in Records(objects[k])
  BY DEF Prepared
<1>4. PICK i \in 1 .. round.count : k = <<round.op, i>>
  BY <1>2, <1>3 DEF PlanOf, Outputs
<1>5. objects[k] = Content(round, i)
  BY <1>1, <1>3, <1>4 DEF Once, RoundHeld, Sealing
<1>6. PICK e \in round.entries : x = e.rec
  BY <1>3, <1>5 DEF Records, Content
<1>. QED  BY <1>6 DEF Once, Waited, Holding, Quiet

---------------------------------------------------------------------------
(* What a step of the journal does to the rooms.                           *)

LEMMA StorageStep ==
  ASSUME NothingLeftBehind, Durable, Once, Rooms, [CursorNext]_vars
  PROVE  /\ Stored' \subseteq Record /\ Prepared' \subseteq Record /\ StorageOrdered'
         /\ \A r \in Room : StoredOf(r) \subseteq StoredOf(r)'
         /\ \A r \in Room : \A x \in StoredOf(r)' :
              x \in StoredOf(r) \/ (x \in Prepared /\ Latest(r, x)')
         /\ serving => \A r \in Room : \A x \in StoredOf(r)' :
              x \in StoredOf(r) \/ (pc[r] \notin Quiet /\ x = call[r])
<1> USE RoomAssumption DEF Rooms
<1>1. /\ \A q \in Stored' : q \in Stored \/ q \in Prepared
      /\ \A x \in Prepared' : x \in Prepared \/ (x \in Records(round.entries) /\ x.id \notin StoredIds)
      /\ Prepared' # {} => Stored' = Stored
  BY PreparedNext
<1>2. Stored \subseteq Stored'
  <2>1. [AnyNext]_vars
    BY DEF CursorNext, AnyNext
  <2>. QED  BY <2>1, StorageGrows DEF Stored, Records
<1>3. Stored' \subseteq Record
  BY <1>1 DEF RoomTypes
<1>4. ASSUME NEW x \in Records(round.entries)
      PROVE  x \in Record /\ serving /\ \E w \in Room : pc[w] \notin Quiet /\ call[w] = x
  <2>1. PICK w \in Writer : pc[w] \in {"gate"} \cup Holding /\ call[w] = x
    BY DEF Once, Waited, Records
  <2>. QED  BY <2>1 DEF Once, Asked, Durable, GateHeld, Holding, Quiet
<1>5. Prepared' \subseteq Record
  BY <1>1, <1>4 DEF RoomTypes
<1>6. \A r \in Room : StoredOf(r) \subseteq StoredOf(r)'
  BY <1>2 DEF StoredOf
<1>7. \A x \in Record : x.id[1] \in Room /\ x.id[2] \in Nat /\ x.id[2] <= x.id[2]
  BY ConstantsAssumption DEF Record, Identity
<1>8. ASSUME NEW r \in Room, NEW x \in StoredOf(r)', x \notin StoredOf(r)
      PROVE  x \in Prepared /\ Latest(r, x)'
  <2>1. x \in Stored' /\ x.id[1] = r /\ x \in Prepared /\ x \in Record
    BY <1>1, <1>3, <1>8 DEF StoredOf
  <2>2. ASSUME NEW p \in StoredOf(r)'
        PROVE  p.id[2] <= x.id[2] /\ p.body \subseteq x.body
    <3>1. CASE p \in StoredOf(r)
      <4>1. p \in Record /\ Ahead(p, x)
        BY <2>1, <3>1 DEF StorageOrdered, RoomTypes, StoredOf
      <4>. QED  BY <1>7, <2>1, <4>1 DEF Ahead
    <3>2. CASE p \notin StoredOf(r)
      <4>1. p \in Prepared /\ p.id[1] = r
        BY <1>1, <2>2, <3>2 DEF StoredOf
      <4>2. p = x
        BY <2>1, <4>1 DEF StorageOrdered
      <4>. QED  BY <1>7, <2>1, <4>2
    <3>. QED  BY <3>1, <3>2
  <2>. QED  BY <1>8, <2>1, <2>2 DEF Latest
<1>9. ASSUME serving, NEW r \in Room, NEW x \in StoredOf(r)', x \notin StoredOf(r)
      PROVE  pc[r] \notin Quiet /\ x = call[r]
  <2>1. x \in Prepared /\ x.id[1] = r
    BY <1>8, <1>9 DEF StoredOf
  <2>2. PICK w \in Room : pc[w] \notin Quiet /\ call[w] = x
    BY <1>9, <2>1, PreparedAsked
  <2>. QED  BY <2>1, <2>2 DEF Writing
<1>10. ASSUME NEW r \in Room
       PROVE  StoredOf(r)' = {} \/ \E q \in StoredOf(r)' : Latest(r, q)'
  <2>1. CASE \E x \in StoredOf(r)' : x \notin StoredOf(r)
    BY <1>8, <2>1
  <2>2. CASE StoredOf(r)' = StoredOf(r)
    BY <2>2 DEF StorageOrdered, Latest
  <2>. QED  BY <1>6, <2>1, <2>2
<1>11. ASSUME NEW x \in Prepared', NEW q \in StoredOf(x.id[1])'
       PROVE  Ahead(q, x)
  <2>1. Stored' = Stored /\ q \in StoredOf(x.id[1])
    BY <1>1 DEF StoredOf
  <2>2. CASE x \in Prepared
    BY <2>1, <2>2 DEF StorageOrdered
  <2>3. CASE x \in Records(round.entries) /\ x.id \notin StoredIds
    <3>1. PICK w \in Room : pc[w] \notin Quiet /\ call[w] = x
      BY <1>4, <2>3
    <3>2. q # x
      BY <2>1, <2>3 DEF StoredOf, StoredIds
    <3>. QED  BY <2>1, <3>1, <3>2 DEF Writing
  <2>. QED  BY <1>1, <2>2, <2>3
<1>12. ASSUME NEW x \in Prepared', NEW y \in Prepared', x.id[1] = y.id[1]
       PROVE  x = y
  <2>1. CASE x \in Prepared /\ y \in Prepared
    BY <1>12, <2>1 DEF StorageOrdered
  <2>2. CASE serving
    <3>1. /\ \E w \in Room : pc[w] \notin Quiet /\ call[w] = x
          /\ \E w \in Room : pc[w] \notin Quiet /\ call[w] = y
      BY <1>1, <1>4, <2>2, PreparedAsked
    <3>. QED  BY <1>12, <3>1 DEF Writing
  <2>. QED  BY <1>1, <1>4, <2>1, <2>2
<1>13. StorageOrdered'
  BY <1>10, <1>11, <1>12 DEF StorageOrdered
<1>. QED  BY <1>3, <1>5, <1>6, <1>8, <1>9, <1>13

\* A call that runs: its rooms keep everything, and the one that answers Ok has
\* its snapshot as the latest record.
LEMMA CallStep ==
  ASSUME NothingLeftBehind, Durable, Once, Rooms, [CursorNext]_vars,
         NEW w \in Room, Step(w) \/ Fault(w), UNCHANGED roomVars
  PROVE  Rooms'
<1> USE RoomAssumption DEF Rooms
<1>1. /\ Stored' \subseteq Record /\ Prepared' \subseteq Record /\ StorageOrdered'
      /\ \A r \in Room : StoredOf(r) \subseteq StoredOf(r)'
      /\ \A r \in Room : \A x \in StoredOf(r)' :
           x \in StoredOf(r) \/ (x \in Prepared /\ Latest(r, x)')
  BY StorageStep
<1>2. /\ serving /\ serving'
      /\ \A v \in Room : v # w => pc'[v] = pc[v] /\ call'[v] = call[v]
      /\ pc[w] \notin Quiet /\ pc'[w] # "idle"
      /\ pc'[w] \notin Quiet => call'[w] = call[w]
      /\ pc'[w] = "ok" => call[w] \in Stored'
  BY StepEffect
<1>3. \A r \in Room : \A x \in StoredOf(r)' :
        x \in StoredOf(r) \/ (pc[r] \notin Quiet /\ x = call[r])
  BY <1>2, StorageStep
<1>4. UNCHANGED <<doc, generation, dirty, snapshot, saved>>
  BY DEF roomVars
<1>5. RoomTypes'
  BY <1>1, <1>4 DEF RoomTypes
<1>6. ASSUME NEW r \in Room, pc'[r] \notin Quiet
      PROVE  /\ call'[r].id[1] = r /\ snapshot'[r] # NoSnapshot /\ call'[r].body = snapshot'[r].body
             /\ \A q \in StoredOf(r)' : q = call'[r] \/ Ahead(q, call'[r])
  <2>1. pc[r] \notin Quiet /\ call'[r] = call[r]
    BY <1>2, <1>6
  <2>. QED  BY <1>3, <1>4, <2>1 DEF Writing
<1>7. ASSUME NEW r \in Room, snapshot'[r] # NoSnapshot, pc'[r] = "ok"
      PROVE  \E q \in StoredOf(r)' : Latest(r, q)' /\ q.body = snapshot'[r].body
  <2>1. CASE pc[r] \in Quiet
    <3>1. StoredOf(r)' = StoredOf(r) /\ pc[r] = "ok"
      BY <1>1, <1>2, <1>3, <1>7, <2>1
    <3>. QED  BY <1>4, <1>7, <3>1 DEF Writing, Latest
  <2>2. CASE pc[r] \notin Quiet
    <3>1. r = w /\ call[r] \in StoredOf(r)' /\ call[r].body = snapshot[r].body /\ call[r] \in Record
      BY <1>1, <1>2, <1>7, <2>2 DEF Writing, StoredOf, Quiet
    <3>2. call[r].id[2] \in Nat
      BY <3>1, ConstantsAssumption DEF Record, Identity
    <3>3. \A q \in StoredOf(r)' : q \in Record
      BY <1>1 DEF StoredOf
    <3>4. \A q \in StoredOf(r)' : q = call[r] \/ Ahead(q, call[r])
      BY <1>3, <2>2 DEF Writing
    <3>5. \A q \in StoredOf(r)' : q.id[2] <= call[r].id[2] /\ q.body \subseteq call[r].body
      BY <3>2, <3>3, <3>4, ConstantsAssumption DEF Ahead, Record, Identity
    <3>. QED  BY <1>4, <3>1, <3>5 DEF Latest
  <2>. QED  BY <2>1, <2>2
<1>8. Writing'
  <2>1. \A r \in Room : snapshot[r] # NoSnapshot =>
          /\ pc'[r] # "idle" /\ snapshot[r].body \subseteq doc[r]
          /\ snapshot[r].generation <= generation[r]
          /\ ~EditedMeanwhile(r) \/ ~dirty[r] => doc[r] = snapshot[r].body
    BY <1>2 DEF Writing
  <2>2. \A r \in Room : EditedMeanwhile(r)' = EditedMeanwhile(r)
    BY <1>4 DEF EditedMeanwhile
  <2>. QED  BY <1>2, <1>4, <1>6, <1>7, <2>1, <2>2 DEF Writing
<1>9. InMemory'
  <2>1. ASSUME NEW r \in Room, NEW q \in StoredOf(r)'  PROVE q.body \subseteq doc[r]
    BY <1>2, <1>3 DEF InMemory, Writing
  <2>2. ASSUME NEW r \in Room, ~dirty[r]
        PROVE  \/ StoredOf(r)' = {} /\ doc[r] = {}
               \/ \E q \in StoredOf(r)' : Latest(r, q)' /\ doc[r] = q.body
    <3>1. CASE StoredOf(r)' = StoredOf(r)
      BY <1>2, <2>2, <3>1 DEF InMemory, Latest
    <3>2. CASE \E x \in StoredOf(r)' : x \notin StoredOf(r)
      <4>1. PICK x \in StoredOf(r)' : x \notin StoredOf(r)
        BY <3>2
      <4>2. Latest(r, x)' /\ pc[r] \notin Quiet /\ x = call[r]
        BY <1>1, <1>3, <4>1
      <4>3. doc[r] = x.body
        BY <2>2, <4>2 DEF Writing
      <4>. QED  BY <4>1, <4>2, <4>3
    <3>. QED  BY <1>1, <3>1, <3>2
  <2>3. \A r \in Room : \A e \in saved[r] : \E q \in StoredOf(r)' : e \in q.body
    BY <1>1 DEF InMemory
  <2>. QED  BY <1>4, <2>1, <2>2, <2>3 DEF InMemory
<1>. QED  BY <1>1, <1>5, <1>8, <1>9

---------------------------------------------------------------------------
(* What the rooms do.                                                      *)

LEMMA SameStorage ==
  ASSUME UNCHANGED <<prep, segments, objects>>
  PROVE  /\ Stored' = Stored /\ Prepared' = Prepared
         /\ \A r : StoredOf(r)' = StoredOf(r) /\ \A q : Latest(r, q)' = Latest(r, q)
         /\ StorageOrdered => StorageOrdered'
<1>1. Stored' = Stored /\ Prepared' = Prepared
  BY DEF Stored, Prepared, Records
<1>2. \A r : StoredOf(r)' = StoredOf(r) /\ \A q : Latest(r, q)' = Latest(r, q)
  BY <1>1 DEF StoredOf, Latest
<1>. QED  BY <1>1, <1>2 DEF StorageOrdered

\* What a room is told to recover has all of its records, and is a document.
LEMMA RecoveredRoom ==
  ASSUME Once, RoomTypes, StorageOrdered, NEW r \in Room
  PROVE  /\ \/ StoredOf(r) = {} /\ Recovered(r) = {}
            \/ \E q \in StoredOf(r) : Latest(r, q) /\ Recovered(r) = q.body
         /\ Recovered(r) \in SUBSET Edit /\ LatestSequence(r) \in Nat
         /\ \A q \in StoredOf(r) : q.id[2] <= LatestSequence(r) /\ q.body \subseteq Recovered(r)
<1>1. RecoveredRight
  BY RecoveryIsLatest DEF StoredTyped, RoomTypes
<1>2. \A q \in StoredOf(r) : q.id[2] \in Nat /\ q.body \in SUBSET Edit
  BY ConstantsAssumption, RoomAssumption DEF StoredOf, RoomTypes, Record, Identity
<1>3. CASE StoredOf(r) = {}
  BY <1>1, <1>3 DEF RecoveredRight
<1>4. ASSUME NEW q \in StoredOf(r), Latest(r, q)
      PROVE  Recovered(r) = q.body /\ LatestSequence(r) = q.id[2]
  BY <1>1, <1>4 DEF RecoveredRight
<1>5. CASE \E q \in StoredOf(r) : Latest(r, q)
  BY <1>2, <1>4, <1>5 DEF Latest
<1>. QED  BY <1>3, <1>5 DEF StorageOrdered

\* The cursor of a session write is past everything committed.
LEMMA CursorIsNew ==
  ASSUME Once, RoomTypes, StorageOrdered, NEW r \in Room, DurableSequence(r) <= MaxSequence
  PROVE  /\ [id |-> <<r, DurableSequence(r)>>, body |-> doc[r]] \in Record
         /\ ~SequenceCommitted(<<r, DurableSequence(r)>>)
         /\ \A q \in StoredOf(r) : q.id[2] < DurableSequence(r)
<1>1. LatestSequence(r) \in Nat /\ \A q \in StoredOf(r) : q.id[2] <= LatestSequence(r)
  BY RecoveredRoom
<1>2. generation[r] \in Nat /\ doc[r] \in Body
  BY RoomAssumption DEF RoomTypes
<1>3. DurableSequence(r) \in Nat /\ LatestSequence(r) < DurableSequence(r)
  BY <1>1, <1>2 DEF DurableSequence
<1>4. \A q \in StoredOf(r) : q.id[2] \in Nat
  BY ConstantsAssumption DEF StoredOf, RoomTypes, Record, Identity
<1>5. \A q \in StoredOf(r) : q.id[2] < DurableSequence(r)
  BY <1>1, <1>3, <1>4
<1>6. <<r, DurableSequence(r)>> \in Identity
  BY <1>1, <1>3, ConstantsAssumption DEF Identity
<1>7. ASSUME SequenceCommitted(<<r, DurableSequence(r)>>)  PROVE FALSE
  <2>1. <<r, DurableSequence(r)>> \in StoredIds
    BY <1>7 DEF SequenceCommitted, Once, Exact
  <2>2. PICK q \in Stored : q.id = <<r, DurableSequence(r)>>
    BY <2>1 DEF StoredIds
  <2>3. q \in StoredOf(r) /\ q.id[2] = DurableSequence(r)
    BY <2>2 DEF StoredOf
  <2>. QED  BY <1>3, <1>5, <2>3
<1>. QED  BY <1>2, <1>5, <1>6, <1>7 DEF Record

\* A step of the rooms is a step of the journal's clients.
LEMMA RoomsAreClients ==
  ASSUME Once, Rooms, [RoomNext]_allVars
  PROVE  [CursorNext]_vars
<1> USE RoomAssumption DEF Rooms
<1>1. CASE UNCHANGED allVars \/ \E r \in Room, e \in Edit : ReceiveUpdate(r, e)
  BY <1>1 DEF allVars, ReceiveUpdate
<1>2. ASSUME NEW r \in Room, NEW onlyDirty \in BOOLEAN, WriteSession(r, onlyDirty)
      PROVE  CursorNext
  <2>1. DurableSequence(r) <= MaxSequence
    BY <1>2 DEF WriteSession
  <2> DEFINE rec == [id |-> <<r, DurableSequence(r)>>, body |-> doc[r]]
  <2>2. rec \in Record /\ ~SequenceCommitted(rec.id)
    BY <2>1, CursorIsNew
  <2>3. Request(r, rec)
    BY <1>2 DEF WriteSession
  <2>. QED  BY <2>2, <2>3 DEF CursorNext
<1>3. ASSUME NEW r \in Room, Persisted(r) \/ NotPersisted(r) \/ Reload(r) \/ JournalStep(r)
      PROVE  [CursorNext]_vars
  <2>1. CASE Persisted(r) \/ NotPersisted(r)
    BY <2>1 DEF Persisted, NotPersisted, Noted, CursorNext, Quiet
  <2>2. CASE Reload(r) \/ JournalStep(r)
    BY <2>2 DEF Reload, JournalStep, CursorNext
  <2>. QED  BY <1>3, <2>1, <2>2
<1>4. CASE CrashRooms \/ StartupRooms
  BY <1>4 DEF CrashRooms, StartupRooms, CursorNext
<1>. QED  BY <1>1, <1>2, <1>3, <1>4 DEF RoomNext

\* Rooms begin clean over an empty journal.
LEMMA RoomsInit == RoomInit => Init /\ Rooms
<1> SUFFICES ASSUME RoomInit  PROVE Init /\ Rooms
  OBVIOUS
<1>1. /\ serving /\ Stored = {} /\ Prepared = {}
      /\ \A r \in Room : pc[r] = "idle" /\ snapshot[r] = NoSnapshot /\ doc[r] = {} /\ saved[r] = {}
    BY RoomAssumption DEF RoomInit, Init, Stored, Prepared
<1>2. RoomTypes
  BY <1>1 DEF RoomTypes, RoomInit
<1>3. \A r : StoredOf(r) = {}
  BY <1>1 DEF StoredOf
<1>. QED
  BY <1>1, <1>2, <1>3 DEF RoomInit, Rooms, StorageOrdered, Writing, InMemory, Quiet

\* Every step of a room, of the journal or a crash keeps the rooms' invariant.
LEMMA RoomsNext ==
  ASSUME NothingLeftBehind, Durable, Once, Rooms, [RoomNext]_allVars, Once'
  PROVE  Rooms'
<1> USE RoomAssumption DEF Rooms
<1>1. [CursorNext]_vars
  BY RoomsAreClients
<1>2. CASE UNCHANGED allVars
  <2>1. UNCHANGED <<pc, call, serving, prep, segments, objects, doc, generation, dirty, snapshot, saved>>
    BY <1>2 DEF allVars, vars, volatile, catalogue, roomVars
  <2>2. /\ Stored' = Stored /\ Prepared' = Prepared /\ StorageOrdered'
        /\ \A r : StoredOf(r)' = StoredOf(r) /\ \A q : Latest(r, q)' = Latest(r, q)
    BY <2>1, SameStorage
  <2>. QED  BY <2>1, <2>2 DEF RoomTypes, Writing, InMemory, EditedMeanwhile
<1>3. ASSUME NEW r \in Room, NEW e \in Edit, ReceiveUpdate(r, e)
      PROVE  Rooms'
  <2>1. UNCHANGED <<pc, call, serving, prep, segments, objects, snapshot, saved>>
    BY <1>3 DEF ReceiveUpdate, vars, volatile, catalogue
  <2>2. /\ Stored' = Stored /\ Prepared' = Prepared /\ StorageOrdered'
        /\ \A q : StoredOf(q)' = StoredOf(q) /\ \A p : Latest(q, p)' = Latest(q, p)
    BY <2>1, SameStorage
  <2>3. /\ doc' = [doc EXCEPT ![r] = @ \cup {e}]
        /\ generation' = [generation EXCEPT ![r] = @ + 1]
        /\ dirty' = [dirty EXCEPT ![r] = TRUE]
    BY <1>3 DEF ReceiveUpdate
  <2>4. RoomTypes'
    BY <2>1, <2>2, <2>3 DEF RoomTypes
  <2>5. /\ \A v \in Room : v # r => doc'[v] = doc[v] /\ generation'[v] = generation[v] /\ dirty'[v] = dirty[v]
        /\ doc'[r] = doc[r] \cup {e} /\ generation'[r] = generation[r] + 1 /\ dirty'[r]
    BY <2>3 DEF RoomTypes
  <2>6. \A v \in Room : generation[v] \in Nat
                        /\ (snapshot[v] # NoSnapshot => snapshot[v].generation \in Nat)
    BY DEF RoomTypes
  <2>7. Writing'
    <3>1. \A v \in Room : snapshot[v] # NoSnapshot =>
            /\ snapshot[v].body \subseteq doc'[v] /\ snapshot[v].generation <= generation'[v]
            /\ (generation'[v] = snapshot[v].generation \/ ~dirty'[v]) => doc'[v] = snapshot[v].body
      BY <2>5, <2>6 DEF Writing, EditedMeanwhile
    <3>. QED  BY <2>1, <2>2, <3>1 DEF Writing, EditedMeanwhile
  <2>8. InMemory'
    BY <2>1, <2>2, <2>5 DEF InMemory
  <2>. QED  BY <2>2, <2>4, <2>7, <2>8
<1>4. ASSUME NEW r \in Room, NEW onlyDirty \in BOOLEAN, WriteSession(r, onlyDirty)
      PROVE  Rooms'
  <2> DEFINE rec == [id |-> <<r, DurableSequence(r)>>, body |-> doc[r]]
             snap == [body |-> doc[r], generation |-> generation[r]]
  <2>1. /\ UNCHANGED <<serving, prep, segments, objects, doc, generation, dirty, saved>>
        /\ serving /\ Request(r, rec)
        /\ snapshot' = [snapshot EXCEPT ![r] = snap]
        /\ DurableSequence(r) <= MaxSequence
    BY <1>4 DEF WriteSession, Request, catalogue
  <2>2. /\ Stored' = Stored /\ Prepared' = Prepared /\ StorageOrdered'
        /\ \A q : StoredOf(q)' = StoredOf(q) /\ \A p : Latest(q, p)' = Latest(q, p)
    BY <2>1, SameStorage
  <2>3. /\ snap \in [body : SUBSET Edit, generation : Nat] /\ snap # NoSnapshot
        /\ snap.body = doc[r] /\ snap.generation = generation[r]
        /\ rec.id = <<r, DurableSequence(r)>> /\ rec.body = doc[r] /\ rec.id[1] = r
        /\ rec.id[2] = DurableSequence(r)
    BY DEF RoomTypes
  <2>4. \A q \in StoredOf(r) : q.id[2] < DurableSequence(r) /\ q.body \subseteq doc[r]
    BY <2>1, CursorIsNew DEF InMemory
  <2>5. /\ \A v \in Room : v # r => pc'[v] = pc[v] /\ call'[v] = call[v]
        /\ pc'[r] = "await" /\ call'[r] = rec
    BY <2>1 DEF Request, Goto, Durable, GateHeld, Once, Asked
  <2> HIDE DEF snap, rec
  <2>6. /\ \A v \in Room : v # r => snapshot'[v] = snapshot[v]
        /\ snapshot'[r] = snap /\ DOMAIN snapshot' = Room
    BY <2>1 DEF RoomTypes
  <2>7. RoomTypes'
    BY <2>1, <2>2, <2>3, <2>6 DEF RoomTypes
  <2>8. generation[r] <= generation[r]
    BY DEF RoomTypes
  <2>9. Writing'
    <3>1. \A v \in Room : pc'[v] \notin Quiet =>
            /\ call'[v].id[1] = v /\ snapshot'[v] # NoSnapshot /\ call'[v].body = snapshot'[v].body
            /\ \A q \in StoredOf(v) : q = call'[v] \/ Ahead(q, call'[v])
      BY <2>3, <2>4, <2>5, <2>6 DEF Writing, Ahead
    <3>2. \A v \in Room : snapshot'[v] # NoSnapshot =>
            /\ serving /\ pc'[v] # "idle" /\ snapshot'[v].body \subseteq doc[v]
            /\ snapshot'[v].generation <= generation[v]
            /\ (generation[v] = snapshot'[v].generation \/ ~dirty[v]) => doc[v] = snapshot'[v].body
            /\ pc'[v] = "ok" => \E q \in StoredOf(v) : Latest(v, q) /\ q.body = snapshot'[v].body
      BY <2>1, <2>3, <2>5, <2>6, <2>8 DEF Writing, EditedMeanwhile
    <3>. QED  BY <2>1, <2>2, <3>1, <3>2 DEF Writing, EditedMeanwhile
  <2>10. InMemory'
    BY <2>1, <2>2 DEF InMemory
  <2>. QED  BY <2>2, <2>7, <2>9, <2>10
<1>5. ASSUME NEW r \in Room, Persisted(r) \/ NotPersisted(r)
      PROVE  Rooms'
  <2>1. /\ UNCHANGED <<call, serving, prep, segments, objects, doc, generation>>
        /\ snapshot[r] # NoSnapshot /\ pc[r] \in Quiet
        /\ snapshot' = [snapshot EXCEPT ![r] = NoSnapshot]
        /\ Goto(r, "idle")
    BY <1>5 DEF Persisted, NotPersisted, catalogue, Quiet
  <2>2. /\ Stored' = Stored /\ Prepared' = Prepared /\ StorageOrdered'
        /\ \A q : StoredOf(q)' = StoredOf(q) /\ \A p : Latest(q, p)' = Latest(q, p)
    BY <2>1, SameStorage
  <2>3. /\ \A v \in Room : v # r => pc'[v] = pc[v] /\ snapshot'[v] = snapshot[v]
        /\ pc'[r] = "idle" /\ snapshot'[r] = NoSnapshot /\ DOMAIN snapshot' = Room
    BY <2>1 DEF Goto, Durable, GateHeld, RoomTypes
  <2>4. /\ \A v \in Room : v # r => dirty'[v] = dirty[v] /\ saved'[v] = saved[v]
        /\ \/ dirty'[r] = dirty[r] /\ saved'[r] = saved[r]
           \/ /\ pc[r] = "ok" /\ saved'[r] = saved[r] \cup snapshot[r].body
              /\ dirty'[r] = (dirty[r] /\ EditedMeanwhile(r))
        /\ dirty' \in [Room -> BOOLEAN] /\ DOMAIN saved' = Room
    <3>1. CASE Persisted(r)
      <4>1. /\ dirty' = [dirty EXCEPT ![r] = @ /\ EditedMeanwhile(r)]
            /\ saved' = [saved EXCEPT ![r] = @ \cup snapshot[r].body] /\ pc[r] = "ok"
        BY <3>1 DEF Persisted, Acknowledged
      <4>. QED  BY <4>1 DEF RoomTypes, EditedMeanwhile
    <3>2. CASE NotPersisted(r)
      BY <3>2 DEF NotPersisted, RoomTypes
    <3>. QED  BY <1>5, <3>1, <3>2
  <2>5. RoomTypes'
    BY <2>1, <2>2, <2>3, <2>4 DEF RoomTypes
  <2>6. Writing'
    <3>1. \A v \in Room : pc'[v] \notin Quiet \/ snapshot'[v] # NoSnapshot => v # r
      BY <2>3 DEF Quiet
    <3>. QED  BY <2>1, <2>2, <2>3, <2>4, <3>1 DEF Writing, EditedMeanwhile
  <2>7. InMemory'
    <3>1. ASSUME NEW e \in saved'[r]  PROVE \E q \in StoredOf(r) : e \in q.body
      BY <2>1, <2>4, <3>1 DEF Writing, InMemory
    <3>2. ASSUME serving, ~dirty'[r]
          PROVE  \/ StoredOf(r) = {} /\ doc[r] = {}
                 \/ \E q \in StoredOf(r) : Latest(r, q) /\ doc[r] = q.body
      BY <2>1, <2>4, <3>2 DEF Writing, InMemory
    <3>3. \A v \in Room : \A e \in saved'[v] : \E q \in StoredOf(v) : e \in q.body
      BY <2>4, <3>1 DEF InMemory
    <3>4. \A v \in Room : serving /\ ~dirty'[v] =>
            \/ StoredOf(v) = {} /\ doc[v] = {}
            \/ \E q \in StoredOf(v) : Latest(v, q) /\ doc[v] = q.body
      BY <2>4, <3>2 DEF InMemory
    <3>. QED  BY <2>1, <2>2, <3>3, <3>4 DEF InMemory
  <2>. QED  BY <2>2, <2>5, <2>6, <2>7
<1>6. ASSUME NEW r \in Room, Reload(r)
      PROVE  Rooms'
  <2>1. /\ UNCHANGED <<pc, call, serving, prep, segments, objects, dirty, snapshot, saved>>
        /\ serving /\ ~dirty[r] /\ snapshot[r] = NoSnapshot
        /\ doc' = [doc EXCEPT ![r] = Recovered(r)]
        /\ generation' = [generation EXCEPT ![r] = LatestSequence(r)]
    BY <1>6 DEF Reload, Load, Evictable, vars, volatile, catalogue, RoomTypes
  <2>2. /\ Stored' = Stored /\ Prepared' = Prepared /\ StorageOrdered'
        /\ \A q : StoredOf(q)' = StoredOf(q) /\ \A p : Latest(q, p)' = Latest(q, p)
    BY <2>1, SameStorage
  <2>3. /\ \/ StoredOf(r) = {} /\ Recovered(r) = {}
           \/ \E q \in StoredOf(r) : Latest(r, q) /\ Recovered(r) = q.body
        /\ Recovered(r) \in SUBSET Edit /\ LatestSequence(r) \in Nat
        /\ \A q \in StoredOf(r) : q.body \subseteq Recovered(r)
    BY RecoveredRoom
  <2>4. /\ \A v \in Room : v # r => doc'[v] = doc[v] /\ generation'[v] = generation[v]
        /\ doc'[r] = Recovered(r) /\ generation'[r] = LatestSequence(r)
    BY <2>1 DEF RoomTypes
  <2>5. RoomTypes'
    BY <2>1, <2>2, <2>3 DEF RoomTypes
  <2>6. Writing'
    <3>1. \A v \in Room : pc[v] \notin Quiet \/ snapshot[v] # NoSnapshot => v # r
      BY <2>1 DEF Writing
    <3>. QED  BY <2>1, <2>2, <2>4, <3>1 DEF Writing, EditedMeanwhile
  <2>7. InMemory'
    BY <2>1, <2>2, <2>3, <2>4 DEF InMemory
  <2>. QED  BY <2>2, <2>5, <2>6, <2>7
<1>7. ASSUME NEW r \in Room, JournalStep(r)
      PROVE  Rooms'
  BY <1>1, <1>7, CallStep DEF JournalStep
<1>8. CASE CrashRooms
  <2>1. /\ UNCHANGED <<prep, segments, objects, saved>> /\ serving' = FALSE
        /\ doc' = [r \in Room |-> Recovered(r)]
        /\ generation' = [r \in Room |-> LatestSequence(r)]
        /\ dirty' = [r \in Room |-> FALSE]
        /\ snapshot' = [r \in Room |-> NoSnapshot]
        /\ \A r \in Room : pc'[r] = "idle"
    BY <1>8 DEF CrashRooms, Crash, catalogue
  <2>2. /\ Stored' = Stored /\ Prepared' = Prepared /\ StorageOrdered'
        /\ \A q : StoredOf(q)' = StoredOf(q) /\ \A p : Latest(q, p)' = Latest(q, p)
    BY <2>1, SameStorage
  <2>3. \A r \in Room : Recovered(r) \in SUBSET Edit /\ LatestSequence(r) \in Nat
    BY RecoveredRoom
  <2>4. RoomTypes'
    BY <2>1, <2>2, <2>3 DEF RoomTypes
  <2>5. Writing'
    BY <2>1 DEF Writing, Quiet
  <2>6. InMemory'
    BY <2>1, <2>2 DEF InMemory
  <2>. QED  BY <2>2, <2>4, <2>5, <2>6
<1>9. CASE StartupRooms
  <2>1. /\ ~serving /\ serving' /\ UNCHANGED <<pc, call, dirty, snapshot, saved>>
        /\ doc' = [r \in Room |-> Recovered(r)']
        /\ generation' = [r \in Room |-> LatestSequence(r)']
    BY <1>9 DEF StartupRooms, Startup
  <2>2. /\ Stored' \subseteq Record /\ Prepared' \subseteq Record /\ StorageOrdered'
        /\ \A r \in Room : StoredOf(r) \subseteq StoredOf(r)'
    BY <1>1, StorageStep
  <2>3. StoredTyped'
    BY <2>2 DEF StoredTyped
  <2>4. RecoveredRight'
    BY <2>3, RecoveryIsLatest, PTL
  <2>5. ASSUME NEW r \in Room
        PROVE  /\ \/ StoredOf(r)' = {} /\ Recovered(r)' = {}
                  \/ \E q \in StoredOf(r)' : Latest(r, q)' /\ Recovered(r)' = q.body
               /\ Recovered(r)' \in SUBSET Edit /\ LatestSequence(r)' \in Nat
               /\ \A q \in StoredOf(r)' : q.body \subseteq Recovered(r)'
    <3>1. \A q \in StoredOf(r)' : q.id[2] \in Nat /\ q.body \in SUBSET Edit
      BY <2>2, ConstantsAssumption DEF StoredOf, Record, Identity
    <3>2. CASE StoredOf(r)' = {}
      BY <2>4, <3>2 DEF RecoveredRight
    <3>3. ASSUME NEW q \in StoredOf(r)', Latest(r, q)'
          PROVE  Recovered(r)' = q.body /\ LatestSequence(r)' = q.id[2]
      BY <2>4, <3>3 DEF RecoveredRight
    <3>4. CASE \E q \in StoredOf(r)' : Latest(r, q)'
      BY <3>1, <3>3, <3>4 DEF Latest
    <3>. QED  BY <2>2, <3>2, <3>4 DEF StorageOrdered
  <2>6. \A r \in Room : pc[r] \in Quiet /\ snapshot[r] = NoSnapshot
    BY <2>1 DEF Durable, GateHeld, Writing
  <2>7. RoomTypes'
    BY <2>1, <2>2, <2>5 DEF RoomTypes
  <2>8. Writing'
    BY <2>1, <2>6 DEF Writing
  <2>9. InMemory'
    <3>1. \A r \in Room : doc'[r] = Recovered(r)'
      BY <2>1
    <3>2. \A r \in Room : \A e \in saved'[r] : \E q \in StoredOf(r)' : e \in q.body
      BY <2>1, <2>2 DEF InMemory
    <3>. QED  BY <2>5, <3>1, <3>2 DEF InMemory
  <2>. QED  BY <2>2, <2>7, <2>8, <2>9
<1>. QED
  BY <1>2, <1>3, <1>4, <1>5, <1>6, <1>7, <1>8, <1>9 DEF RoomNext

---------------------------------------------------------------------------
(* The theorems.                                                           *)

\* The inductive invariant of rooms over the journal.
THEOREM RoomsInvariant ==
  ASSUME NothingLeftBehind
  PROVE  RoomSpec => [](Durable /\ Once /\ Rooms)
<1>1. RoomInit => Durable /\ Once /\ Rooms
  BY RoomsInit, DurableInit, OnceInit
<1>2. Durable /\ Once /\ Rooms /\ [RoomNext]_allVars => Durable' /\ Once' /\ Rooms'
  <2> SUFFICES ASSUME Durable, Once, Rooms, [RoomNext]_allVars
               PROVE  Durable' /\ Once' /\ Rooms'
    OBVIOUS
  <2>1. [CursorNext]_vars
    BY RoomsAreClients
  <2>2. Once'
    BY <2>1, OnceNext
  <2>3. Durable'
    <3>1. [AnyNext]_vars
      BY <2>1 DEF CursorNext, AnyNext
    <3>. QED  BY <3>1, DurableNext
  <2>. QED  BY <2>2, <2>3, RoomsNext
<1>. QED
  BY <1>1, <1>2, PTL DEF RoomSpec

\* SavedIsRecoverable: what a y-ack told a client is saved is in what a restart
\* recovers, whatever fails or crashes, as long as no failed append leaves its
\* record queued (with failing prepares it does, and a stale record shadows the
\* newer one: the run room_stale).
THEOREM SavedSurvives ==
  ASSUME NothingLeftBehind
  PROVE  RoomSpec => []SavedIsRecoverable
<1>1. Durable /\ Once /\ Rooms => SavedIsRecoverable
  <2> SUFFICES ASSUME Durable, Once, Rooms, NEW r \in Room, NEW e \in saved[r]
               PROVE  e \in Recovered(r)
    BY DEF SavedIsRecoverable
  <2>1. PICK q \in StoredOf(r) : e \in q.body
    BY DEF Rooms, InMemory
  <2>2. q.body \subseteq Recovered(r)
    BY RecoveredRoom DEF Rooms
  <2>. QED  BY <2>1, <2>2
<1>. QED
  BY <1>1, RoomsInvariant, PTL

\* CleanRoomIsDurable: evicting a room that is not dirty loses nothing.
THEOREM CleanRoomsAreOnDisk ==
  ASSUME NothingLeftBehind
  PROVE  RoomSpec => []CleanRoomIsDurable
<1>1. Durable /\ Once /\ Rooms => CleanRoomIsDurable
  <2> SUFFICES ASSUME Durable, Once, Rooms, NEW r \in Room, serving, ~dirty[r]
               PROVE  doc[r] = Recovered(r)
    BY DEF CleanRoomIsDurable
  <2>1. RecoveredRight
    BY RecoveryIsLatest DEF Rooms, RoomTypes, StoredTyped
  <2>. QED  BY <2>1 DEF RecoveredRight, Rooms, InMemory
<1>. QED
  BY <1>1, RoomsInvariant, PTL

\* RecoveryNeverRegresses: no step of the rooms or of the journal takes an edit
\* out of what a restart would recover.
THEOREM RecoveryGrows ==
  ASSUME NothingLeftBehind
  PROVE  RoomSpec => RecoveryNeverRegresses
<1>1. Durable /\ Once /\ Rooms => RecoveredRight
  BY RecoveryIsLatest DEF Rooms, RoomTypes, StoredTyped
<1>2. ASSUME Durable, Once, Rooms, [RoomNext]_allVars, RecoveredRight, RecoveredRight'
      PROVE  \A r \in Room : Recovered(r) \subseteq Recovered(r)'
  <2>1. [CursorNext]_vars
    BY <1>2, RoomsAreClients
  <2>2. StorageOrdered' /\ \A r \in Room : StoredOf(r) \subseteq StoredOf(r)'
    BY <1>2, <2>1, StorageStep
  <2>3. ASSUME NEW r \in Room, NEW q \in StoredOf(r), Latest(r, q)
        PROVE  Recovered(r) \subseteq Recovered(r)'
    <3>1. Recovered(r) = q.body /\ q \in StoredOf(r)'
      BY <1>2, <2>2, <2>3 DEF RecoveredRight
    <3>2. PICK p \in StoredOf(r)' : Latest(r, p)'
      BY <2>2, <3>1 DEF StorageOrdered
    <3>3. q.body \subseteq p.body /\ Recovered(r)' = p.body
      BY <1>2, <3>1, <3>2 DEF RecoveredRight, Latest
    <3>. QED  BY <3>1, <3>3
  <2>4. ASSUME NEW r \in Room, StoredOf(r) = {}
        PROVE  Recovered(r) \subseteq Recovered(r)'
    BY <1>2, <2>4 DEF RecoveredRight
  <2>. QED  BY <1>2, <2>3, <2>4 DEF Rooms, StorageOrdered
<1>. QED
  BY <1>1, <1>2, RoomsInvariant, PTL DEF RoomSpec, RecoveryNeverRegresses
=============================================================================
