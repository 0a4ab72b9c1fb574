-------------------------- MODULE JournalCursorProofs --------------------------
(***************************************************************************)
(* A cursor has one durable record, proved for any clients that have one   *)
(* append of a document in flight and ask for cursors that are not         *)
(* committed.  The invariant follows a record from its call to storage:    *)
(* while nothing loses a record that its call still waits for, and nothing *)
(* keeps one that no call waits for, no second copy of it is ever sealed.  *)
(***************************************************************************)
EXTENDS JournalProofs, FiniteSetTheorems

\* A failed read, a dropped call and a failed prepare each leave a record in
\* the queue that no call waits for, which a later round commits a second time.
NothingLeftBehind == Faults \cap {"read", "cancel", "prepare"} = {}

---------------------------------------------------------------------------
StoredIds == {q.id : q \in Stored}

\* A document has one call in flight.
Asked ==
  /\ DOMAIN call = Writer
  /\ \A w \in Writer : pc[w] \notin Quiet => call[w] \in Record
  /\ \A v, w \in Writer :
       pc[v] \notin Quiet /\ pc[w] \notin Quiet /\ call[v].id[1] = call[w].id[1] => v = w

\* Whatever is queued or sealed is there once, and its call waits for it.
OneEntry(E) == \A e, f \in E : e.rec.id = f.rec.id => e = f
Waited ==
  /\ \A e \in queue \cup round.entries :
       \E w \in Writer : pc[w] \in {"gate"} \cup Holding /\ call[w] = e.rec
  /\ OneEntry(queue) /\ OneEntry(round.entries)
  /\ \A e \in queue, f \in round.entries : e.rec.id # f.rec.id

\* Coverage covers nothing but what is stored, once its operation is complete.
KeptIn(p) == UNION {Ids(objects[k]) : k \in p.outputs \cap DOMAIN objects}
Exact ==
  /\ \A s \in segments : s.cover \subseteq StoredIds
  /\ \A p \in prep : p.outputs # {} /\ (Complete(p) => p.cover \subseteq KeptIn(p))
  /\ serving /\ prep # {} =>
       \E w \in Writer : pc[w] \in {"write", "recoverWrite", "recoverCommit"}

\* What may still be committed is not durable yet.
Uncommitted(w) == pc[w] = "prepare" \/ (pc[w] \in Sealing /\ prep # {})
Fresh ==
  /\ \A e \in queue : e.rec.id \notin StoredIds
  /\ \A w \in Writer : pc[w] \in {"await", "enqueue"} => call[w].id \notin StoredIds
  /\ \A w \in Writer : Uncommitted(w) => \A e \in round.entries : e.rec.id \notin StoredIds
  /\ \A p \in prep : KeptIn(p) \cap StoredIds = {}

\* One copy of an identity, in what is prepared and in what is committed.
OneCopy(keys) ==
  \A k, l \in keys : \A e \in objects[k], f \in objects[l] : e.rec.id = f.rec.id => k = l /\ e = f
CommittedKeys == {s.key : s \in segments}
Unique ==
  /\ OneCopy(CommittedKeys)
  /\ \A p \in prep : OneCopy(p.outputs \cap DOMAIN objects)

\* The clients ask for a cursor that is not committed.
CursorNext ==
  \/ \E w \in Writer, r \in Record : ~SequenceCommitted(r.id) /\ Request(w, r)
  \/ \E w \in Writer : Step(w) \/ Fault(w) \/ Cancel(w) \/ Noted(w)
  \/ Crash
  \/ Startup

Once ==
  /\ Asked /\ Waited /\ RecordHeld /\ RoundHeld /\ Covered /\ Exact /\ Fresh /\ Unique

---------------------------------------------------------------------------
(* What storage holds.                                                     *)

\* The identities of storage are those of the committed objects' entries.
LEMMA StoredIdsAre ==
  \A id : id \in StoredIds <=> \E s \in segments : \E e \in objects[s.key] : e.rec.id = id
BY DEF StoredIds, Stored, Records

\* Every document has one entry in the sealed round, so coverage is exact.
LEMMA RoundSpan ==
  ASSUME Asked, Waited
  PROVE  /\ \A e \in round.entries : e.rec \in Record /\ e.rec.id \in Identity
         /\ Span(Ids(round.entries)) = Ids(round.entries)
<1>1. \A e \in round.entries :
        \E w \in Writer : pc[w] \notin Quiet /\ call[w] = e.rec /\ call[w] \in Record
  BY DEF Asked, Waited, Holding, Quiet
<1>2. \A e \in round.entries : e.rec \in Record /\ e.rec.id \in Identity
  BY <1>1 DEF Record
<1>3. \A e, f \in round.entries : e.rec.id[1] = f.rec.id[1] => e.rec.id = f.rec.id
  BY <1>1 DEF Asked
<1>4. ASSUME NEW id \in Identity, NEW e \in round.entries, NEW f \in round.entries,
             e.rec.id[1] = id[1], f.rec.id[1] = id[1],
             e.rec.id[2] <= id[2], id[2] <= f.rec.id[2]
      PROVE  id = e.rec.id
  <2>1. e.rec.id = f.rec.id
    BY <1>3, <1>4
  <2>. QED
    BY <1>2, <1>4, <2>1, ConstantsAssumption DEF Identity
<1>5. Span(Ids(round.entries)) \subseteq Ids(round.entries)
  BY <1>4 DEF Span, Ids
<1>6. Ids(round.entries) \subseteq Span(Ids(round.entries))
  <2>1. ASSUME NEW e \in round.entries  PROVE e.rec.id \in Span(Ids(round.entries))
    <3>1. e.rec.id \in Identity /\ e.rec.id \in Ids(round.entries) /\ e.rec.id[2] \in Nat
      BY <1>2, ConstantsAssumption DEF Identity, Ids
    <3>2. e.rec.id[2] <= e.rec.id[2]
      BY <3>1
    <3>. QED  BY <3>1, <3>2 DEF Span
  <2>. QED  BY <2>1 DEF Ids
<1>. QED  BY <1>2, <1>5, <1>6

\* Committing an operation that is complete adds what it kept, once.
LEMMA CommitOnce ==
  ASSUME Separated, Covered, Exact, Fresh, Unique, NEW p \in prep, Complete(p),
         CommitSegments(p), objects' = objects
  PROVE  /\ prep' = {}
         /\ Unique'
         /\ \A s \in segments' : s.cover \subseteq StoredIds'
         /\ \A id \in StoredIds' : id \in StoredIds \/ id \in KeptIn(p)
         /\ Covered'
<1>1. prep' = {}
  BY DEF CommitSegments, Separated
<1>2. \A s \in segments' : s \in segments \/ (s.key \in p.outputs /\ s.cover = p.cover)
  BY DEF CommitSegments
<1>3. \A k \in p.outputs : \E s \in segments' : s.key = k
  <2>1. ASSUME NEW k \in p.outputs  PROVE [key |-> k, cover |-> p.cover] \in segments'
    BY DEF CommitSegments
  <2>. QED  BY <2>1
<1>4. segments \subseteq segments'
  BY DEF CommitSegments
<1>5. \A id \in StoredIds' : id \in StoredIds \/ id \in KeptIn(p)
  BY <1>2 DEF StoredIds, Stored, Records, KeptIn, Ids, Complete
<1>6. StoredIds \subseteq StoredIds' /\ KeptIn(p) \subseteq StoredIds'
  BY <1>3, <1>4 DEF StoredIds, Stored, Records, KeptIn, Ids
<1>7. \A s \in segments' : s.cover \subseteq StoredIds'
  BY <1>2, <1>6 DEF Exact
<1>8. Unique'
  <2>1. ASSUME NEW k \in CommittedKeys', NEW l \in CommittedKeys',
               NEW e \in objects[k], NEW f \in objects[l], e.rec.id = f.rec.id
        PROVE  k = l /\ e = f
    <3>1. /\ k \in CommittedKeys \/ k \in p.outputs
          /\ l \in CommittedKeys \/ l \in p.outputs
      BY <1>2 DEF CommittedKeys
    <3>2. CASE k \in CommittedKeys /\ l \in CommittedKeys
      BY <2>1, <3>2 DEF Unique, OneCopy
    <3>3. CASE k \in p.outputs /\ l \in p.outputs
      BY <2>1, <3>3 DEF Unique, OneCopy, Complete
    <3>4. \A m \in CommittedKeys : \A g \in objects[m] : g.rec.id \in StoredIds
      BY DEF CommittedKeys, StoredIds, Stored, Records
    <3>5. \A m \in p.outputs : \A g \in objects[m] : g.rec.id \in KeptIn(p)
      BY DEF KeptIn, Complete, Ids
    <3>6. KeptIn(p) \cap StoredIds = {}
      BY DEF Fresh
    <3>. QED  BY <2>1, <3>1, <3>2, <3>3, <3>4, <3>5, <3>6
  <2>. QED  BY <1>1, <2>1 DEF Unique, OneCopy
<1>9. Covered'
  BY CommitCovers DEF Exact, PreparationResolvable
<1>. QED  BY <1>1, <1>5, <1>7, <1>8, <1>9

\* With no two copies, storage has one record of an identity.
LEMMA UniqueMeansOne ==
  ASSUME Unique
  PROVE  /\ OneRecordPerCursor
         /\ \A id \in StoredIds : Cardinality(Copies(id)) = 1
<1>1. \A id : \A c, d \in Copies(id) : c = d
  BY DEF Copies, Unique, OneCopy, CommittedKeys
<1>2. \A id : Copies(id) = {} \/ \E c : Copies(id) = {c}
  BY <1>1
<1>3. Cardinality({}) = 0 /\ \A c : Cardinality({c}) = 1
  BY FS_EmptySet, FS_Singleton
<1>4. \A id : Cardinality(Copies(id)) = 0 \/ Cardinality(Copies(id)) = 1
  BY <1>2, <1>3
<1>5. ASSUME NEW id \in StoredIds  PROVE Copies(id) # {}
  <2>1. PICK s \in segments : \E e \in objects[s.key] : e.rec.id = id
    BY StoredIdsAre
  <2>2. PICK e \in objects[s.key] : e.rec.id = id
    BY <2>1
  <2>3. <<s.key, e>> \in Copies(id)
    BY <2>2 DEF Copies
  <2>. QED  BY <2>3
<1>6. \A id \in StoredIds : Cardinality(Copies(id)) = 1
  BY <1>2, <1>3, <1>5
<1>. QED  BY <1>4, <1>6 DEF OneRecordPerCursor

---------------------------------------------------------------------------
(* The kinds of step.                                                      *)

\* A step that leaves the queue, the round and storage alone: calls come, go, or
\* move on before they have sealed.
LEMMA MoveOnce ==
  ASSUME Durable, Once, Asked', UNCHANGED <<queue, round, prep, segments, objects>>,
         serving' => serving,
         \A v \in Writer : pc[v] \in {"gate"} \cup Holding =>
            pc'[v] \in {"gate"} \cup Holding /\ call'[v] = call[v],
         \A v \in Writer : pc[v] \in Sealing \/ pc'[v] \in Sealing =>
            pc'[v] = pc[v] /\ call'[v] = call[v],
         \A v \in Writer : pc'[v] \in {"await", "enqueue"} => call'[v].id \notin StoredIds,
         \A v \in Writer : pc'[v] \in {"gate", "reconcile", "status"} =>
            pc[v] \in {"gate", "reconcile", "status"} /\ call'[v] = call[v],
         \A v \in Writer : pc'[v] \in {"reconcile", "status"} => round.entries = {},
         gate' = Nobody => round.entries = {}
  PROVE  Once'
<1>1. /\ Stored' = Stored /\ StoredIds' = StoredIds
      /\ Records(queue)' = Records(queue) /\ Records(round.entries)' = Records(round.entries)
      /\ \A p : KeptIn(p)' = KeptIn(p) /\ Complete(p)' = Complete(p)
  BY DEF Stored, StoredIds, Records, KeptIn, Complete, Ids
<1>2. Waited'
  BY DEF Once, Waited, OneEntry
<1>3. RecordHeld'
  BY <1>1 DEF Once, RecordHeld
<1>4. RoundHeld'
  BY RoundHeldKept DEF Once
<1>5. Covered'
  BY CoveredKept DEF Once, Exact, PreparationResolvable
<1>6. Exact'
  <2>1. (\A s \in segments : s.cover \subseteq StoredIds)'
    BY <1>1 DEF Once, Exact
  <2>2. (\A p \in prep : p.outputs # {} /\ (Complete(p) => p.cover \subseteq KeptIn(p)))'
    BY <1>1 DEF Once, Exact
  <2>3. (serving /\ prep # {} =>
           \E w \in Writer : pc[w] \in {"write", "recoverWrite", "recoverCommit"})'
    BY DEF Once, Exact, Sealing
  <2>. QED  BY <2>1, <2>2, <2>3 DEF Exact
<1>7. Fresh'
  <2>1. \A v \in Writer : Uncommitted(v)' => Uncommitted(v)
    BY DEF Uncommitted, Sealing
  <2>. QED  BY <1>1, <2>1 DEF Once, Fresh
<1>8. Unique'
  BY DEF Once, Unique, OneCopy, CommittedKeys
<1>. QED  BY <1>2, <1>3, <1>4, <1>5, <1>6, <1>7, <1>8 DEF Once

\* The end of a call that held the gate: nothing is prepared any more, its own
\* record is in memory no more, and what is queued has its call and is not durable.
LEMMA ReturnOnce ==
  ASSUME Durable, Once, NEW w \in Writer, pc[w] \in Holding, NEW result \in Quiet, NEW ids,
         Return(w, result, ids), prep' = {}, objects' = objects, Stored \subseteq Stored',
         queue' \subseteq queue \cup round.entries,
         \A e \in queue' : e.rec.id # call[w].id /\ e.rec.id \notin StoredIds',
         \A v \in Writer : pc[v] \in {"await", "enqueue"} => call[v].id \notin StoredIds',
         \A v \in Writer : v # w /\ pc[v] = "gate" => call[v] \in Records(queue') \cup Stored',
         Covered', Unique', \A s \in segments' : s.cover \subseteq StoredIds'
  PROVE  Once'
<1>1. /\ \A v \in Writer : v # w => pc'[v] = pc[v] /\ call'[v] = call[v] /\ pc[v] \notin Holding
      /\ pc'[w] = result /\ DOMAIN call' = Writer
      /\ gate' = Nobody /\ round'.entries = {}
  BY OthersOutside DEF Return, Goto, Durable, GateHeld, Once, Asked, NoRound
<1>2. Asked'
  BY <1>1 DEF Once, Asked, Quiet
<1>3. Waited'
  <2>1. \A e \in queue' : \E v \in Writer : pc[v] \in {"gate"} \cup Holding /\ call[v] = e.rec
    BY DEF Once, Waited
  <2>2. \A e \in queue' : \E v \in Writer : v # w /\ pc[v] \in {"gate"} \cup Holding /\ call[v] = e.rec
    BY <2>1
  <2>3. OneEntry(queue')
    BY DEF Once, Waited, OneEntry
  <2>. QED  BY <1>1, <2>2, <2>3 DEF Waited, OneEntry
<1>4. RecordHeld'
  BY <1>1 DEF RecordHeld, Holding, Quiet
<1>5. \A v \in Writer : pc'[v] \notin Sealing
  BY <1>1 DEF Sealing, Holding, Quiet
<1>6. RoundHeld' /\ \A v \in Writer : ~Uncommitted(v)'
  BY <1>5 DEF RoundHeld, Uncommitted, Sealing
<1>7. Exact'
  BY DEF Exact
<1>8. Fresh'
  BY <1>1, <1>6 DEF Fresh, Quiet
<1>. QED  BY <1>2, <1>3, <1>4, <1>6, <1>7, <1>8 DEF Once

\* A step of the sealed round, over a preparation that is its plan.
LEMMA SealedOnce ==
  ASSUME Durable, Once, Stored \subseteq Stored',
         NEW w \in Writer, pc[w] \in Sealing, NEW s \in Sealing, Goto(w, s),
         UNCHANGED <<call, queue, gate, serving>>,
         UNCHANGED <<round.op, round.entries, round.count, round.cut>>,
         \A i \in 1 .. round.count : <<round.op, i>> \in DOMAIN objects' =>
            \/ <<round.op, i>> \in DOMAIN objects /\ objects'[<<round.op, i>>] = objects[<<round.op, i>>]
            \/ objects'[<<round.op, i>>] = Content(round, i),
         s \in {"write", "recoverWrite"} => prep' = {PlanOf(round)},
         s = "recoverCommit" => prep' \subseteq {PlanOf(round)},
         s = "recoverCommit" => prep' = {PlanOf(round)} \/ Records(round.entries) \subseteq Stored',
         s = "settle" => prep' = {} /\ Records(round.entries) \subseteq Stored',
         Covered', Exact', Fresh', Unique'
  PROVE  Once'
<1>1. /\ \A v \in Writer : v # w => pc'[v] = pc[v] /\ pc[v] \notin Holding
      /\ pc'[w] = s
  BY OthersOutside DEF Goto, Durable, GateHeld, Sealing, Holding
<1>2. Asked'
  BY <1>1 DEF Once, Asked, Sealing, Quiet
<1>3. Waited'
  <2>1. \A v \in Writer : pc[v] \in {"gate"} \cup Holding => pc'[v] \in {"gate"} \cup Holding
    BY <1>1 DEF Sealing, Holding
  <2>. QED  BY <2>1 DEF Once, Waited, OneEntry
<1>4. RecordHeld'
  BY <1>1 DEF RecordHeld, Once, Records, Sealing, Holding
<1>5. /\ PlanOf(round)' = PlanOf(round)
      /\ Records(round.entries)' = Records(round.entries)
      /\ \A i : Content(round, i)' = Content(round, i)
  BY DEF PlanOf, Outputs, Span, Ids, Records, Content
<1>6. /\ call[w] \in Records(round.entries)
      /\ \A e \in round.entries : round.cut[e] \in 1 .. round.count
      /\ \A i \in 1 .. round.count : <<round.op, i>> \in DOMAIN objects =>
            objects[<<round.op, i>>] = Content(round, i)
  BY DEF Once, RoundHeld
<1>7. \A v \in Writer : pc'[v] \in Sealing => v = w
  BY <1>1 DEF Sealing, Holding
<1>8. RoundHeld'
  BY <1>1, <1>5, <1>6, <1>7 DEF RoundHeld
<1>. QED  BY <1>2, <1>3, <1>4, <1>8 DEF Once

\* A segment of the round lands in the store: what is committed stays as it is, and
\* what the preparation keeps is of the round, once.
LEMMA WriteOnce ==
  ASSUME Durable, Once, NEW w \in Writer, pc[w] = "write", round.written < round.count,
         Store(<<round.op, round.written + 1>>, Content(round, round.written + 1)),
         UNCHANGED <<prep, segments>>
  PROVE  /\ Covered' /\ Unique'
         /\ StoredIds' = StoredIds /\ Stored' = Stored
         /\ \A p \in prep : KeptIn(p)' \subseteq Ids(round.entries)
         /\ \A p \in prep : p.outputs # {} /\ (Complete(p)' => p.cover \subseteq KeptIn(p)')
         /\ \A i \in 1 .. round.count : <<round.op, i>> \in DOMAIN objects' =>
              objects'[<<round.op, i>>] = Content(round, i)
<1> DEFINE k0 == <<round.op, round.written + 1>>
<1>1. prep = {PlanOf(round)} /\ round.written + 1 \in 1 .. round.count
  BY DEF Durable, RoundPlanned
<1>2. /\ \A i \in 1 .. round.count : <<round.op, i>> \in DOMAIN objects =>
            objects[<<round.op, i>>] = Content(round, i)
      /\ \A e \in round.entries : round.cut[e] \in 1 .. round.count
  BY DEF Once, RoundHeld, Sealing
<1>3. /\ DOMAIN objects' = DOMAIN objects \cup {k0}
      /\ \A k \in DOMAIN objects : k # k0 => objects'[k] = objects[k]
      /\ objects'[k0] = Content(round, round.written + 1)
  BY DEF Store
<1>4. \A i \in 1 .. round.count : <<round.op, i>> \in DOMAIN objects' =>
            objects'[<<round.op, i>>] = Content(round, i)
  BY <1>2, <1>3
<1>5. \A p \in prep : \A k \in p.outputs : \E i \in 1 .. round.count : k = <<round.op, i>>
  BY <1>1 DEF PlanOf, Outputs
<1>6. \A p \in prep : \A i \in 1 .. round.count : <<round.op, i>> \in p.outputs
  BY <1>1 DEF PlanOf, Outputs
<1>7. \A s \in segments : s.key \in DOMAIN objects /\ s.key # k0
  BY <1>1, <1>6 DEF Durable, Separated
<1>8. \A s \in segments : objects'[s.key] = objects[s.key]
  BY <1>3, <1>7
<1>9. Stored' = Stored
  BY <1>8 DEF Stored
<1>10. \A p \in prep : KeptIn(p)' \subseteq Ids(round.entries)
  BY <1>4, <1>5 DEF KeptIn, Ids, Content
<1>11. \A p \in prep : p.cover = Ids(round.entries)
  BY <1>1, RoundSpan DEF PlanOf, Once
<1>12. ASSUME NEW p \in prep, Complete(p)'  PROVE p.cover \subseteq KeptIn(p)'
  <2>1. ASSUME NEW e \in round.entries  PROVE e.rec.id \in KeptIn(p)'
    <3>1. <<round.op, round.cut[e]>> \in p.outputs \cap DOMAIN objects'
      BY <1>2, <1>6, <1>12 DEF Complete
    <3>2. e \in objects'[<<round.op, round.cut[e]>>]
      BY <1>2, <1>4, <3>1 DEF Content
    <3>. QED  BY <3>1, <3>2 DEF KeptIn, Ids
  <2>. QED  BY <1>11, <2>1 DEF Ids
<1>13. Covered'
  <2>1. (\A s \in segments : Ids(objects[s.key]) \subseteq s.cover)'
    BY <1>8 DEF Once, Covered, Ids
  <2>2. (\A p \in prep : \A k \in p.outputs \cap DOMAIN objects : Ids(objects[k]) \subseteq p.cover)'
    BY <1>4, <1>5, <1>11 DEF Ids, Content
  <2>. QED  BY <2>1, <2>2 DEF Covered
<1>14. Unique'
  <2>1. OneCopy(CommittedKeys)'
    BY <1>8 DEF OneCopy, CommittedKeys, Once, Unique
  <2>2. ASSUME NEW p \in prep  PROVE OneCopy(p.outputs \cap DOMAIN objects)'
    <3>1. ASSUME NEW i \in 1 .. round.count, NEW j \in 1 .. round.count,
                 NEW e \in Content(round, i), NEW f \in Content(round, j), e.rec.id = f.rec.id
          PROVE  i = j /\ e = f
      BY <3>1 DEF Content, Once, Waited, OneEntry
    <3>. QED  BY <1>4, <1>5, <3>1 DEF OneCopy
  <2>. QED  BY <2>1, <2>2 DEF Unique
<1>15. \A p \in prep : p.outputs # {}
  BY DEF Once, Exact
<1>. QED  BY <1>4, <1>9, <1>10, <1>12, <1>13, <1>14, <1>15 DEF StoredIds

---------------------------------------------------------------------------
(* Step by step.                                                           *)

LEMMA OnceInit == Init => Once
BY DEF Init, Once, Asked, Waited, RecordHeld, RoundHeld, Covered, Exact, Fresh, Unique, OneEntry,
       NoRound, Quiet, Sealing, Holding, Uncommitted, OneCopy, CommittedKeys

\* No step makes a second record of a cursor, nor leaves one queued for nobody.
LEMMA OnceNext ==
  ASSUME NothingLeftBehind, Durable, Once, [CursorNext]_vars
  PROVE  Once'
<1> USE DEF Once
<1>1. Durable' /\ Stored \subseteq Stored' /\ [AnyNext]_vars
  <2>1. [AnyNext]_vars
    BY DEF CursorNext, AnyNext
  <2>. QED  BY <2>1, DurableNext, StorageGrows DEF Stored, Records
<1>2. CASE UNCHANGED vars
  BY <1>2, MoveOnce DEF vars, volatile, catalogue, Asked, Fresh, RecordHeld
<1>3. ASSUME NEW w \in Writer, NEW r \in Record, ~SequenceCommitted(r.id), Request(w, r)
      PROVE  Once'
  <2>1. /\ \A v \in Writer : v # w => pc'[v] = pc[v] /\ call'[v] = call[v]
        /\ pc[w] \in Quiet /\ pc'[w] = "await" /\ call'[w] = r /\ DOMAIN call' = Writer
    BY <1>3 DEF Request, Goto, Durable, GateHeld, Asked
  <2>2. r.id \notin StoredIds
    BY <1>3, StoredIdsAre DEF SequenceCommitted, Covered, Ids
  <2>3. Asked'
    BY <1>3, <2>1 DEF Request, Asked
  <2>. QED
    BY <1>3, <2>1, <2>2, <2>3, MoveOnce
       DEF Request, Fresh, RecordHeld, Quiet, Holding, Sealing, catalogue
<1>4. ASSUME NEW w \in Writer, Noted(w) \/ Claim(w) \/ TakeGate(w)
      PROVE  Once'
  <2>1. /\ \A v \in Writer : v # w => pc'[v] = pc[v]
        /\ \/ pc[w] \in Quiet /\ pc'[w] = "idle"
           \/ pc[w] = "await" /\ pc'[w] = "enqueue"
           \/ pc[w] = "gate" /\ pc'[w] = "reconcile" /\ gate = Nobody /\ gate' = w
        /\ call' = call
    BY <1>4 DEF Noted, Claim, TakeGate, Goto, Durable, GateHeld
  <2>2. Asked'
    BY <2>1 DEF Asked, Quiet
  <2>. QED
    BY <1>4, <2>1, <2>2, MoveOnce, ConstantsAssumption
       DEF Noted, Claim, TakeGate, Fresh, RecordHeld, Quiet, Holding, Sealing, catalogue
<1>5. ASSUME NEW w \in Writer, EnqueueBusy(w)
      PROVE  Once'
  <2>1. /\ \A v \in Writer : v # w => pc'[v] = pc[v] /\ call'[v] = call[v]
        /\ pc[w] = "enqueue" /\ pc'[w] = "err" /\ DOMAIN call' = Writer
        /\ UNCHANGED <<gate, round>>
    BY <1>5 DEF EnqueueBusy, Return, Goto, Durable, GateHeld, Asked, Holding
  <2>2. Asked'
    BY <2>1 DEF Asked, Quiet
  <2>. QED
    BY <1>5, <2>1, <2>2, MoveOnce
       DEF EnqueueBusy, Fresh, RecordHeld, Quiet, Holding, Sealing, catalogue
<1>6. ASSUME NEW w \in Writer, pc[w] \in {"reconcile", "status"}
      PROVE  prep = {} /\ round.entries = {} /\ serving
  <2>1. serving /\ \A v \in Writer : v # w => pc[v] \notin Holding
    BY <1>6, OthersOutside DEF Durable, GateHeld, Holding, Quiet
  <2>2. \A v \in Writer : pc[v] \notin {"write", "recoverWrite", "recoverCommit"}
    BY <1>6, <2>1 DEF Holding
  <2>. QED  BY <1>6, <2>1, <2>2 DEF Exact, RecordHeld
<1>7. ASSUME NEW w \in Writer, ReconcileFirst(w)
      PROVE  Once'
  <2>1. /\ \A v \in Writer : v # w => pc'[v] = pc[v]
        /\ pc[w] = "reconcile" /\ pc'[w] = "status" /\ call' = call
    BY <1>7 DEF ReconcileFirst, Goto, Durable, GateHeld
  <2>2. Asked'
    BY <2>1 DEF Asked, Quiet
  <2>. QED
    BY <1>6, <1>7, <2>1, <2>2, MoveOnce
       DEF ReconcileFirst, Fresh, RecordHeld, Quiet, Holding, Sealing, catalogue
<1>8. ASSUME NEW w \in Writer,
             ReconcileFirstFails(w) \/ RecoverFails(w) \/ StatusFails(w) \/ PrepareFails(w) \/ Cancel(w)
      PROVE  FALSE
  <2>1. \A id : SequenceCommitted(id) => id \in StoredIds
    BY DEF SequenceCommitted, Exact
  <2>2. \A id \in StoredIds : Cardinality(Copies(id)) = 1
    BY UniqueMeansOne
  <2>3. CASE StatusFails(w)
    <3>1. "read" \notin Faults
      BY DEF NothingLeftBehind
    <3>2. SequenceCommitted(call[w].id) /\ Cardinality(Copies(call[w].id)) # 1
      BY <2>3, <3>1 DEF StatusFails
    <3>. QED  BY <2>1, <2>2, <3>2
  <2>4. CASE PrepareFails(w) \/ Cancel(w)
    BY <2>4 DEF PrepareFails, Cancel, NothingLeftBehind
  <2>5. CASE ReconcileFirstFails(w) \/ RecoverFails(w)
    BY <2>5 DEF ReconcileFirstFails, RecoverFails, NothingLeftBehind, Exact
  <2>. QED  BY <1>8, <2>3, <2>4, <2>5
<1>9. ASSUME NEW w \in Writer, Enqueue(w)
      PROVE  Once'
  <2>1. /\ \A v \in Writer : v # w => pc'[v] = pc[v]
        /\ pc[w] = "enqueue" /\ pc'[w] = "gate" /\ call' = call
        /\ UNCHANGED <<gate, round, prep, segments, objects, serving>>
    BY <1>9 DEF Enqueue, Goto, Durable, GateHeld, catalogue
  <2>2. \A e \in queue \cup round.entries : e.rec.id # call[w].id
    <3>1. ASSUME NEW e \in queue \cup round.entries, e.rec.id = call[w].id
          PROVE  FALSE
      <4>1. PICK v \in Writer : pc[v] \in {"gate"} \cup Holding /\ call[v] = e.rec
        BY DEF Waited
      <4>2. v = w
        BY <2>1, <3>1, <4>1 DEF Asked, Quiet, Holding
      <4>. QED  BY <2>1, <4>1, <4>2 DEF Holding
    <3>. QED  BY <3>1
  <2>3. PICK new : queue' = queue \cup {new} /\ new.rec = call[w]
    <3>1. ~QueueHas(call[w].id)
      BY <2>2 DEF QueueHas, Ids
    <3> DEFINE new == [rec |-> call[w], slot |-> FreeSlot(call[w])]
    <3>2. new.rec = call[w]
      OBVIOUS
    <3>3. queue' = IF QueueHas(call[w].id) THEN queue ELSE queue \cup {new}
      BY <1>9 DEF Enqueue
    <3> HIDE DEF new
    <3>4. queue' = queue \cup {new}
      BY <3>1, <3>3
    <3>. QED  BY <3>2, <3>4
  <2>4. call[w].id \notin StoredIds
    BY <2>1 DEF Fresh
  <2>5. /\ Stored' = Stored /\ StoredIds' = StoredIds
        /\ Records(round.entries)' = Records(round.entries)
        /\ \A p : KeptIn(p)' = KeptIn(p) /\ Complete(p)' = Complete(p)
        /\ Records(queue)' = Records(queue) \cup {call[w]}
    BY <2>1, <2>3 DEF Stored, StoredIds, Records, KeptIn, Complete, Ids
  <2>6. Asked'
    BY <2>1 DEF Asked, Quiet
  <2>7. Waited'
    <3>1. \A e \in queue' \cup round'.entries :
            \E v \in Writer : pc'[v] \in {"gate"} \cup Holding /\ call'[v] = e.rec
      <4>1. \A e \in queue \cup round.entries :
              \E v \in Writer : v # w /\ pc[v] \in {"gate"} \cup Holding /\ call[v] = e.rec
        BY <2>1 DEF Waited, Holding
      <4>. QED  BY <2>1, <2>3, <4>1
    <3>2. OneEntry(queue') /\ OneEntry(round'.entries)
      BY <2>1, <2>2, <2>3 DEF OneEntry, Waited
    <3>3. \A e \in queue', f \in round'.entries : e.rec.id # f.rec.id
      BY <2>1, <2>2, <2>3 DEF Waited
    <3>. QED  BY <3>1, <3>2, <3>3 DEF Waited, OneEntry
  <2>8. RecordHeld'
    BY <2>1, <2>5 DEF RecordHeld
  <2>9. RoundHeld'
    BY <2>1, RoundHeldKept DEF Sealing
  <2>10. Covered'
    BY <2>1, CoveredKept DEF Exact, PreparationResolvable
  <2>11. Exact'
    <3>1. (\A s \in segments : s.cover \subseteq StoredIds)'
      BY <2>1, <2>5 DEF Exact
    <3>2. (\A p \in prep : p.outputs # {} /\ (Complete(p) => p.cover \subseteq KeptIn(p)))'
      BY <2>1, <2>5 DEF Exact
    <3>3. (serving /\ prep # {} =>
             \E v \in Writer : pc[v] \in {"write", "recoverWrite", "recoverCommit"})'
      BY <2>1 DEF Exact
    <3>. QED  BY <3>1, <3>2, <3>3 DEF Exact
  <2>12. Fresh'
    <3>1. \A v \in Writer : Uncommitted(v)' => Uncommitted(v)
      BY <2>1 DEF Uncommitted, Sealing
    <3>. QED  BY <2>1, <2>3, <2>4, <2>5, <3>1 DEF Fresh
  <2>13. Unique'
    BY <2>1 DEF Unique, OneCopy, CommittedKeys
  <2>. QED
    BY <2>6, <2>7, <2>8, <2>9, <2>10, <2>11, <2>12, <2>13
<1>10. ASSUME NEW w \in Writer, AlreadyCommitted(w)
       PROVE  Once'
  <2>1. /\ pc[w] = "status" /\ UNCHANGED <<prep, segments, objects>>
        /\ call[w].id \in StoredIds
        /\ queue' \subseteq queue
        /\ \A e \in queue : e.rec.id # call[w].id => e \in queue'
        /\ \A e \in queue' : e.rec.id # call[w].id
    BY <1>10 DEF AlreadyCommitted, SequenceCommitted, Exact, RemoveIdentity, catalogue
  <2>2. prep = {} /\ round.entries = {}
    BY <1>6, <2>1
  <2>3. StoredIds' = StoredIds /\ Stored' = Stored
    BY <2>1 DEF StoredIds, Stored
  <2>4. Covered' /\ Unique'
    BY <2>1, CoveredKept DEF Exact, PreparationResolvable, Unique, OneCopy, CommittedKeys
  <2>5. ASSUME NEW v \in Writer, v # w, pc[v] = "gate"
        PROVE  call[v] \in Records(queue') \cup Stored'
    <3>1. call[v].id # call[w].id
      BY <2>1, <2>5 DEF Asked, Quiet
    <3>. QED  BY <2>1, <2>2, <2>3, <2>5, <3>1 DEF RecordHeld, Records
  <2>6. PICK result \in Quiet : Return(w, result, {call[w].id})
    BY <1>10 DEF AlreadyCommitted, Quiet
  <2>7. /\ \A e \in queue' : e.rec.id # call[w].id /\ e.rec.id \notin StoredIds'
        /\ \A v \in Writer : pc[v] \in {"await", "enqueue"} => call[v].id \notin StoredIds'
        /\ \A s \in segments' : s.cover \subseteq StoredIds'
    BY <2>1, <2>3 DEF Fresh, Exact
  <2>. QED
    BY <2>1, <2>2, <2>3, <2>4, <2>5, <2>6, <2>7, ReturnOnce DEF Holding
<1>11. ASSUME NEW w \in Writer, Seal(w)
       PROVE  Once'
  <2>1. /\ \A v \in Writer : v # w => pc'[v] = pc[v] /\ pc[v] \notin Holding
        /\ pc[w] = "status" /\ pc'[w] = "prepare" /\ gate = w /\ w # Nobody
        /\ UNCHANGED <<gate, call, serving, prep, segments, objects>>
        /\ queue' = {} /\ prep = {} /\ round.entries = {}
    BY <1>6, <1>11, OthersOutside, ConstantsAssumption
       DEF Seal, Goto, Durable, GateHeld, Holding, catalogue
  <2>2. PICK n \in 0 .. Cardinality(queue) : \E c \in [queue -> 1 .. n] :
          round' = [op |-> operations + 1, entries |-> queue, count |-> n, cut |-> c, written |-> 0]
    BY <1>11 DEF Seal
  <2>3. /\ round'.op = operations + 1 /\ round'.entries = queue
        /\ \A e \in round'.entries : round'.cut[e] \in 1 .. round'.count
    BY <2>2
  <2>4. call[w] \in Records(queue)
    <3>1. call[w].id \notin StoredIds
      BY <1>11, StoredIdsAre DEF Seal, SequenceCommitted, Covered, Ids
    <3>2. call[w] \notin Stored
      BY <3>1 DEF StoredIds
    <3>. QED  BY <2>1, <3>2 DEF RecordHeld, Records
  <2>5. \A i : <<operations + 1, i>> \notin DOMAIN objects
    BY DEF Durable, Separated, OldKeys
  <2>6. Stored' = Stored /\ StoredIds' = StoredIds
    BY <2>1 DEF Stored, StoredIds
  <2>7. Asked'
    BY <2>1 DEF Asked, Quiet
  <2>8. Waited'
    BY <2>1, <2>3 DEF Waited, OneEntry, Holding
  <2>9. RecordHeld'
    BY <2>1, <2>3, <2>6 DEF RecordHeld, Records, Holding
  <2>10. RoundHeld'
    <3>1. \A v \in Writer : pc'[v] \in Sealing => v = w
      BY <2>1 DEF Sealing, Holding
    <3>. QED  BY <2>1, <2>3, <2>4, <2>5, <3>1 DEF RoundHeld, Records
  <2>11. Covered'
    BY <2>1, CoveredKept DEF Exact, PreparationResolvable
  <2>12. Exact'
    BY <2>1, <2>6 DEF Exact
  <2>13. Fresh'
    <3>1. \A v \in Writer : pc'[v] \in {"await", "enqueue"} => pc[v] = pc'[v]
      BY <2>1
    <3>. QED  BY <2>1, <2>3, <2>6, <3>1 DEF Fresh
  <2>14. Unique'
    BY <2>1 DEF Unique, OneCopy, CommittedKeys
  <2>. QED
    BY <2>7, <2>8, <2>9, <2>10, <2>11, <2>12, <2>13, <2>14
<1>12. ASSUME NEW w \in Writer, pc[w] \in {"write", "recoverWrite", "recoverCommit"}
       PROVE  prep \subseteq {PlanOf(round)} /\ \A p \in prep : KeptIn(p) \subseteq Ids(round.entries)
  <2>1. prep \subseteq {PlanOf(round)}
    BY <1>12 DEF RoundHeld, Sealing, Durable, RoundPlanned
  <2>2. \A i \in 1 .. round.count : <<round.op, i>> \in DOMAIN objects =>
            objects[<<round.op, i>>] = Content(round, i)
    BY <1>12 DEF RoundHeld, Sealing
  <2>3. ASSUME NEW p \in prep, NEW k \in p.outputs \cap DOMAIN objects
        PROVE  objects[k] \subseteq round.entries
    <3>1. PICK i \in 1 .. round.count : k = <<round.op, i>>
      BY <2>1 DEF PlanOf, Outputs
    <3>. QED  BY <2>2, <3>1 DEF Content
  <2>. QED
    BY <2>1, <2>3 DEF KeptIn, Ids
<1>13. ASSUME NEW w \in Writer, pc[w] \in {"write", "recoverWrite", "recoverCommit"},
              NEW p \in prep, Complete(p), CommitSegments(p), UNCHANGED objects
       PROVE  /\ prep' = {} /\ Covered' /\ Unique'
              /\ \A s \in segments' : s.cover \subseteq StoredIds'
              /\ Records(round.entries) \subseteq Stored'
              /\ \A e \in queue : e.rec.id \notin StoredIds'
              /\ \A v \in Writer : pc[v] \in {"await", "enqueue"} => call[v].id \notin StoredIds'
  <2>1. /\ prep' = {} /\ Covered' /\ Unique'
        /\ \A s \in segments' : s.cover \subseteq StoredIds'
        /\ \A id \in StoredIds' : id \in StoredIds \/ id \in KeptIn(p)
    BY <1>13, CommitOnce DEF Durable
  <2>2. \A id \in StoredIds' : id \in StoredIds \/ id \in Ids(round.entries)
    BY <1>12, <1>13, <2>1
  <2>3. prep = {PlanOf(round)}
    BY <1>12, <1>13
  <2>4. Records(round.entries) \subseteq Stored'
    BY <1>13, <2>3, CommitStores DEF Sealing
  <2>5. \A e \in queue : e.rec.id \notin StoredIds'
    BY <2>2 DEF Fresh, Waited, Ids
  <2>6. ASSUME NEW v \in Writer, pc[v] \in {"await", "enqueue"}
        PROVE  call[v].id \notin StoredIds'
    <3>1. ASSUME NEW e \in round.entries  PROVE e.rec.id # call[v].id
      <4>1. PICK u \in Writer : pc[u] \in {"gate"} \cup Holding /\ call[u] = e.rec
        BY DEF Waited
      <4>. QED  BY <2>6, <4>1 DEF Asked, Quiet, Holding
    <3>. QED  BY <2>2, <2>6, <3>1 DEF Fresh, Ids
  <2>. QED
    BY <2>1, <2>4, <2>5, <2>6
<1>14. ASSUME NEW p \in prep, AbortPreparation(p), UNCHANGED objects
       PROVE  /\ prep' = {} /\ Covered' /\ Unique' /\ Stored' = Stored /\ StoredIds' = StoredIds
              /\ \A s \in segments' : s.cover \subseteq StoredIds'
  <2>1. prep' = {} /\ segments' = segments
    BY <1>14 DEF AbortPreparation, Durable, Separated
  <2>2. Covered'
    BY <1>14, AbortCovers DEF Exact, PreparationResolvable
  <2>3. Stored' = Stored /\ StoredIds' = StoredIds
    BY <1>14, <2>1 DEF Stored, StoredIds
  <2>4. Unique'
    BY <1>14, <2>1 DEF Unique, OneCopy, CommittedKeys
  <2>. QED
    BY <2>1, <2>2, <2>3, <2>4 DEF Exact
<1>15. ASSUME NEW w \in Writer, pc[w] \in Sealing, NEW s \in Sealing, Goto(w, s)
       PROVE  /\ \A v \in Writer : v # w => pc'[v] = pc[v] /\ pc[v] \notin Holding
              /\ pc'[w] = s
              /\ \A v \in Writer : pc'[v] \in Sealing => v = w
  BY <1>15, OthersOutside DEF Goto, Durable, GateHeld, Sealing, Holding
<1>16. ASSUME NEW w \in Writer, Prepare(w)
       PROVE  Once'
  <2>1. /\ \A v \in Writer : v # w => pc'[v] = pc[v] /\ pc[v] \notin Holding
        /\ pc[w] = "prepare" /\ pc'[w] = "write"
        /\ \A v \in Writer : pc'[v] \in Sealing => v = w
        /\ prep' = {PlanOf(round)}
        /\ UNCHANGED <<call, queue, gate, serving, round, segments, objects>>
    BY <1>15, <1>16 DEF Prepare, Sealing
  <2>2. Stored' = Stored /\ StoredIds' = StoredIds
    BY <2>1 DEF Stored, StoredIds
  <2>3. PlanOf(round).outputs \cap DOMAIN objects = {} /\ PlanOf(round).outputs # {}
    <3>1. Outputs(round) \cap DOMAIN objects = {}
      BY <2>1 DEF Durable, RoundPlanned
    <3>2. PICK e \in round.entries : round.cut[e] \in 1 .. round.count
      BY <2>1 DEF RoundHeld, Sealing, Records
    <3>3. <<round.op, round.cut[e]>> \in Outputs(round)
      BY <3>2 DEF Outputs
    <3>. QED  BY <3>1, <3>3 DEF PlanOf
  <2>4. Covered'
    BY <2>1, <2>3 DEF Covered
  <2>5. Exact'
    <3>1. (\A s \in segments : s.cover \subseteq StoredIds)'
      BY <2>1, <2>2 DEF Exact
    <3>2. (\A p \in prep : p.outputs # {} /\ (Complete(p) => p.cover \subseteq KeptIn(p)))'
      BY <2>1, <2>3 DEF Complete
    <3>. QED  BY <2>1, <3>1, <3>2 DEF Exact
  <2>6. Fresh'
    <3>1. \A v \in Writer : Uncommitted(v)' => Uncommitted(w)
      BY <2>1 DEF Uncommitted, Sealing
    <3>2. (\A p \in prep : KeptIn(p) \cap StoredIds = {})'
      BY <2>1, <2>3 DEF KeptIn
    <3>3. \A v \in Writer : pc'[v] \in {"await", "enqueue"} => pc[v] = pc'[v]
      BY <2>1
    <3>. QED  BY <2>1, <2>2, <3>1, <3>2, <3>3 DEF Fresh
  <2>7. Unique'
    BY <2>1, <2>3 DEF Unique, OneCopy, CommittedKeys
  <2>. QED
    BY <1>16, <2>1, <2>2, <2>4, <2>5, <2>6, <2>7, SealedOnce DEF Prepare, Sealing
<1>17. ASSUME NEW w \in Writer, pc[w] = "write", NEW s \in {"write", "recoverWrite"}, Goto(w, s),
              round.written < round.count,
              Store(<<round.op, round.written + 1>>, Content(round, round.written + 1)),
              UNCHANGED <<call, queue, gate, serving, prep, segments>>,
              UNCHANGED <<round.op, round.entries, round.count, round.cut>>
       PROVE  Once'
  <2>1. /\ \A v \in Writer : v # w => pc'[v] = pc[v] /\ pc[v] \notin Holding
        /\ pc'[w] = s
        /\ \A v \in Writer : pc'[v] \in Sealing => v = w
    BY <1>15, <1>17 DEF Sealing
  <2>2. /\ Covered' /\ Unique'
        /\ StoredIds' = StoredIds /\ Stored' = Stored
        /\ \A p \in prep : KeptIn(p)' \subseteq Ids(round.entries)
        /\ \A p \in prep : p.outputs # {} /\ (Complete(p)' => p.cover \subseteq KeptIn(p)')
        /\ \A i \in 1 .. round.count : <<round.op, i>> \in DOMAIN objects' =>
              objects'[<<round.op, i>>] = Content(round, i)
    BY <1>17, WriteOnce
  <2>3. prep = {PlanOf(round)} /\ Uncommitted(w)
    BY <1>17 DEF Durable, RoundPlanned, Uncommitted, Sealing
  <2>4. Exact'
    <3>1. (\A p \in prep : p.outputs # {} /\ (Complete(p) => p.cover \subseteq KeptIn(p)))'
      BY <1>17, <2>2
    <3>2. (\A c \in segments : c.cover \subseteq StoredIds)'
      BY <1>17, <2>2 DEF Exact
    <3>. QED  BY <2>1, <3>1, <3>2 DEF Exact
  <2>5. Fresh'
    <3>1. \A e \in round.entries : e.rec.id \notin StoredIds
      BY <2>3 DEF Fresh
    <3>2. (\A p \in prep : KeptIn(p) \cap StoredIds = {})'
      BY <1>17, <2>2, <3>1 DEF Ids
    <3>3. \A v \in Writer : pc'[v] \in {"await", "enqueue"} => pc[v] = pc'[v]
      BY <2>1
    <3>. QED  BY <1>17, <2>1, <2>2, <3>1, <3>2, <3>3 DEF Fresh
  <2>. QED
    BY <1>17, <2>2, <2>3, <2>4, <2>5, SealedOnce DEF Sealing
<1>18. ASSUME NEW w \in Writer, pc[w] = "write", NEW s \in {"recoverWrite", "recoverCommit"},
              Goto(w, s), UNCHANGED <<call, queue, gate, serving, round, prep, segments, objects>>
       PROVE  Once'
  <2>1. /\ \A v \in Writer : v # w => pc'[v] = pc[v] /\ pc[v] \notin Holding
        /\ pc'[w] = s
        /\ \A v \in Writer : pc'[v] \in Sealing => v = w
    BY <1>15, <1>18 DEF Sealing
  <2>2. prep = {PlanOf(round)} /\ Uncommitted(w)
    BY <1>18 DEF Durable, RoundPlanned, Uncommitted, Sealing
  <2>3. /\ Stored' = Stored /\ StoredIds' = StoredIds
        /\ \A p : KeptIn(p)' = KeptIn(p) /\ Complete(p)' = Complete(p)
    BY <1>18 DEF Stored, StoredIds, KeptIn, Complete, Ids
  <2>4. Covered'
    BY <1>18, CoveredKept DEF Exact, PreparationResolvable
  <2>5. Exact'
    <3>1. (\A c \in segments : c.cover \subseteq StoredIds)'
      BY <1>18, <2>3 DEF Exact
    <3>2. (\A p \in prep : p.outputs # {} /\ (Complete(p) => p.cover \subseteq KeptIn(p)))'
      BY <1>18, <2>3 DEF Exact
    <3>. QED  BY <2>1, <3>1, <3>2 DEF Exact
  <2>6. Fresh'
    <3>1. \A v \in Writer : pc'[v] \in {"await", "enqueue"} => pc[v] = pc'[v]
      BY <2>1
    <3>. QED  BY <1>18, <2>1, <2>2, <2>3, <3>1 DEF Fresh
  <2>7. Unique'
    BY <1>18 DEF Unique, OneCopy, CommittedKeys
  <2>. QED
    BY <1>18, <2>2, <2>3, <2>4, <2>5, <2>6, <2>7, SealedOnce DEF Sealing
<1>19. ASSUME NEW w \in Writer, WriteSegment(w) \/ PutFails(w) \/ ReserveFails(w)
       PROVE  Once'
  <2>1. pc[w] = "write" /\ UNCHANGED <<call, queue, gate, serving, prep, segments>>
    BY <1>19 DEF WriteSegment, PutFails, ReserveFails, catalogue
  <2>2. CASE WriteSegment(w)
    <3>1. Goto(w, "write") /\ UNCHANGED <<round.op, round.entries, round.count, round.cut>>
      BY <2>2 DEF WriteSegment, Goto, Durable, GateHeld
    <3>. QED  BY <1>17, <2>1, <2>2, <3>1 DEF WriteSegment
  <2>3. CASE Goto(w, "recoverWrite") /\ round' = round /\ UNCHANGED objects
    BY <1>18, <2>1, <2>3
  <2>4. CASE PutFails(w) /\ ~UNCHANGED objects
    BY <1>17, <2>1, <2>4 DEF PutFails
  <2>. QED  BY <1>19, <2>2, <2>3, <2>4 DEF PutFails, ReserveFails
<1>20. ASSUME NEW w \in Writer, Commit(w) \/ CommitFails(w)
       PROVE  Once'
  <2>1. /\ pc[w] = "write" /\ UNCHANGED <<call, queue, gate, serving, round, objects>>
        /\ \A p \in prep : Complete(p)
    BY <1>20, CompleteWhenWritten DEF Commit, CommitFails, Written, Durable
  <2>2. PICK s \in {"settle", "recoverCommit"} : Goto(w, s)
    BY <1>20 DEF Commit, CommitFails
  <2>3. CASE \E p \in prep : CommitSegments(p)
    <3>1. /\ prep' = {} /\ Covered' /\ Unique'
          /\ \A c \in segments' : c.cover \subseteq StoredIds'
          /\ Records(round.entries) \subseteq Stored'
          /\ \A e \in queue : e.rec.id \notin StoredIds'
          /\ \A v \in Writer : pc[v] \in {"await", "enqueue"} => call[v].id \notin StoredIds'
      BY <1>13, <2>1, <2>3
    <3>2. /\ \A v \in Writer : v # w => pc'[v] = pc[v]
          /\ pc'[w] = s /\ \A v \in Writer : pc'[v] \in Sealing => v = w
      BY <1>15, <2>1, <2>2 DEF Sealing
    <3>3. Exact'
      BY <3>1 DEF Exact
    <3>4. Fresh'
      <4>1. \A v \in Writer : ~Uncommitted(v)'
        BY <2>2, <3>1, <3>2 DEF Uncommitted, Sealing
      <4>2. \A v \in Writer : pc'[v] \in {"await", "enqueue"} => pc[v] = pc'[v]
        BY <2>2, <3>2
      <4>. QED  BY <2>1, <3>1, <4>1, <4>2 DEF Fresh
    <3>. QED
      BY <1>1, <2>1, <2>2, <3>1, <3>3, <3>4, SealedOnce DEF Sealing
  <2>4. CASE CommitFails(w) /\ UNCHANGED catalogue
    BY <1>18, <2>1, <2>4 DEF CommitFails, catalogue
  <2>. QED  BY <1>20, <2>3, <2>4 DEF Commit, CommitFails
<1>21. ASSUME NEW w \in Writer, pc[w] \in Sealing, NEW v \in Writer, v # w, pc[v] = "gate",
              Records(round.entries) \subseteq Stored'
       PROVE  call[v] \in Records(queue) \cup Stored'
  BY <1>1, <1>21 DEF RecordHeld
<1>22. ASSUME NEW w \in Writer, pc[w] \in Sealing, NEW e \in queue
       PROVE  e.rec.id # call[w].id
  BY <1>22 DEF RoundHeld, Waited, Records
<1>23. ASSUME NEW w \in Writer, RecoverCommitted(w)
       PROVE  Once'
  <2>1. /\ pc[w] \in {"recoverWrite", "recoverCommit"} /\ UNCHANGED <<queue, objects>>
        /\ pc[w] \in Sealing /\ pc[w] \in Holding
    BY <1>23 DEF RecoverCommitted, Sealing, Holding
  <2>2. PICK result \in Quiet : Return(w, result, Ids(round.entries))
    BY <1>23 DEF RecoverCommitted, Quiet
  <2>3. /\ prep' = {} /\ Covered' /\ Unique'
        /\ \A s \in segments' : s.cover \subseteq StoredIds'
        /\ Records(round.entries) \subseteq Stored'
        /\ \A e \in queue : e.rec.id \notin StoredIds'
        /\ \A v \in Writer : pc[v] \in {"await", "enqueue"} => call[v].id \notin StoredIds'
    <3>1. CASE prep = {} /\ UNCHANGED catalogue
      <4>1. Stored' = Stored /\ StoredIds' = StoredIds
        BY <2>1, <3>1 DEF Stored, StoredIds, catalogue
      <4>2. Covered' /\ Unique'
        BY <2>1, <3>1, CoveredKept
           DEF Exact, PreparationResolvable, Unique, OneCopy, CommittedKeys, catalogue
      <4>3. Records(round.entries) \subseteq Stored
        BY <2>1, <3>1 DEF RoundHeld, Sealing
      <4>. QED  BY <3>1, <4>1, <4>2, <4>3 DEF Exact, Fresh, catalogue
    <3>2. CASE \E p \in prep : Complete(p) /\ CommitSegments(p)
      BY <1>13, <2>1, <3>2
    <3>. QED  BY <1>23, <3>1, <3>2 DEF RecoverCommitted
  <2>. QED
    BY <1>1, <1>21, <1>22, <2>1, <2>2, <2>3, ReturnOnce
<1>24. ASSUME NEW w \in Writer, RecoverAborted(w)
       PROVE  Once'
  <2>1. /\ pc[w] \in {"recoverWrite", "recoverCommit"} /\ objects' = objects
        /\ pc[w] \in Sealing /\ pc[w] \in Holding
        /\ Return(w, "err", Ids(round.entries))
    BY <1>24 DEF RecoverAborted, Sealing, Holding
  <2>2. /\ queue' \subseteq queue \cup round.entries
        /\ \A e \in queue' : e.rec.id # call[w].id
        /\ \A e \in queue \cup round.entries : e.rec.id # call[w].id => e \in queue'
    BY <1>24 DEF RecoverAborted, RemoveIdentity
  <2>3. PICK p \in prep : AbortPreparation(p)
    BY <1>24 DEF RecoverAborted
  <2>4. /\ prep' = {} /\ Covered' /\ Unique' /\ Stored' = Stored /\ StoredIds' = StoredIds
        /\ \A s \in segments' : s.cover \subseteq StoredIds'
    BY <1>14, <2>1, <2>3
  <2>5. \A e \in queue' : e.rec.id \notin StoredIds'
    BY <2>1, <2>2, <2>3, <2>4 DEF Fresh, Uncommitted, Sealing
  <2>6. ASSUME NEW v \in Writer, v # w, pc[v] = "gate"
        PROVE  call[v] \in Records(queue') \cup Stored'
    <3>1. call[v].id # call[w].id
      BY <2>1, <2>6 DEF Asked, Quiet
    <3>. QED  BY <2>2, <2>4, <2>6, <3>1 DEF RecordHeld, Records
  <2>7. \A v \in Writer : pc[v] \in {"await", "enqueue"} => call[v].id \notin StoredIds'
    BY <2>4 DEF Fresh
  <2>. QED
    BY <1>1, <2>1, <2>2, <2>4, <2>5, <2>6, <2>7, ReturnOnce DEF Quiet
<1>25. ASSUME NEW w \in Writer, Settle(w) \/ SettleFails(w)
       PROVE  Once'
  <2>1. /\ pc[w] = "settle" /\ UNCHANGED <<queue, prep, segments, objects>>
        /\ pc[w] \in Sealing /\ pc[w] \in Holding
    BY <1>25 DEF Settle, SettleFails, Sealing, Holding, catalogue
  <2>2. PICK result \in Quiet : Return(w, result, Ids(round.entries))
    BY <1>25 DEF Settle, SettleFails, Quiet
  <2>3. prep = {}
    <3>1. serving /\ \A v \in Writer : v # w => pc[v] \notin Holding
      BY <2>1, OthersOutside DEF Durable, GateHeld, Quiet
    <3>2. \A v \in Writer : pc[v] \notin {"write", "recoverWrite", "recoverCommit"}
      BY <2>1, <3>1 DEF Holding
    <3>. QED  BY <3>1, <3>2 DEF Exact
  <2>4. Stored' = Stored /\ StoredIds' = StoredIds
    BY <2>1 DEF Stored, StoredIds
  <2>5. Covered' /\ Unique'
    BY <2>1, CoveredKept DEF Exact, PreparationResolvable, Unique, OneCopy, CommittedKeys
  <2>6. Records(round.entries) \subseteq Stored'
    BY <2>1, <2>4 DEF RoundHeld, Sealing
  <2>7. /\ \A e \in queue : e.rec.id \notin StoredIds'
        /\ \A v \in Writer : pc[v] \in {"await", "enqueue"} => call[v].id \notin StoredIds'
        /\ \A s \in segments' : s.cover \subseteq StoredIds'
    BY <2>1, <2>4 DEF Fresh, Exact
  <2>. QED
    BY <1>1, <1>21, <1>22, <2>1, <2>2, <2>3, <2>5, <2>6, <2>7, ReturnOnce
<1>26. CASE Crash
  <2>1. /\ queue' = {} /\ round'.entries = {} /\ serving' = FALSE
        /\ \A v \in Writer : pc'[v] = "idle"
        /\ DOMAIN call' = Writer
        /\ UNCHANGED <<prep, segments, objects>>
    BY <1>26 DEF Crash, NoRound, catalogue
  <2>2. /\ Stored' = Stored /\ StoredIds' = StoredIds
        /\ \A p : KeptIn(p)' = KeptIn(p) /\ Complete(p)' = Complete(p)
    BY <2>1 DEF Stored, StoredIds, KeptIn, Complete, Ids
  <2>3. Asked' /\ Waited' /\ RecordHeld' /\ RoundHeld'
    BY <2>1 DEF Asked, Waited, OneEntry, RecordHeld, RoundHeld, Quiet, Sealing
  <2>4. Covered'
    BY <2>1, CoveredKept DEF Exact, PreparationResolvable
  <2>5. Exact'
    <3>1. (\A c \in segments : c.cover \subseteq StoredIds)'
      BY <2>1, <2>2 DEF Exact
    <3>2. (\A p \in prep : p.outputs # {} /\ (Complete(p) => p.cover \subseteq KeptIn(p)))'
      BY <2>1, <2>2 DEF Exact
    <3>. QED  BY <2>1, <3>1, <3>2 DEF Exact
  <2>6. Fresh'
    <3>1. \A v \in Writer : ~Uncommitted(v)'
      BY <2>1 DEF Uncommitted, Sealing
    <3>. QED  BY <2>1, <2>2, <3>1 DEF Fresh
  <2>7. Unique'
    BY <2>1 DEF Unique, OneCopy, CommittedKeys
  <2>. QED  BY <2>3, <2>4, <2>5, <2>6, <2>7
<1>27. CASE Startup
  <2>1. /\ UNCHANGED <<queue, gate, pc, call, round, objects>>
        /\ \A v \in Writer : pc[v] \in Quiet
    BY <1>27 DEF Startup, Durable, GateHeld
  <2>2. queue = {} /\ round.entries = {}
    BY <2>1 DEF Waited, Holding, Quiet
  <2>3. /\ prep' = {} /\ Covered' /\ Unique'
        /\ \A s \in segments' : s.cover \subseteq StoredIds'
    <3>1. CASE prep = {} /\ UNCHANGED catalogue
      <4>1. StoredIds' = StoredIds
        BY <2>1, <3>1 DEF Stored, StoredIds, catalogue
      <4>2. Covered' /\ Unique'
        BY <2>1, <3>1, CoveredKept
           DEF Exact, PreparationResolvable, Unique, OneCopy, CommittedKeys, catalogue
      <4>. QED  BY <3>1, <4>1, <4>2 DEF Exact, catalogue
    <3>2. CASE \E p \in prep : Complete(p) /\ CommitSegments(p)
      BY <2>1, <3>2, CommitOnce DEF Durable
    <3>3. CASE \E p \in prep : AbortPreparation(p)
      BY <1>14, <2>1, <3>3
    <3>. QED  BY <1>27, <3>1, <3>2, <3>3 DEF Startup, ReconcilePending
  <2>4. Asked' /\ Waited' /\ RecordHeld' /\ RoundHeld'
    BY <2>1, <2>2 DEF Asked, Waited, OneEntry, RecordHeld, RoundHeld, Quiet, Sealing, Holding
  <2>5. Exact'
    BY <2>3 DEF Exact
  <2>6. Fresh'
    <3>1. \A v \in Writer : ~Uncommitted(v)'
      BY <2>1 DEF Uncommitted, Sealing, Quiet
    <3>. QED  BY <2>1, <2>2, <2>3, <3>1 DEF Fresh, Quiet
  <2>. QED  BY <2>3, <2>4, <2>5, <2>6
<1>. QED
  BY <1>2, <1>3, <1>4, <1>5, <1>7, <1>8, <1>9, <1>10, <1>11, <1>16, <1>19, <1>20, <1>23, <1>24,
     <1>25, <1>26, <1>27 DEF CursorNext, Step, Fault

\* OneRecordPerCursor, for any number of callers, documents and bounds and any
\* failing puts, reservations, commits, settlements and crashes, as long as clients
\* do not retry a committed cursor and no call leaves its record behind.
THEOREM OneRecord ==
  ASSUME NothingLeftBehind, "retry" \notin Faults
  PROVE  Spec => []OneRecordPerCursor
<1>1. Init => Once
  BY OnceInit
<1>2. Durable /\ Once /\ [Next]_vars => Once'
  <2>1. \A id \in Identity : [id |-> id, body |-> BodyOf[id]] \in Record
    BY ClientAssumption DEF Record
  <2>2. [Next]_vars => [CursorNext]_vars
    BY <2>1 DEF Next, CursorNext
  <2>. QED  BY <2>2, OnceNext
<1>3. Once => OneRecordPerCursor
  BY UniqueMeansOne DEF Once
<1>. QED
  BY <1>1, <1>2, <1>3, StorageProtected, PTL DEF Spec
=============================================================================
