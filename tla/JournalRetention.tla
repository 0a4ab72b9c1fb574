-------------------------- MODULE JournalRetention --------------------------
(***************************************************************************)
(* What happens to journal objects after they are committed: compaction    *)
(* replaces a document's segments by a base, deletion of a document takes  *)
(* its journal rows away, and the retirement worker deletes what nothing   *)
(* needs and rewrites a segment that still holds an erased document's      *)
(* records.  All of them hold one gate (Catalog.journal_gate), and each    *)
(* can stop between two of its steps.  An append is one step here: its     *)
(* protocol is module Journal.                                             *)
(***************************************************************************)
EXTENDS Naturals, FiniteSets, FiniteSetsExt

CONSTANTS
  RetDoc,       \* storage identities
  RetSegments,  \* bound: flushes in a behaviour
  RetFaults,    \* "crash", "put", "commit", "delete": what may go wrong
  RetFailures   \* bound: how many times it does

ASSUME RetAssumption == RetSegments \in Nat /\ RetFailures \in Nat

VARIABLES
  retStatus,   \* documents.status, with "gone" for a row that is removed
  retSeq,      \* the last durable sequence of each document
  retDue,      \* rooms that have appended and may compact before they return
  retFlushed,  \* flushes so far: the next segment_seq
  retSegs,     \* journal_segments with their journal_segment_coverage
  retBase,     \* journal_bases: the base sequence of each document, 0 for none
  retRoot,     \* journal_state.manifest_key as a set of at most one key
  retListed,   \* the keys the current manifest names
  retRevision, \* journal_state.revision, counted where a manifest key needs it
  retRows,     \* journal_retirements
  retObjects,  \* the blob store
  retReserved, \* object_reservations, as <<document, key>>
  retCharged,  \* object_accounting, as <<document, key>>
  retPlan,     \* the unresolved preparation of a compaction: at most one
  retGate,     \* the step of whoever holds the gate
  retWork,     \* what that step works on: at most one record
  retPass,     \* the rows the retirement pass has read and not yet handled
  retFails     \* faults so far

retJournal == <<retSegs, retBase, retRoot, retListed, retRevision>>
retLedger == <<retReserved, retCharged>>
retDocs == <<retStatus, retSeq, retDue, retFlushed>>
retVars == <<retDocs, retJournal, retRows, retObjects, retLedger, retPlan,
             retGate, retWork, retPass, retFails>>

\* Object keys.  A segment's key stands for its body: the documents it holds
\* records of.  A rewrite of a manifest is named after the segment it moves to.
SegKey(n, docs) == <<"segment", n, docs>>
BaseKey(d, seq) == <<"base", d, seq>>
RootKey(revision) == <<"manifest", revision, {}>>
MovedRoot(root, key) == <<"manifest", root[2], key[3]>>
DocsIn(key) == key[3]
Deployment == "deployment"   \* the empty storage_id of a retirement row

KeysOf(segs) == {s.key : s \in segs}
BaseKeys == {BaseKey(d, retBase[d]) : d \in {e \in RetDoc : retBase[e] > 0}}
RetLive == KeysOf(retSegs) \cup BaseKeys \cup retRoot \cup retListed
RowKeys(rows) == {r.key : r \in rows}
RetOutputs(p) == {BaseKey(p.doc, p.seq), p.root}

\* INSERT INTO journal_retirements ... ON CONFLICT DO NOTHING / DO UPDATE.
Row(key, kind, storage) == [key |-> key, kind |-> kind, storage |-> storage]
Queue(rows, new) == rows \cup {r \in new : r.key \notin RowKeys(rows)}
Requeue(rows, new) == {r \in rows : r.key \notin RowKeys(new)} \cup new

MayFail(f) == f \in RetFaults /\ retFails < RetFailures
Failed == retFails' = retFails + 1

---------------------------------------------------------------------------
\* A flush of one record of each document in ds, committed and charged.
RetFlush(ds) ==
  /\ retGate = "free" /\ retPlan = {}
  /\ retFlushed < RetSegments
  /\ ds # {} /\ \A d \in ds : retStatus[d] = "active"
  /\ LET key == SegKey(retFlushed + 1, ds)
         owner == CHOOSE d \in ds : TRUE
     IN /\ retSegs' = retSegs \cup
             {[id |-> retFlushed + 1, key |-> key, owner |-> owner,
               cover |-> [d \in ds |-> retSeq[d] + 1]]}
        /\ retObjects' = retObjects \cup {key}
        /\ retCharged' = retCharged \cup {<<owner, key>>}
  /\ retSeq' = [d \in RetDoc |-> IF d \in ds THEN retSeq[d] + 1 ELSE retSeq[d]]
  /\ retDue' = retDue \cup ds
  /\ retFlushed' = retFlushed + 1
  /\ UNCHANGED <<retStatus, retBase, retRoot, retListed, retRevision, retRows,
                 retReserved, retPlan, retGate, retWork, retPass, retFails>>

\* committed_segments_through: segments of d that no other document still
\* replays from.
Retirable(d) ==
  {s \in retSegs : /\ d \in DOMAIN s.cover
                   /\ \A o \in DOMAIN s.cover \ {d} : retBase[o] >= s.cover[o]}

\* compact, up to its durable preparation and the base's reservation.  The
\* room that asks has just appended its whole state at retSeq[d]; whether the
\* tail is long enough to compact is left open.
RetCompactPrepare(d) ==
  /\ retGate = "free" /\ retPlan = {}
  /\ d \in retDue /\ retStatus[d] = "active"
  /\ retDue' = retDue \ {d}
  /\ LET base == BaseKey(d, retSeq[d])
         inputs == KeysOf(Retirable(d))
     IN /\ retPlan' = {[doc |-> d, seq |-> retSeq[d], inputs |-> inputs,
                        root |-> RootKey(retRevision + 1),
                        listed |-> (BaseKeys \ {BaseKey(d, retBase[d])}) \cup {base}
                                   \cup (KeysOf(retSegs) \ inputs)]}
        /\ retReserved' = retReserved \cup {<<d, base>>}
  /\ retGate' = "put_base"
  /\ UNCHANGED <<retStatus, retSeq, retFlushed, retJournal, retRows, retObjects, retCharged,
                 retWork, retPass, retFails>>

RetCompactPutBase ==
  /\ retGate = "put_base"
  /\ \E p \in retPlan :
       /\ retObjects' = retObjects \cup {BaseKey(p.doc, p.seq)}
       /\ retReserved' = retReserved \cup {<<p.doc, p.root>>}
  /\ retGate' = "put_root"
  /\ UNCHANGED <<retDocs, retJournal, retRows, retCharged, retPlan, retWork,
                 retPass, retFails>>

RetCompactPutRoot ==
  /\ retGate = "put_root"
  /\ \E p \in retPlan : retObjects' = retObjects \cup {p.root}
  /\ retGate' = "commit"
  /\ UNCHANGED <<retDocs, retJournal, retRows, retLedger, retPlan, retWork,
                 retPass, retFails>>

\* (mutant) the manifest that is replaced is not queued.
CommitPlanKeepingRoot(p) ==
  /\ retSegs' = {s \in retSegs : s.key \notin p.inputs}
  /\ retBase' = [retBase EXCEPT ![p.doc] = p.seq]
  /\ retRoot' = {p.root} /\ retListed' = p.listed
  /\ retRevision' = retRevision + 1
  /\ retRows' = Queue(retRows,
        {Row(BaseKey(p.doc, n), "base", p.doc) : n \in {retBase[p.doc]} \ {0}}
          \cup {Row(k, "segment", p.doc) : k \in p.inputs})

\* commit_compaction_shards_sql, one transaction.
CommitPlan(p) ==
  /\ retSegs' = {s \in retSegs : s.key \notin p.inputs}
  /\ retBase' = [retBase EXCEPT ![p.doc] = p.seq]
  /\ retRoot' = {p.root} /\ retListed' = p.listed
  /\ retRevision' = retRevision + 1
  /\ retRows' = Queue(retRows,
        {Row(BaseKey(p.doc, n), "base", p.doc) : n \in {retBase[p.doc]} \ {0}}
          \cup {Row(k, "manifest", Deployment) : k \in retRoot \ {p.root}}
          \cup {Row(k, "segment", p.doc) : k \in p.inputs})

RetCompactCommit ==
  /\ retGate = "commit"
  /\ \E p \in retPlan :
       /\ CommitPlan(p)
       /\ retWork' = {[keys |-> {<<p.doc, k>> : k \in RetOutputs(p)}]}
  /\ retPlan' = {} /\ retGate' = "settle"
  /\ UNCHANGED <<retDocs, retObjects, retLedger, retPass, retFails>>

\* commit_object of the base and the manifest.
RetCompactSettle ==
  /\ retGate = "settle"
  /\ \E w \in retWork : /\ retCharged' = retCharged \cup (w.keys \cap retReserved)
                        /\ retReserved' = retReserved \ w.keys
  /\ retWork' = {} /\ retGate' = "free"
  /\ UNCHANGED <<retDocs, retJournal, retRows, retObjects, retPlan, retPass, retFails>>

\* A put or the commit fails, having reached the store or not; the compaction
\* returns its error.
RetCompactFails ==
  /\ \E p \in retPlan :
       \/ /\ retGate = "put_base" /\ MayFail("put")
          /\ retObjects' \in {retObjects, retObjects \cup {BaseKey(p.doc, p.seq)}}
       \/ /\ retGate = "put_root" /\ MayFail("put")
          /\ retObjects' \in {retObjects, retObjects \cup {p.root}}
       \/ /\ retGate = "commit" /\ MayFail("commit") /\ UNCHANGED retObjects
  /\ retGate' = "free" /\ Failed
  /\ UNCHANGED <<retDocs, retJournal, retRows, retLedger, retPlan, retWork, retPass>>

\* reconcile_pending and reconcile_object_reservations: at startup, and before
\* the next publication when one is unresolved.
RetReconcile ==
  /\ \/ retGate = "startup"
     \/ retGate = "free" /\ retPlan # {}
  /\ \/ /\ retPlan = {} /\ UNCHANGED <<retJournal, retRows>>
     \/ \E p \in retPlan :
          IF RetOutputs(p) \subseteq retObjects /\ p.inputs \subseteq KeysOf(retSegs)
          THEN CommitPlan(p)
          ELSE /\ retRows' = Queue(retRows, {Row(k, "segment", p.doc) : k \in RetOutputs(p)})
               /\ UNCHANGED retJournal
  /\ retPlan' = {}
  /\ retCharged' = retCharged \cup {r \in retReserved : r[2] \in retObjects}
  /\ retReserved' = {}
  /\ retGate' = "free"
  /\ UNCHANGED <<retDocs, retObjects, retWork, retPass, retFails>>

---------------------------------------------------------------------------
\* begin_delete.
RetStartDelete(d) ==
  /\ retStatus[d] = "active"
  /\ retStatus' = [retStatus EXCEPT ![d] = "deleting"]
  /\ UNCHANGED <<retSeq, retDue, retFlushed, retJournal, retRows, retObjects, retLedger,
                 retPlan, retGate, retWork, retPass, retFails>>

RetWithout(s, d) == [s EXCEPT !.cover = [o \in DOMAIN s.cover \ {d} |-> s.cover[o]]]
Heir(s, d) ==
  LET others == DOMAIN s.cover \ {d}
      active == {o \in others : retStatus[o] = "active"}
  IN CHOOSE o \in IF active # {} THEN active ELSE others : TRUE

HandOver(d, shared) ==
  (retCharged \ {<<d, s.key>> : s \in shared}) \cup
    {<<Heir(s, d), s.key>> : s \in {t \in shared : <<d, t.key>> \in retCharged}}

\* retire_storage_sql, one transaction under the gate; Busy while a
\* preparation is unresolved.
RetRetire(d) ==
  /\ retGate = "free" /\ retPlan = {} /\ retStatus[d] = "deleting"
  /\ LET mine == {s \in retSegs : d \in DOMAIN s.cover}
         shared == {s \in mine : DOMAIN s.cover # {d}}
     IN /\ mine # {} \/ retBase[d] > 0 \/ retRoot # {}
        /\ retSegs' = (retSegs \ mine) \cup {RetWithout(s, d) : s \in shared}
        /\ retCharged' = HandOver(d, shared)
        /\ retRows' =
             Requeue(Queue(retRows,
                       {Row(k, "manifest", d) : k \in retRoot}
                         \cup {Row(BaseKey(d, n), "base", d) : n \in {retBase[d]} \ {0}}),
                     {Row(s.key, "rewrite", d) : s \in shared}
                       \cup {Row(s.key, "segment", d) : s \in mine \ shared})
  /\ retBase' = [retBase EXCEPT ![d] = 0]
  /\ retRoot' = {} /\ retListed' = {}
  /\ retRevision' = IF retRoot # {} THEN retRevision + 1 ELSE retRevision
  /\ UNCHANGED <<retDocs, retObjects, retReserved, retPlan, retGate, retWork,
                 retPass, retFails>>

\* finish_delete's refusals: no journal row, no retirement names the document.
Unclaimed(d) ==
  /\ retBase[d] = 0
  /\ \A s \in retSegs : d \notin DOMAIN s.cover /\ s.owner # d
  /\ \A r \in retRows : r.storage \notin {d, Deployment}

\* finish_delete removes the row, and with it everything charged to it.
RetFinish(d) ==
  /\ retStatus[d] = "deleting" /\ Unclaimed(d)
  /\ retStatus' = [retStatus EXCEPT ![d] = "gone"]
  /\ retCharged' = {c \in retCharged : c[1] # d}
  /\ retReserved' = {c \in retReserved : c[1] # d}
  /\ UNCHANGED <<retSeq, retDue, retFlushed, retJournal, retRows, retObjects, retPlan,
                 retGate, retWork, retPass, retFails>>

---------------------------------------------------------------------------
\* JournalRetirementWorker.run_once reads its candidates under the gate, and
\* takes them in the order of their keys.
InTurn(r) == retGate = "pass" /\ retPass # {} /\ r = CHOOSE q \in retPass : TRUE

RetPassBegin ==
  /\ retGate = "free" /\ retRows # {}
  /\ retPass' = retRows /\ retGate' = "pass"
  /\ UNCHANGED <<retDocs, retJournal, retRows, retObjects, retLedger, retPlan,
                 retWork, retFails>>

RetPassEnd ==
  /\ retGate = "pass" /\ retPass = {}
  /\ retGate' = "free"
  /\ UNCHANGED <<retDocs, retJournal, retRows, retObjects, retLedger, retPlan,
                 retWork, retPass, retFails>>

Referenced(key) ==
  \/ key \in RetLive
  \/ \E r \in retReserved : r[2] = key
  \/ \E p \in retPlan : key \in RetOutputs(p) \cup p.inputs

\* An object that nothing refers to is deleted.
RetReclaim(r) ==
  /\ InTurn(r) /\ r.kind # "rewrite"
  /\ ~Referenced(r.key)
  /\ retPass' = retPass \ {r}
  /\ retWork' = {[key |-> r.key]} /\ retGate' = "delete"
  /\ UNCHANGED <<retDocs, retJournal, retRows, retObjects, retLedger, retPlan, retFails>>

\* Rows that stay for another pass: Ok(false), or an error before any change.
RetSkip(r) ==
  /\ InTurn(r)
  /\ \/ r.kind # "rewrite" /\ Referenced(r.key)
     \/ r.kind = "rewrite" /\ retPlan # {}
     \/ r.kind = "rewrite" /\ r.key \notin KeysOf(retSegs)
  /\ retPass' = retPass \ {r}
  /\ UNCHANGED <<retDocs, retJournal, retRows, retObjects, retLedger, retPlan,
                 retGate, retWork, retFails>>

\* delete_each confirms.
RetDelete ==
  /\ retGate = "delete"
  /\ \E w \in retWork : retObjects' = retObjects \ {w.key}
  /\ retGate' = "release"
  /\ UNCHANGED <<retDocs, retJournal, retRows, retLedger, retPlan, retWork,
                 retPass, retFails>>

\* It does not confirm: the object may be gone or not, the row stays.
RetDeleteUnsure ==
  /\ retGate = "delete" /\ MayFail("delete")
  /\ \E w \in retWork : retObjects' \in {retObjects, retObjects \ {w.key}}
  /\ retWork' = {} /\ retGate' = "pass" /\ Failed
  /\ UNCHANGED <<retDocs, retJournal, retRows, retLedger, retPlan, retPass>>

\* The charge and the row go in one job, after the object.
RetRelease ==
  /\ retGate = "release"
  /\ \E w \in retWork : /\ retCharged' = {c \in retCharged : c[2] # w.key}
                        /\ retRows' = {r \in retRows : r.key # w.key}
  /\ retWork' = {} /\ retGate' = "pass"
  /\ UNCHANGED <<retDocs, retJournal, retObjects, retReserved, retPlan, retPass, retFails>>

---------------------------------------------------------------------------
\* rewrite_shared_segment.
Survivors(s, r) ==
  {d \in DOMAIN s.cover : retStatus[d] = "active" /\ d # r.storage}

\* Nobody active is left, or nothing is to be dropped.
RetRewriteNothing(r) ==
  /\ InTurn(r) /\ r.kind = "rewrite" /\ retPlan = {}
  /\ \E s \in retSegs :
       /\ s.key = r.key
       /\ \/ Survivors(s, r) = {} /\ UNCHANGED retRows
          \/ /\ Survivors(s, r) # {} /\ DocsIn(s.key) \subseteq Survivors(s, r)
             /\ retRows' = {q \in retRows : q.key # r.key}
  /\ retPass' = retPass \ {r}
  /\ UNCHANGED <<retDocs, retJournal, retObjects, retLedger, retPlan, retGate,
                 retWork, retFails>>

\* The outputs are queued before anything is written.
RetRewriteStage(r) ==
  /\ InTurn(r) /\ r.kind = "rewrite" /\ retPlan = {}
  /\ \E s \in retSegs :
       LET kept == DocsIn(s.key) \cap Survivors(s, r)
           heir == CHOOSE d \in Survivors(s, r) : TRUE
           out == SegKey(s.id, kept)
           roots == {MovedRoot(m, out) : m \in {n \in retRoot : s.key \in retListed}}
       IN /\ s.key = r.key /\ kept # {} /\ kept # DocsIn(s.key)
          /\ retRows' = Queue(retRows, {Row(k, "rewrite-output", heir) : k \in {out} \cup roots})
          /\ retWork' = {[row |-> r, heir |-> heir, out |-> out, roots |-> roots,
                          old |-> {n \in retRoot : roots # {}}]}
  /\ retPass' = retPass \ {r} /\ retGate' = "reserve"
  /\ UNCHANGED <<retDocs, retJournal, retObjects, retLedger, retPlan, retFails>>

Staged(w) == {w.out} \cup w.roots

\* reserve_object_change needs an active document.
RetRewriteReserve ==
  /\ retGate = "reserve"
  /\ \E w \in retWork :
       IF retStatus[w.heir] = "active"
       THEN /\ retReserved' = retReserved \cup {<<w.heir, k>> : k \in Staged(w)}
            /\ retGate' = "write" /\ UNCHANGED retWork
       ELSE /\ retGate' = "pass" /\ retWork' = {} /\ UNCHANGED retReserved
  /\ UNCHANGED <<retDocs, retJournal, retRows, retObjects, retCharged, retPlan,
                 retPass, retFails>>

RetRewriteWrite ==
  /\ retGate = "write"
  /\ \E w \in retWork : retObjects' = retObjects \cup Staged(w)
  /\ retGate' = "charge"
  /\ UNCHANGED <<retDocs, retJournal, retRows, retLedger, retPlan, retWork,
                 retPass, retFails>>

RetRewriteCharge ==
  /\ retGate = "charge"
  /\ \E w \in retWork :
       LET keys == {<<w.heir, k>> : k \in Staged(w)}
       IN /\ retCharged' = retCharged \cup (keys \cap retReserved)
          /\ retReserved' = retReserved \ keys
  /\ retGate' = "move"
  /\ UNCHANGED <<retDocs, retJournal, retRows, retObjects, retPlan, retWork,
                 retPass, retFails>>

\* The old keys become ordinary retirements and the outputs leave the queue.
MovedRows(w) ==
  Queue({IF r.key = w.row.key THEN Row(r.key, "segment", w.row.storage) ELSE r :
           r \in {q \in retRows : q.key \notin Staged(w)}},
        {Row(k, "manifest", Deployment) : k \in w.old})

RetRewriteMove ==
  /\ retGate = "move"
  /\ \E w \in retWork :
       LET s == CHOOSE t \in retSegs : t.key = w.row.key
       IN /\ retSegs' = (retSegs \ {s}) \cup {[s EXCEPT !.key = w.out, !.owner = w.heir]}
          /\ retRows' = MovedRows(w)
          /\ IF w.roots = {} THEN UNCHANGED <<retRoot, retListed>>
             ELSE /\ retRoot' = w.roots
                  /\ retListed' = (retListed \ {w.row.key}) \cup {w.out}
  /\ retWork' = {} /\ retGate' = "pass"
  /\ UNCHANGED <<retDocs, retBase, retRevision, retObjects, retLedger, retPlan,
                 retPass, retFails>>

\* A put fails, having reached the store or not: everything staged is kept.
RetRewriteFails ==
  /\ retGate = "write" /\ MayFail("put")
  /\ \E w \in retWork : \E landed \in SUBSET Staged(w) : retObjects' = retObjects \cup landed
  /\ retWork' = {} /\ retGate' = "pass" /\ Failed
  /\ UNCHANGED <<retDocs, retJournal, retRows, retLedger, retPlan, retPass>>

\* The process stops; what is durable stays.
RetCrash ==
  /\ MayFail("crash") /\ retGate # "startup"
  /\ retGate' = "startup" /\ retWork' = {} /\ retPass' = {} /\ Failed
  /\ retDue' = {}
  /\ UNCHANGED <<retStatus, retSeq, retFlushed, retJournal, retRows, retObjects, retLedger, retPlan>>

---------------------------------------------------------------------------
RetInit ==
  /\ retStatus = [d \in RetDoc |-> "active"]
  /\ retSeq = [d \in RetDoc |-> 0] /\ retDue = {} /\ retFlushed = 0
  /\ retSegs = {} /\ retBase = [d \in RetDoc |-> 0]
  /\ retRoot = {} /\ retListed = {} /\ retRevision = 0
  /\ retRows = {} /\ retObjects = {} /\ retReserved = {} /\ retCharged = {}
  /\ retPlan = {} /\ retGate = "free" /\ retWork = {} /\ retPass = {}
  /\ retFails = 0

RetCompact ==
  \/ \E d \in RetDoc : RetCompactPrepare(d)
  \/ RetCompactPutBase \/ RetCompactPutRoot \/ RetCompactCommit
  \/ RetCompactSettle \/ RetCompactFails

RetRewrite ==
  \/ \E r \in retPass : RetRewriteNothing(r)
  \/ \E r \in retPass : RetRewriteStage(r)
  \/ RetRewriteReserve \/ RetRewriteWrite \/ RetRewriteCharge
  \/ RetRewriteMove \/ RetRewriteFails

RetSweep ==
  \/ RetPassBegin \/ RetPassEnd
  \/ \E r \in retPass : RetReclaim(r)
  \/ \E r \in retPass : RetSkip(r)
  \/ RetDelete \/ RetDeleteUnsure \/ RetRelease

RetNext ==
  \/ \E ds \in SUBSET RetDoc : RetFlush(ds)
  \/ RetCompact
  \/ RetReconcile
  \/ \E d \in RetDoc : RetStartDelete(d)
  \/ \E d \in RetDoc : RetRetire(d)
  \/ \E d \in RetDoc : RetFinish(d)
  \/ RetSweep
  \/ RetRewrite
  \/ RetCrash

RetSpec == RetInit /\ [][RetNext]_retVars

---------------------------------------------------------------------------
HoldsBytesOf(k, d) ==
  \/ k[1] = "segment" /\ d \in DocsIn(k)
  \/ k[1] = "base" /\ k[2] = d

\* What bytes a document left after its deletion are in objects the retirement worker still has to visit.
RetErasureIsQueued ==
  \A d \in RetDoc : retStatus[d] = "gone" =>
    \A k \in retObjects : HoldsBytesOf(k, d) => k \in RowKeys(retRows)

\* What recovery of a document returns: the newest of its base and of the
\* records of its segments.
RetRecovered(d) ==
  Max({retBase[d]} \cup
      {s.cover[d] : s \in {t \in retSegs : d \in DOMAIN t.cover /\ d \in DocsIn(t.key)}})

\* Compaction, retirement of other documents and rewriting never take a
\* document back: recovery returns the last acknowledged sequence.
RetRecoversTheLatest ==
  \A d \in RetDoc : retStatus[d] = "active" => RetRecovered(d) = retSeq[d]

\* Every key a descriptor, a base or the manifest names is in the store, and
\* every object in the store is named, queued for deletion or planned, so that
\* a later pass can reach it, and is charged to somebody, except what its
\* owner's finished deletion left in the queue of another document; what a
\* deleted document left is queued; and recovery returns what was acknowledged.
Charged(k) == \E c \in retCharged \cup retReserved : c[2] = k
Reachable == RetLive \cup RowKeys(retRows) \cup UNION {RetOutputs(p) : p \in retPlan}
LeftBehind(k) == k \in RowKeys(retRows) \ RetLive /\ \E d \in RetDoc : retStatus[d] = "gone"
RetStoreAgrees ==
  /\ RetLive \subseteq retObjects /\ retObjects \subseteq Reachable
  /\ \A k \in retObjects : Charged(k) \/ LeftBehind(k)
  /\ RetErasureIsQueued
  /\ RetRecoversTheLatest

\* A document whose deletion finished has left no bytes behind.
RetErasureIsPhysical ==
  \A d \in RetDoc : retStatus[d] = "gone" => ~\E k \in retObjects : HoldsBytesOf(k, d)

\* The workers run again and again and the journal is reconciled.
RetFair ==
  /\ WF_retVars(RetReconcile) /\ WF_retVars(RetCompactPutBase)
  /\ WF_retVars(RetCompactPutRoot) /\ WF_retVars(RetCompactCommit)
  /\ WF_retVars(RetCompactSettle)
  /\ \A d \in RetDoc : SF_retVars(RetRetire(d)) /\ SF_retVars(RetFinish(d))
  /\ SF_retVars(RetPassBegin) /\ WF_retVars(RetPassEnd)
  /\ WF_retVars(\E r \in retPass : RetReclaim(r) \/ RetSkip(r)
                                    \/ RetRewriteNothing(r) \/ RetRewriteStage(r))
  /\ WF_retVars(RetDelete) /\ WF_retVars(RetRelease)
  /\ WF_retVars(RetRewriteReserve) /\ WF_retVars(RetRewriteWrite)
  /\ WF_retVars(RetRewriteCharge) /\ WF_retVars(RetRewriteMove)
RetFairSpec == RetSpec /\ RetFair

\* A document that is being deleted is gone in the end.
RetDeletionFinishes ==
  \A d \in RetDoc : (retStatus[d] = "deleting") ~> (retStatus[d] = "gone")
=============================================================================
