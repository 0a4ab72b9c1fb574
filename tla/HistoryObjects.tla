--------------------------- MODULE HistoryObjects ---------------------------
(***************************************************************************)
(* The objects a document's history is made of (trees, source recipes and  *)
(* chunks, figures), and everybody who writes, leases, queues and deletes  *)
(* them: checkpoints, restores, uploads of figures, the retention passes,  *)
(* the sweep of abandoned leases and the deletion worker.  One document, in*)
(* catalogue mode.  A text is the set of its chunks, so two texts may share*)
(* some; a room has one text file and a set of figures.                    *)
(***************************************************************************)
EXTENDS Naturals, FiniteSets, FiniteSetsExt

CONSTANTS
  HistText,      \* the texts of the main file: sets of chunks
  HistFigure,    \* digests of figures
  HistKeep,      \* config.session.history_max
  HistOps,       \* bound: lease operations that have not been swept
  HistEdits,     \* bound: changes of the live document
  HistFaults,    \* "crash", "stall", "delete": what may go wrong
  HistFailures   \* bound: how many times it does

ASSUME HistAssumption == HistKeep \in Nat \ {0} /\ HistOps \in Nat /\ HistEdits \in Nat

VARIABLES
  histLive,     \* the live document: its text and the figures it names
  histSaved,    \* the live document of the last journal record
  histSeq,      \* journal_segment_coverage.last_sequence
  histEdited,   \* changes so far
  histKnown,    \* session.asset_sizes
  histUploads,  \* asset_uploads
  histStore,    \* the blob store
  histCharged,  \* object_accounting of chunks: what an encoder may reuse
  histPoints,   \* checkpoints, with durable_seq, source edges and asset refs
  histEncoded,  \* source_history_encodings and their objects
  histLeases,   \* source_history_write_leases, as <<operation, key>>
  histQueued,   \* pending_deletes
  histWriter,   \* the checkpoint being written (checkpoint_write is held)
  histRestore,  \* the restore under way (restore_write is held)
  histDoomed,   \* what the deletion worker has admitted or erased
  histErased,   \* whether it has erased it
  histOdd,      \* history: a checkpoint leased an object that was "missing",
                \* or wrote one "late", when its lease was gone
  histFails     \* faults so far

histRoom == <<histLive, histSaved, histSeq, histEdited>>
histFigures == <<histKnown, histUploads>>
histGraph == <<histPoints, histEncoded>>
histWorker == <<histDoomed, histErased>>
histVars == <<histRoom, histFigures, histStore, histCharged, histGraph, histLeases,
              histQueued, histWriter, histRestore, histWorker, histOdd, histFails>>

HistIdle == [step |-> "idle"]
TreeKey(id) == <<"tree", id>>
AssetKey(f) == <<"asset", {f}>>
SourceKeys(t) == {<<"recipe", t>>} \cup {<<"chunk", {c}>> : c \in t}
AssetKeys(figs) == {AssetKey(f) : f \in figs}
PointKeys(p) == {TreeKey(p.id)} \cup SourceKeys(p.text) \cup AssetKeys(p.figs)
IsSource(k) == k[1] \in {"recipe", "chunk"}

Edges(points) == UNION {SourceKeys(p.text) : p \in points}
Refs(points) == UNION {AssetKeys(p.figs) : p \in points}
Leased(leases) == {l[2] : l \in leases}
Newest == {p \in histPoints : \A q \in histPoints : q.nth <= p.nth}
\* The journal has records that no durable checkpoint covers.
Ahead(points) == \A p \in points : p.seq < histSeq

HistMayFail(f) == f \in HistFaults /\ histFails < HistFailures
HistFailed == histFails' = histFails + 1

---------------------------------------------------------------------------
\* Edits of the main file, naming and dropping of figures: updates of the
\* shared document, in memory until the next journal record.
HistEdit ==
  /\ histEdited < HistEdits
  /\ histEdited' = histEdited + 1
  /\ \/ \E t \in HistText \ {histLive.text} : histLive' = [histLive EXCEPT !.text = t]
     \/ \E f \in histKnown \ histLive.figs : histLive' = [histLive EXCEPT !.figs = @ \cup {f}]
     \/ \E f \in histLive.figs : histLive' = [histLive EXCEPT !.figs = @ \ {f}]
  /\ UNCHANGED <<histSaved, histSeq, histFigures, histStore, histCharged, histGraph,
                 histLeases, histQueued, histWriter, histRestore, histWorker, histOdd, histFails>>

\* write_session: the live document is appended to the journal.
Appended ==
  /\ histSaved' = histLive
  /\ histSeq' = IF histSaved = histLive THEN histSeq ELSE histSeq + 1

HistFlush ==
  /\ histSaved # histLive
  /\ Appended
  /\ UNCHANGED <<histLive, histEdited, histFigures, histStore, histCharged, histGraph,
                 histLeases, histQueued, histWriter, histRestore, histWorker, histOdd, histFails>>

\* put_asset: a figure the room knows is not written again.
HistUploadPut(f) ==
  /\ f \notin histKnown \cup histUploads
  /\ histUploads' = histUploads \cup {f}
  /\ histStore' = histStore \cup {AssetKey(f)}
  /\ UNCHANGED <<histRoom, histKnown, histCharged, histGraph, histLeases, histQueued,
                 histWriter, histRestore, histWorker, histOdd, histFails>>

HistUploadEnd(f) ==
  /\ f \in histUploads
  /\ histUploads' = histUploads \ {f}
  /\ histKnown' = histKnown \cup {f}
  /\ UNCHANGED <<histRoom, histStore, histCharged, histGraph, histLeases, histQueued,
                 histWriter, histRestore, histWorker, histOdd, histFails>>

---------------------------------------------------------------------------
\* begin_source_history_lease refuses an object that is queued.
\* Whoever holds a lease renews it; operation ids are not used twice.
Renewing == {o \in 1..HistOps : \/ histRestore.step # "idle" /\ histRestore.op = o
                                \/ histWriter.step \in {"put", "commit", "finish"}
                                   /\ histWriter.op = o}
NextOp == LET fresh == {o \in 1..HistOps \ Renewing : \A l \in histLeases : l[1] # o}
          IN {o \in fresh : \A n \in fresh : o <= n}
Leasing(o, keys) == histLeases' = histLeases \cup {<<o, k>> : k \in keys}
\* (mutant) an object that is queued is leased like any other.
LeasableQueued(keys) == TRUE
Leasable(keys) == keys \cap histQueued = {}

\* read_source_history_record and read_source_object_sizes: what is retained
\* is not encoded again.
Reusable(t) ==
  IF t \in histEncoded THEN SourceKeys(t)
  ELSE {k \in SourceKeys(t) : k[1] = "chunk"} \cap histCharged

\* checkpoint_impl_locked, up to its lease: the tree is captured and its source
\* planned; content that a retained checkpoint already has only saves the
\* session.
HistCapture ==
  /\ histWriter = HistIdle
  /\ LET forced == histRestore.step = "applied"
         known == \E p \in histPoints : p.text = histLive.text /\ p.figs = histLive.figs
         id == <<histLive.text, histLive.figs, IF forced THEN histEdited ELSE 0>>
     IN IF known /\ ~forced
        THEN /\ histSaved # histLive /\ Appended /\ UNCHANGED <<histWriter, histRestore>>
        ELSE /\ histWriter' = [step |-> "lease", text |-> histLive.text, figs |-> histLive.figs,
                               id |-> id, put |-> {TreeKey(id)} \cup
                                 (SourceKeys(histLive.text) \ Reusable(histLive.text))]
             /\ histRestore' = IF forced THEN [histRestore EXCEPT !.step = "checkpoint"]
                               ELSE histRestore
             /\ UNCHANGED <<histSaved, histSeq>>
  /\ UNCHANGED <<histLive, histEdited, histFigures, histStore, histCharged, histGraph,
                 histLeases, histQueued, histWorker, histOdd, histFails>>

WriterEnds ==
  /\ histWriter' = HistIdle
  /\ histRestore' = IF histRestore.step = "checkpoint" THEN [histRestore EXCEPT !.step = "release"]
                    ELSE histRestore

WriterKeys(w) == {TreeKey(w.id)} \cup SourceKeys(w.text) \cup AssetKeys(w.figs)

HistLease ==
  /\ histWriter.step = "lease"
  /\ IF Leasable(WriterKeys(histWriter))
     THEN \E o \in NextOp :
            /\ Leasing(o, WriterKeys(histWriter))
            /\ histOdd' = histOdd \cup {x \in {"missing"} :
                 ~(WriterKeys(histWriter) \ histWriter.put \subseteq histStore)}
            /\ histWriter' = [step |-> "put", op |-> o, text |-> histWriter.text,
                              figs |-> histWriter.figs, id |-> histWriter.id,
                              put |-> histWriter.put]
            /\ UNCHANGED histRestore
     ELSE WriterEnds /\ UNCHANGED <<histLeases, histOdd>>
  /\ UNCHANGED <<histRoom, histFigures, histStore, histCharged, histGraph, histQueued,
                 histWorker, histFails>>

HoldsLease(o) == \E l \in histLeases : l[1] = o

\* put_accounted of every new object, chunks first, refused for one that is
\* queued; then the session, so that a restart comes back at or after the
\* checkpoint.
HistPut ==
  /\ histWriter.step = "put"
  /\ IF histWriter.put \cap histQueued = {}
     THEN /\ histStore' = histStore \cup histWriter.put
          /\ histCharged' = histCharged \cup {k \in histWriter.put : k[1] = "chunk"}
          /\ histOdd' = histOdd \cup {x \in {"late"} : ~HoldsLease(histWriter.op)}
          /\ Appended
          /\ histWriter' = [step |-> "commit", op |-> histWriter.op, text |-> histWriter.text,
                            figs |-> histWriter.figs, id |-> histWriter.id, seq |-> histSeq']
          /\ UNCHANGED histRestore
     ELSE WriterEnds /\ UNCHANGED <<histStore, histCharged, histOdd, histSaved, histSeq>>
  /\ UNCHANGED <<histLive, histEdited, histFigures, histGraph, histLeases, histQueued,
                 histWorker, histFails>>

\* write_manifest: the lease is active, no source object is queued; one
\* transaction.
HistCommit ==
  /\ histWriter.step = "commit"
  /\ LET w == histWriter
     IN IF HoldsLease(w.op) /\ SourceKeys(w.text) \cap histQueued = {}
        THEN /\ histPoints' = histPoints \cup
                  {[id |-> w.id, text |-> w.text, figs |-> w.figs, seq |-> w.seq,
                    nth |-> 1 + Max({0} \cup {p.nth : p \in histPoints})]}
             /\ histEncoded' = histEncoded \cup {w.text}
             /\ histWriter' = [step |-> "finish", op |-> w.op]
             /\ UNCHANGED histRestore
        ELSE WriterEnds /\ UNCHANGED histGraph
  /\ UNCHANGED <<histRoom, histFigures, histStore, histCharged, histLeases, histQueued,
                 histWorker, histOdd, histFails>>

---------------------------------------------------------------------------
\* DELETE FROM checkpoints with its triggers: source objects that no retained
\* checkpoint and no lease names are queued and their encodings go; figures
\* too, unless the journal is ahead of what is left.
UnusedSources(left, leases) ==
  (UNION {SourceKeys(t) : t \in histEncoded}) \ (Edges(left) \cup Leased(leases))
UnusedFigures(gone, left, leases) ==
  IF Ahead(left) THEN {} ELSE Refs(gone) \ (Refs(left) \cup Leased(leases))
KeptEncodings(left, leases) ==
  {t \in histEncoded : (\E p \in left : p.text = t) \/ SourceKeys(t) \cap Leased(leases) # {}}

RemovePoints(gone, leases, also) ==
  LET left == histPoints \ gone
  IN /\ histPoints' = left
     /\ histQueued' = histQueued \cup UnusedSources(left, leases)
                        \cup UnusedFigures(gone, left, leases) \cup also
     /\ histEncoded' = KeptEncodings(left, leases)

\* The lease is finished, and the ceilings shed the oldest; a restored
\* selection is not protected from somebody else's checkpoint.
HistShed ==
  /\ histWriter.step = "finish"
  /\ LET gone == {p \in histPoints : Cardinality({q \in histPoints : q.nth > p.nth}) >= HistKeep}
         left == {l \in histLeases : l[1] # histWriter.op}
     IN /\ histLeases' = left
        /\ IF gone = {} THEN UNCHANGED <<histGraph, histQueued>> ELSE RemovePoints(gone, left, {})
        /\ histWriter' = [step |-> "erase", keys |-> {TreeKey(p.id) : p \in gone}]
  /\ UNCHANGED <<histRoom, histFigures, histStore, histCharged, histRestore, histWorker,
                 histOdd, histFails>>

\* The trees of the rows that are gone are deleted directly.
HistErase ==
  /\ histWriter.step = "erase"
  /\ histStore' = histStore \ histWriter.keys
  /\ histWriter' = [step |-> "prune"]
  /\ UNCHANGED <<histRoom, histFigures, histCharged, histGraph, histLeases, histQueued,
                 histRestore, histWorker, histOdd, histFails>>

\* prune_assets: figures that neither the live document nor a retained tree
\* names and that are not being uploaded are queued, those of this process that
\* were written within asset_grace excepted.
HistPrune ==
  /\ histWriter.step = "prune"
  /\ \E fresh \in SUBSET histKnown :
       histQueued' = histQueued \cup
         ({k \in histStore : k[1] = "asset"} \ (Refs(histPoints)
            \cup AssetKeys(histLive.figs \cup fresh \cup histUploads)))
  /\ WriterEnds
  /\ UNCHANGED <<histRoom, histFigures, histStore, histCharged, histGraph, histLeases,
                 histWorker, histOdd, histFails>>

\* run_retention_pass: any checkpoint but the newest, whoever reads it; its
\* tree is queued with it.
HistRetire(p) ==
  /\ p \in histPoints \ Newest
  /\ RemovePoints({p}, histLeases, {TreeKey(p.id)})
  /\ UNCHANGED <<histRoom, histFigures, histStore, histCharged, histLeases, histWriter,
                 histRestore, histWorker, histOdd, histFails>>

---------------------------------------------------------------------------
\* restore_and_checkpoint: a checkpoint of the live document is the base;
\* everything the selected tree may install is leased, its figures are looked
\* for, what was edited since the base is merged in, and a forced checkpoint
\* records the result.
HistRestoreLease(p) ==
  /\ histRestore = HistIdle /\ p \in histPoints
  /\ histEdited < HistEdits
  /\ p.text \in histEncoded /\ Leasable(PointKeys(p))
  /\ \E o \in NextOp, b \in Newest :
       /\ Leasing(o, PointKeys(p))
       /\ histRestore' = [step |-> "look", op |-> o, text |-> p.text, figs |-> p.figs,
                          base |-> [text |-> b.text, figs |-> b.figs]]
  /\ UNCHANGED <<histRoom, histFigures, histStore, histCharged, histGraph, histQueued,
                 histWriter, histWorker, histOdd, histFails>>

Readable(figs) == AssetKeys(figs) \subseteq histStore

\* Membership is three-way; two changes of one text merge into some text.
MergedFigures(base, figs) == (figs \ (base.figs \ histLive.figs)) \cup (histLive.figs \ base.figs)
MergedText(base, text) == CASE histLive.text = base.text -> {text}
                            [] text = base.text -> {histLive.text}
                            [] OTHER -> HistText

HistRestoreApply ==
  /\ histRestore.step = "look"
  /\ IF Readable(histRestore.figs)
     THEN /\ \E t \in MergedText(histRestore.base, histRestore.text) :
               histLive' = [text |-> t, figs |-> MergedFigures(histRestore.base, histRestore.figs)]
          /\ histEdited' = histEdited + 1
          /\ histRestore' = [histRestore EXCEPT !.step = "applied"]
     ELSE /\ histRestore' = [histRestore EXCEPT !.step = "release"]
          /\ UNCHANGED <<histLive, histEdited>>
  /\ UNCHANGED <<histSaved, histSeq, histFigures, histStore, histCharged,
                 histGraph, histLeases, histQueued, histWriter, histWorker, histOdd, histFails>>

HistRestoreEnd ==
  /\ histRestore.step = "release"
  /\ histLeases' = {l \in histLeases : l[1] # histRestore.op}
  /\ histRestore' = HistIdle
  /\ UNCHANGED <<histRoom, histFigures, histStore, histCharged, histGraph, histQueued,
                 histWriter, histWorker, histOdd, histFails>>

---------------------------------------------------------------------------
Abandoned(keys, left) ==
  {k \in keys \ Leased(left) : \/ IsSource(k) /\ k \notin Edges(histPoints)
                               \/ k[1] = "tree" /\ \A p \in histPoints : TreeKey(p.id) # k}

HistExpire(o) ==
  /\ \E l \in histLeases : l[1] = o
  /\ \/ o \notin Renewing /\ UNCHANGED histFails
     \/ o \in Renewing /\ HistMayFail("stall") /\ HistFailed
  /\ LET left == {l \in histLeases : l[1] # o}
     IN /\ histLeases' = left
        /\ histQueued' = histQueued \cup Abandoned(Leased(histLeases \ left), left)
  /\ UNCHANGED <<histRoom, histFigures, histStore, histCharged, histGraph, histWriter,
                 histRestore, histWorker, histOdd>>

\* The same pass drains an encoding that no checkpoint names.
HistDrain(t) ==
  /\ t \in histEncoded /\ \A p \in histPoints : p.text # t
  /\ SourceKeys(t) \cap Leased(histLeases) = {}
  /\ histEncoded' = histEncoded \ {t}
  /\ histQueued' = histQueued \cup (SourceKeys(t) \ UNION {SourceKeys(u) : u \in histEncoded \ {t}})
  /\ UNCHANGED <<histRoom, histFigures, histStore, histCharged, histPoints, histLeases,
                 histWriter, histRestore, histWorker, histOdd, histFails>>

---------------------------------------------------------------------------
\* DeletionWorker.run_once.  What is named or leased is not due; a figure is
\* not while the journal is ahead.
Due(k) ==
  /\ k \notin Edges(histPoints) \cup Leased(histLeases)
  /\ k[1] = "tree" => \A p \in histPoints : TreeKey(p.id) # k
  /\ k[1] = "asset" => k \notin Refs(histPoints) /\ ~Ahead(histPoints)

HistAdmit ==
  /\ histDoomed = {}
  /\ histDoomed' = {k \in histQueued : Due(k)} /\ histDoomed' # {}
  /\ histErased' = FALSE
  /\ UNCHANGED <<histRoom, histFigures, histStore, histCharged, histGraph, histLeases,
                 histQueued, histWriter, histRestore, histOdd, histFails>>

\* delete_each; what is not confirmed stays queued, deleted or not.
HistDelete ==
  /\ histDoomed # {} /\ ~histErased
  /\ \/ /\ histStore' = histStore \ histDoomed /\ histErased' = TRUE
        /\ UNCHANGED <<histDoomed, histFails>>
     \/ /\ HistMayFail("delete") /\ HistFailed
        /\ \E unsure \in SUBSET histDoomed : histStore' = histStore \ unsure
        /\ histDoomed' = {} /\ UNCHANGED histErased
  /\ UNCHANGED <<histRoom, histFigures, histCharged, histGraph, histLeases, histQueued,
                 histWriter, histRestore, histOdd>>

\* complete_delete_object for each: one that became protected stops the loop.
HistComplete ==
  /\ histDoomed # {} /\ histErased
  /\ \E done \in SUBSET {k \in histDoomed : Due(k)} :
       /\ (\A k \in histDoomed : Due(k)) => done = histDoomed
       /\ histQueued' = histQueued \ done
       /\ histCharged' = histCharged \ done
  /\ histDoomed' = {} /\ histErased' = FALSE
  /\ UNCHANGED <<histRoom, histFigures, histStore, histGraph, histLeases, histWriter,
                 histRestore, histOdd, histFails>>

\* The process stops.  The room comes back as the journal has it, and counts
\* the figures the store lists; objects being written may have landed.
HistCrash ==
  /\ HistMayFail("crash") /\ HistFailed
  /\ histLive' = histSaved
  /\ \E landed \in SUBSET (IF histWriter.step = "put" THEN histWriter.put ELSE {}) :
       /\ histStore' = histStore \cup landed
       /\ histOdd' = histOdd \cup {x \in {"late"} : landed # {} /\ ~HoldsLease(histWriter.op)}
  /\ histKnown' = {f \in HistFigure : AssetKey(f) \in histStore}
  /\ histUploads' = {}
  /\ histWriter' = HistIdle /\ histRestore' = HistIdle
  /\ histDoomed' = {} /\ histErased' = FALSE
  /\ UNCHANGED <<histSaved, histSeq, histEdited, histCharged, histGraph, histLeases,
                 histQueued>>

---------------------------------------------------------------------------
HistInit ==
  /\ histLive = [text |-> CHOOSE t \in HistText : TRUE, figs |-> {}]
  /\ histSaved = histLive /\ histSeq = 0 /\ histEdited = 0
  /\ histKnown = {} /\ histUploads = {}
  /\ histStore = {} /\ histCharged = {}
  /\ histPoints = {} /\ histEncoded = {} /\ histLeases = {} /\ histQueued = {}
  /\ histWriter = HistIdle /\ histRestore = HistIdle
  /\ histDoomed = {} /\ histErased = FALSE
  /\ histOdd = {} /\ histFails = 0

HistFiguring ==
  \E f \in HistFigure : HistUploadPut(f) \/ HistUploadEnd(f)

HistWriting ==
  \/ HistCapture \/ HistLease \/ HistPut \/ HistCommit \/ HistShed \/ HistErase \/ HistPrune

HistRestoring ==
  \/ \E p \in histPoints : HistRestoreLease(p)
  \/ HistRestoreApply \/ HistRestoreEnd

HistSweeping ==
  \/ \E p \in histPoints : HistRetire(p)
  \/ \E o \in 1..HistOps : HistExpire(o)
  \/ \E t \in HistText : HistDrain(t)
  \/ HistAdmit \/ HistDelete \/ HistComplete

HistNext ==
  \/ HistEdit \/ HistFlush \/ HistFiguring \/ HistWriting \/ HistRestoring
  \/ HistSweeping \/ HistCrash

HistSpec == HistInit /\ [][HistNext]_histVars

---------------------------------------------------------------------------
\* Every checkpoint can be read back, unless it was leased over an object that
\* was missing already; and a restore that installs figures into the live
\* document finds them there as long as its lease stands.
HistLeasedStaysReadable ==
  /\ "missing" \notin histOdd => \A p \in histPoints : PointKeys(p) \subseteq histStore
  /\ histRestore.step \in {"applied", "checkpoint"}
       /\ (\E l \in histLeases : l[1] = histRestore.op)
     => AssetKeys(histRestore.figs) \subseteq histStore

\* Every checkpoint can be read back.
HistRetainedIsReadable == \A p \in histPoints : PointKeys(p) \subseteq histStore

\* Encoded sources never leak: a later pass finds each of them through the
\* graph, a lease or the queue, unless a writer outlived its lease.
HistNoSourceLeaks ==
  "late" \notin histOdd => \A k \in histStore : IsSource(k) =>
    \/ \E t \in histEncoded : k \in SourceKeys(t)
    \/ k \in Leased(histLeases) \cup histQueued

\* What a checkpoint or a lease needs is stored, and what is stored is needed or
\* found by a later pass.
HistStoreAgrees == HistLeasedStaysReadable /\ HistNoSourceLeaks
=============================================================================
