-------------------------- MODULE DocumentLifecycle --------------------------
(* One document of a catalogued deployment from the upload that creates it to *)
(* the deletion of its last object: the route that publishes it               *)
(* (server/documents.rs), what the store and the catalogue write for it       *)
(* (document/store.rs, storage/docCatalog/operations.rs), the deletion route and *)
(* the deletion worker (storage/maintenance.rs) that may take the same        *)
(* document at the same time, and the settling of what was interrupted when   *)
(* the server starts again.                                                   *)
EXTENDS Integers, FiniteSets, FiniteSetsExt

CONSTANTS
  DocFailures,  \* calls that fail, or requests that are dropped
  DocCrashes,   \* crashes of the server
  DocPauses     \* times an hour passes, and a writer's lease with it

ASSUME DocAssumption == {DocFailures, DocCrashes, DocPauses} \subseteq Nat

VARIABLES
  docRow,      \* the document's row: its status, and its publication slot
  docLease,    \* the lease on the objects of the staged checkpoint
  docObjects,  \* the objects of the document in storage
  docQueue,    \* the objects queued for deletion
  docCursor,   \* how far the discovery of its objects has listed them
  docUpload,   \* the upload that creates the document
  docWriter,   \* a member's upload of a figure
  docDelete,   \* a deletion by a request: where it is, and what it listed
  docWork,     \* a pass of the deletion worker: where it is, and its objects
  docServer,   \* "up", "down", or "refused" when it cannot start
  docDoomed,   \* docHistory: the objects there were when a deletion began, less
               \* those an upload admitted before it has put again since
  docAsked,    \* docHistory: somebody asked for the deletion
  docUsed      \* failures, crashes and pauses so far

docVars == <<docRow, docLease, docObjects, docQueue, docCursor, docUpload, docWriter,
             docDelete, docWork, docServer, docDoomed, docAsked, docUsed>>
docCatalog == <<docRow, docLease, docQueue, docCursor>>
docHistory == <<docServer, docDoomed, docAsked>>

\* In the order a listing names them: the figures of a document, its trees.
DocFigure == 1
DocTree == 2
DocKeys == {DocFigure, DocTree}
DocListed == DocTree + 1      \* the cursor of a discovery that is done
DocResting == [at |-> "idle", keys |-> {}]
Writable == docRow.status \in {"creating", "active"}
Slot(s) == [docRow EXCEPT !.slot = s]

DocInit ==
  /\ docRow = [status |-> "none", slot |-> "none"] /\ docLease = "none"
  /\ docObjects = {} /\ docQueue = {} /\ docCursor = 0
  /\ docUpload = "idle" /\ docWriter = "idle" /\ docDelete = DocResting /\ docWork = DocResting
  /\ docServer = "up" /\ docDoomed = {} /\ docAsked = FALSE
  /\ docUsed = [failures |-> 0, crashes |-> 0, pauses |-> 0]

DocUp == docServer = "up" /\ UNCHANGED docServer
DocFails == docUsed.failures < DocFailures
         /\ docUsed' = [docUsed EXCEPT !.failures = @ + 1]
DocWorks == UNCHANGED docUsed

-----------------------------------------------------------------------------
(* The upload. A step that fails withdraws the publication and deletes the    *)
(* document, except the first two, which leave their row behind.              *)

UploadGoes(next) == docUpload' = next
UploadOnly == UNCHANGED <<docWriter, docDelete, docWork, docHistory>>

PutCatalog ==
  /\ DocUp /\ docUpload = "idle" /\ docRow.status = "none"
  /\ docRow' = [status |-> "creating", slot |-> "none"] /\ UploadGoes("prepare")
  /\ DocWorks /\ UNCHANGED <<docLease, docObjects, docQueue, docCursor>> /\ UploadOnly

PreparePublication ==
  /\ DocUp /\ docUpload = "prepare"
  /\ \/ Writable /\ docRow' = Slot("prepared") /\ UploadGoes("load") /\ DocWorks
     \/ /\ UploadGoes("refused") /\ UNCHANGED docRow
        /\ IF Writable THEN DocFails ELSE DocWorks
  /\ UNCHANGED <<docLease, docObjects, docQueue, docCursor>> /\ UploadOnly

\* The room is loaded, or the upload answers 503 and leaves its receipt.
TryGet ==
  /\ DocUp /\ docUpload = "load"
  /\ \/ UploadGoes("figure") /\ DocWorks
     \/ UploadGoes("refused") /\ DocFails
     \/ UploadGoes("abort") /\ DocFails         \* reserve_publication_checkpoint refuses
  /\ UNCHANGED <<docCatalog, docObjects>> /\ UploadOnly

\* put_accounted: the reservation needs a row that is not being deleted, the
\* object is put after it whatever has become of the row since.
Reserves(key) == Writable /\ key \notin docQueue
Reserve(key, at, next) ==
  /\ DocUp /\ docUpload = at
  /\ \/ Reserves(key) /\ UploadGoes(next) /\ DocWorks
     \/ ~Reserves(key) /\ UploadGoes("abort") /\ DocWorks
     \/ UploadGoes("abort") /\ DocFails
FillDirectory ==
  /\ Reserve(DocFigure, "figure", "put_figure")
  /\ UNCHANGED <<docCatalog, docObjects>> /\ UploadOnly
\* The checkpoint leases its objects before it writes any of them.
LeaseTree ==
  /\ Reserve(DocTree, "tree", "put_tree")
  /\ docLease' = IF docUpload' = "put_tree" THEN "held" ELSE docLease
  /\ UNCHANGED <<docRow, docQueue, docCursor, docObjects>> /\ UploadOnly
Put(key, at, next) ==
  /\ docServer = "up" /\ docUpload = at
  /\ \/ docObjects' = docObjects \union {key} /\ UploadGoes(next) /\ DocWorks
     \/ docObjects' \in {docObjects, docObjects \union {key}} /\ UploadGoes("abort") /\ DocFails
  /\ docDoomed' = docDoomed \ {key}
  /\ UNCHANGED <<docCatalog, docWriter, docDelete, docWork, docServer, docAsked>>
PutFigure == Put(DocFigure, "put_figure", "tree")
PutTree == Put(DocTree, "put_tree", "stage")

\* write_manifest: into the receipt while the slot is taken, else the rows of
\* the checkpoint at once.
StageCheckpoint ==
  /\ DocUp /\ docUpload = "stage"
  /\ \/ /\ docRow.slot = "prepared" /\ docRow' = Slot("staged") /\ UploadGoes("commit") /\ DocWorks
        /\ UNCHANGED docLease
     \/ /\ docRow.slot = "none" /\ UploadGoes("commit") /\ DocWorks
        /\ docLease' = "none" /\ UNCHANGED docRow
     \/ UploadGoes("abort") /\ DocFails /\ UNCHANGED <<docRow, docLease>>
  /\ UNCHANGED <<docQueue, docCursor, docObjects>> /\ UploadOnly

\* commit_operation: the receipt, the checkpoint, the head and the status.
Commit == docRow' = [status |-> "active", slot |-> "none"] /\ docLease' = "none"
Committable == docRow.slot = "staged" /\ docLease = "held" /\ Writable
CommitPublication ==
  /\ DocUp /\ docUpload = "commit"
  /\ \/ docRow.slot = "none" /\ UploadGoes("answered") /\ DocWorks /\ UNCHANGED <<docRow, docLease>>
     \/ Committable /\ Commit /\ UploadGoes("answered") /\ DocWorks
     \/ Committable /\ Commit /\ UploadGoes("abort") /\ DocFails      \* its answer is lost
     \/ /\ UploadGoes("abort") /\ UNCHANGED <<docRow, docLease>>
        /\ \/ docRow.slot # "none" /\ ~Committable /\ DocWorks
           \/ DocFails
  /\ UNCHANGED <<docQueue, docCursor, docObjects>> /\ UploadOnly

\* What abort_publication answers is ignored: the deletion withdraws it too.
AbortPublication ==
  /\ DocUp /\ docUpload = "abort" /\ docDelete = DocResting
  /\ docRow' \in {Slot("none"), docRow}
  /\ UploadGoes("refused") /\ docDelete' = [at |-> "begin", keys |-> {}]
  /\ DocWorks /\ UNCHANGED <<docLease, docQueue, docCursor, docObjects, docWriter, docWork, docHistory>>

\* The client goes away and the request with it.
DropUpload ==
  /\ DocUp /\ docUpload \notin {"idle", "answered", "refused"} /\ UploadGoes("refused") /\ DocFails
  /\ UNCHANGED <<docCatalog, docObjects>> /\ UploadOnly

-----------------------------------------------------------------------------
(* A member adds a figure to the document; nothing that deletes it waits.     *)

WriterReserves ==
  /\ DocUp /\ docWriter = "idle" /\ docRow.status = "active" /\ Reserves(DocFigure)
  /\ docWriter' = "put" /\ DocWorks
  /\ UNCHANGED <<docCatalog, docObjects, docUpload, docDelete, docWork, docHistory>>
WriterPuts ==
  /\ DocUp /\ docWriter = "put" /\ docWriter' = "done"
  /\ docObjects' = docObjects \union {DocFigure} /\ docDoomed' = docDoomed \ {DocFigure} /\ DocWorks
  /\ UNCHANGED <<docCatalog, docUpload, docDelete, docWork, docAsked>>

-----------------------------------------------------------------------------
(* Deletion: begin_delete, and what delete_document does after it.            *)

BeginDelete ==
  IF Writable
  THEN docRow' = [status |-> "deleting", slot |-> "none"] /\ docDoomed' = docObjects
  ELSE UNCHANGED <<docRow, docDoomed>>

\* The owner asks, or the janitor finds that the document has expired.
HandleDelete ==
  /\ DocUp /\ docDelete = DocResting /\ docRow.status = "active"
  /\ docDelete' = [at |-> "begin", keys |-> {}] /\ docAsked' = TRUE
  /\ DocWorks /\ UNCHANGED <<docCatalog, docObjects, docUpload, docWriter, docWork, docDoomed>>

\* The account of the owner is erased: its documents are marked and no more.
EraseOwner ==
  /\ DocUp /\ Writable /\ BeginDelete /\ docAsked' = TRUE
  /\ DocWorks /\ UNCHANGED <<docLease, docQueue, docCursor, docObjects, docUpload, docWriter,
                          docDelete, docWork>>

DeleteGoes(next, keys) == docDelete' = [at |-> next, keys |-> keys]
DeleteGivesUp == docDelete' = DocResting
DeleteOnly == UNCHANGED <<docUpload, docWriter, docWork, docServer, docAsked>>

DeleteBegins ==
  /\ DocUp /\ docDelete.at = "begin"
  /\ \/ docRow.status \notin {"none", "gone"} /\ BeginDelete /\ DeleteGoes("list", {}) /\ DocWorks
     \/ docRow.status = "gone" /\ DeleteGivesUp /\ DocWorks /\ UNCHANGED <<docRow, docDoomed>>
     \/ DeleteGivesUp /\ DocFails /\ UNCHANGED <<docRow, docDoomed>>
  /\ UNCHANGED <<docLease, docQueue, docCursor, docObjects>> /\ DeleteOnly

RemoveLists ==
  /\ DocUp /\ docDelete.at = "list"
  /\ \/ DeleteGoes("queue", docObjects) /\ DocWorks
     \/ DeleteGivesUp /\ DocFails
  /\ UNCHANGED <<docCatalog, docObjects, docDoomed>> /\ DeleteOnly

\* Every object is queued before any is deleted; a row that is gone takes none.
RemoveQueues ==
  /\ DocUp /\ docDelete.at = "queue"
  /\ IF docRow.status = "gone" THEN DeleteGivesUp /\ UNCHANGED docQueue
     ELSE docQueue' = docQueue \union docDelete.keys /\ DeleteGoes("delete", docDelete.keys)
  /\ DocWorks /\ UNCHANGED <<docRow, docLease, docCursor, docObjects, docDoomed>> /\ DeleteOnly

RemoveDeletes ==
  /\ DocUp /\ docDelete.at = "delete" /\ docDelete.keys # {}
  /\ LET key == Min(docDelete.keys) IN
     \/ docObjects' = docObjects \ {key} /\ DeleteGoes("complete", docDelete.keys) /\ DocWorks
     \/ docObjects' \in {docObjects, docObjects \ {key}} /\ DeleteGivesUp /\ DocFails
  /\ UNCHANGED <<docCatalog, docDoomed>> /\ DeleteOnly

RemoveCompletes ==
  /\ DocUp /\ docDelete.at = "complete"
  /\ LET key == Min(docDelete.keys) IN
     docQueue' = docQueue \ {key} /\ DeleteGoes("delete", docDelete.keys \ {key})
  /\ DocWorks /\ UNCHANGED <<docRow, docLease, docCursor, docObjects, docDoomed>> /\ DeleteOnly

\* finish_delete, the last step of the request and of the worker.
\* (mutant) what is still queued is not looked at.
FinishableAnyway == docRow.status = "deleting"
Finishable == docRow.status = "deleting" /\ docQueue = {}
FinishDelete == docRow' = [status |-> "gone", slot |-> "none"] /\ docLease' = "none" /\ docCursor' = 0
RemoveFinishes ==
  /\ DocUp /\ docDelete.at = "delete" /\ docDelete.keys = {} /\ DeleteGivesUp
  /\ IF Finishable THEN FinishDelete ELSE UNCHANGED <<docRow, docLease, docCursor>>
  /\ DocWorks /\ UNCHANGED <<docQueue, docObjects, docDoomed>> /\ DeleteOnly

DropDelete ==
  /\ DocUp /\ docDelete # DocResting /\ DeleteGivesUp /\ DocFails
  /\ UNCHANGED <<docCatalog, docObjects, docDoomed>> /\ DeleteOnly

-----------------------------------------------------------------------------
(* DeletionWorker::run_once: discover a page at a time, queue it, move the    *)
(* cursor; delete what is queued; and finish when nothing is left.            *)

WorkGoes(next, keys) == docWork' = [at |-> next, keys |-> keys]
WorkOnly == UNCHANGED <<docUpload, docWriter, docDelete, docHistory>>

RunOnce ==
  /\ DocUp /\ docWork = DocResting /\ docRow.status = "deleting" /\ WorkGoes("list", {})
  /\ DocWorks /\ UNCHANGED <<docCatalog, docObjects>> /\ WorkOnly

ListPage ==
  /\ DocUp /\ docWork.at = "list"
  /\ IF docCursor = DocListed THEN WorkGoes("due", {})
     ELSE LET rest == {key \in docObjects : key > docCursor} IN
          WorkGoes("queue", IF rest = {} THEN {} ELSE {Min(rest)})
  /\ DocWorks /\ UNCHANGED <<docCatalog, docObjects>> /\ WorkOnly

EnqueueDeletions ==
  /\ DocUp /\ docWork.at = "queue"
  /\ IF docRow.status = "deleting"
     THEN docQueue' = docQueue \union docWork.keys /\ WorkGoes("mark", docWork.keys)
     ELSE WorkGoes("idle", {}) /\ UNCHANGED docQueue
  /\ DocWorks /\ UNCHANGED <<docRow, docLease, docCursor, docObjects>> /\ WorkOnly

MarkDiscovered ==
  /\ DocUp /\ docWork.at = "mark" /\ WorkGoes("list", {})
  /\ docCursor' = IF docRow.status # "deleting" THEN docCursor      \* no such row any more
                  ELSE IF docWork.keys = {} THEN DocListed ELSE Max(docWork.keys)
  /\ DocWorks /\ UNCHANGED <<docRow, docLease, docQueue, docObjects>> /\ WorkOnly

DueDeletions ==
  /\ DocUp /\ docWork.at = "due"
  /\ IF docQueue = {} THEN WorkGoes("finish", {}) ELSE WorkGoes("delete", docQueue)
  /\ DocWorks /\ UNCHANGED <<docCatalog, docObjects>> /\ WorkOnly

\* delete_each answers for every key; one it did not confirm may be gone too.
DeleteEach ==
  /\ DocUp /\ docWork.at = "delete"
  /\ \E confirmed \in SUBSET docWork.keys : \E gone \in SUBSET docWork.keys :
       /\ confirmed \subseteq gone
       /\ docObjects' = docObjects \ gone /\ WorkGoes("complete", confirmed)
       /\ IF confirmed = docWork.keys THEN DocWorks ELSE DocFails
  /\ UNCHANGED docCatalog /\ WorkOnly

CompleteDeletes ==
  /\ DocUp /\ docWork.at = "complete"
  /\ docQueue' = docQueue \ docWork.keys /\ WorkGoes("finish", {})
  /\ DocWorks /\ UNCHANGED <<docRow, docLease, docCursor, docObjects>> /\ WorkOnly

WorkFinishes ==
  /\ DocUp /\ docWork.at = "finish" /\ WorkGoes("idle", {})
  /\ IF Finishable /\ docCursor = DocListed THEN FinishDelete
     ELSE UNCHANGED <<docRow, docLease, docCursor>>
  /\ DocWorks /\ UNCHANGED <<docQueue, docObjects>> /\ WorkOnly

\* Storage or the catalogue fails and the pass with it.
WorkFails ==
  /\ DocUp /\ docWork # DocResting /\ WorkGoes("idle", {}) /\ DocFails
  /\ UNCHANGED <<docCatalog, docObjects>> /\ WorkOnly

-----------------------------------------------------------------------------
(* An hour, a sweep, a crash and a start.                                     *)

Pause ==
  /\ docLease = "held" /\ docUpload \notin {"put_tree", "stage", "commit"}
  /\ docUsed.pauses < DocPauses /\ docUsed' = [docUsed EXCEPT !.pauses = @ + 1]
  /\ docLease' = "expired"
  /\ UNCHANGED <<docRow, docObjects, docQueue, docCursor, docUpload>> /\ UploadOnly

\* expire_source_history_leases: the tree of no checkpoint is queued.
ExpireLeases ==
  /\ DocUp /\ docLease = "expired" /\ docLease' = "swept" /\ docQueue' = docQueue \union {DocTree}
  /\ DocWorks /\ UNCHANGED <<docRow, docObjects, docCursor, docUpload>> /\ UploadOnly

DocCrash ==
  /\ docServer = "up" /\ docServer' = "down"
  /\ docUsed.crashes < DocCrashes /\ docUsed' = [docUsed EXCEPT !.crashes = @ + 1]
  /\ docUpload' = IF docUpload \in {"idle", "answered"} THEN docUpload ELSE "refused"
  /\ docWriter' = IF docWriter = "put" THEN "done" ELSE docWriter
  /\ docDelete' = DocResting /\ docWork' = DocResting
  /\ UNCHANGED <<docCatalog, docObjects, docDoomed, docAsked>>

\* open_with_catalog: what a publication left in the slot is settled before
\* anything is served, and an error of the catalogue keeps the server from
\* starting.
Starts == docServer' = "up"
Discard == docRow' = [status |-> "gone", slot |-> "none"] /\ docCursor' = 0
OpenWithCatalog ==
  /\ docServer = "down"
  /\ \/ docRow.slot = "none" /\ Starts /\ DocWorks /\ UNCHANGED <<docRow, docLease, docCursor>>
     \/ /\ docRow.slot = "staged" /\ DocTree \in docObjects /\ DocWorks /\ UNCHANGED docCursor
        /\ IF Committable THEN Commit /\ Starts
           ELSE docServer' = "refused" /\ UNCHANGED <<docRow, docLease>>
     \/ /\ docRow.slot = "staged"
        /\ IF DocTree \in docObjects THEN DocFails ELSE DocWorks
        /\ Starts /\ UNCHANGED <<docRow, docLease, docCursor>>        \* left pending
     \/ /\ docRow.slot = "prepared" /\ DocWorks /\ UNCHANGED docLease
        /\ IF docQueue = {} THEN Discard /\ Starts
           ELSE docServer' = "refused" /\ UNCHANGED <<docRow, docCursor>>
  /\ UNCHANGED <<docObjects, docQueue, docUpload, docWriter, docDelete, docWork, docDoomed, docAsked>>

-----------------------------------------------------------------------------
DocNext ==
  \/ PutCatalog \/ PreparePublication \/ TryGet \/ FillDirectory \/ PutFigure \/ LeaseTree
  \/ PutTree \/ StageCheckpoint \/ CommitPublication \/ AbortPublication \/ DropUpload
  \/ WriterReserves \/ WriterPuts \/ HandleDelete \/ EraseOwner
  \/ DeleteBegins \/ RemoveLists \/ RemoveQueues \/ RemoveDeletes \/ RemoveCompletes
  \/ RemoveFinishes \/ DropDelete
  \/ RunOnce \/ ListPage \/ EnqueueDeletions \/ MarkDiscovered \/ DueDeletions \/ DeleteEach
  \/ CompleteDeletes \/ WorkFinishes \/ WorkFails
  \/ Pause \/ ExpireLeases \/ DocCrash \/ OpenWithCatalog

DocSpec == DocInit /\ [][DocNext]_docVars

(* An upload that was answered 201 is a document until somebody asks for its  *)
(* deletion, a document that is served has its tree, and a document whose     *)
(* deletion is finished has none of the objects it had when the deletion      *)
(* began, whoever finished it: the request that began it (Store::remove) or   *)
(* the worker (run_once), over each other's half-done work and after a crash. *)
DocPublishedOrGone ==
  /\ docUpload = "answered" /\ ~docAsked => docRow.status = "active"
  /\ docRow.status = "active" => DocTree \in docObjects
  /\ docRow.status = "gone" => docDoomed \intersect docObjects = {}

(* Nothing of a document stays in storage once its row is gone. It does: an   *)
(* upload that had its reservation puts its object after the last listing, or *)
(* startup discards the row of a publication whose objects were written.      *)
DocNothingIsLeft ==
  docRow.status = "gone" /\ docWriter # "put" /\ docUpload \in {"answered", "refused"}
    => docObjects = {}

(* A server that was interrupted in a publication starts again: it rolls the  *)
(* publication forward or aborts it. It does not when the lease of the staged *)
(* checkpoint has expired: the commit fails, and startup with it, every time. *)
DocStartsAgain == docServer # "refused"
=============================================================================
