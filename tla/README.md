# Verification of Librepaper's persistence and concurrency

Librepaper keeps collaborative documents. A Rust server holds each open
document as a live *room*, writes it through a batching *journal* into an
object store, and keeps every fact that must be consistent (which segments
exist, who may read, what is paid for, which checkpoint names which object) in
one SQLite *catalogue*. Around it are a browser client, two sync clients, an
assistant with a runner on the user's machine, and a loopback companion that
renders. This directory holds TLA+ models of the parts whose correctness
depends on order: a write that fails half way, two callers that meet at one
lock, a future dropped at an await, a process that stops between an object and
the row that names it, a frame lost with its connection.

Source paths below are relative to `src/crates/librepaper/src`.

## 1. Inventory

| component | state it keeps | operations | what makes it correct |
|---|---|---|---|
| Journal append path (`storage/journal/{coordinator,runtime,store,recovery,segment}.rs`) | queue of encoded records, claimed identities, publication gate (memory); preparation, segments, reservations, charges, retirements (catalogue); segment objects (store) | `append_with_epoch`, `reconcile_pending`, startup reconciliation | Ok only for a durable record; one record per cursor; nothing durable is lost; every stored object is paid for; every preparation can be resolved |
| Memory budget (`storage/journal/budget.rs`) | bytes held, bytes waiting, a `Notify` | `acquire`, `try_acquire`, permit and ticket drops | exact accounting through cancellation; no lost wakeup |
| Live rooms (`room/mod.rs`, `room/catalog.rs`) | the document, its generation and dirty flag, socket cursors; the registry of rooms; the gates of a room | `receive_update`, `write_session`, load, `evict_idle`, `get`, `purge` | an edit is acknowledged only when a restart recovers it; a clean room can be dropped; one writable room per document; no two operations wait for each other |
| Catalogue execution (`storage/catalog/execution.rs`) | three semaphores, four counters, the shutdown flag | reserve, submit, run, complete, shutdown | capacity comes back on every path; no job runs on a closed connection; shutdown ends |
| Journal retention (`storage/journal/{runtime,store}.rs`, `storage/maintenance.rs`) | retirements, shared segments | compaction, retirement of a storage, deletion worker, rewrite | no object is deleted that a descriptor still needs; no record of an erased document stays |
| Catalogue: accounting and quotas (`storage/catalog/{operations,pressure,accounts,room_edits}.rs`) | reservations, charges, edit reservations, erasure progress | reserve, commit, abort, reconcile, settle, begin and finish an erasure | no byte is charged twice or lost; an erasure ends with nothing that names the account |
| Catalogue: documents, access, history (`storage/catalog/*.rs`) | documents, members, checkpoints, source history, leases | transactions | a kept checkpoint keeps its objects |
| Agent operations (`storage/catalog/agent_*.rs`, `room/agent*.rs`) | operation rows, markers in the document, backups | prepare, apply, commit, cancel, settle at load | a row says what the document says; an operation is applied at most once |
| Room checkpoints (`room/{checkpoint,catalog,resident,retention,figures}.rs`) | rounds, resident cache | checkpoint, restore, prune | a checkpoint is the state it says |
| Comments, revisions, suggestions (`room/*.rs`) | acceptance receipts, outcomes | accept, reject, reopen, refine, delete | an acceptance edits the text once and stays accepted |
| Documents (`document/*.rs`) | the index, creation and deletion rows | publish, delete, settle at start | a document is whole or gone; an acknowledged change of the index survives |
| Publication (`server/publication*.rs`) | staged and active packages | prepare, upload, activate, janitor | the active page has all its objects |
| Sockets (`server/socket*.rs`, `room/outgoing.rs`) | slots, queues, cursors | attach, open, update, relay, drop | every edit reaches the other editors or is sent again |
| Quota, cost and chat (`server/{chat,cost,quota}.rs`) | browser and runner channels, pending events | attach, ask, report, cancel | an acknowledged request is not lost; a task's status is the runner's |
| MCP endpoint (`server/mcp/*`, `cli/mcp.rs`) | receipts, the journal of tool events | call, batch, look up, cancel | the runner knows what its calls did |
| Backup (`storage/backup.rs`) | a copy of catalogue and objects, claims, markers | back up, restore, sweep | a complete backup has all its objects |
| Command line (`cli/*`) | local files, sync base, runner ledger | sync one file, sync a directory, run | no word of the author or a peer is lost |
| Local companion (`local/*`) | jobs, bindings, previews | post, run, cancel, delete, recover | a job runs once, alone |
| Web client (`web/src/lib`) | shared document, unacknowledged updates | reconnect, send, acknowledge | nothing unacknowledged is forgotten |
| Blob stores; HTTP server; sharing and sign-in; configuration and helpers | (not modelled) | | section 8 |

How they interact: a socket hands an update to its **room**, which reserves
bytes for it in the catalogue; the sweeper asks the room to write;
`write_session` takes bytes from the **memory budget**, encodes a snapshot and
calls the **journal**'s append; append goes through the **catalogue execution**
boundary for every transaction and through the **blob store** for every object;
when it answers Ok the room sends `y-ack` and the **session** of the browser
forgets the update. Checkpoints, publications, agent operations, comments and
restores take some of the room's gates, write objects of the **history** and
are **charged** for them; deletion, erasure and retention give them back.

The behaviours that are hard to test are listed in `PROJECT.json` under
`hazards`, each at its line, with the property that covers it.

## 2. Modules

Prefixes keep the modules apart, so that one run can hold several of them.

| module | models | state and actions |
|---|---|---|
| `Journal` | the append path | one *writer* per call of append in flight, with a program counter for each await; the catalogue's tables as sets; the object store as a function from keys to the entries of a segment |
| `DurableLog` | what append promises | the set of durable records and the set of answered ones |
| `RoomJournal` | rooms over `Journal` (EXTENDS it) | per room: the edits of the document, the generation, the dirty flag, the snapshot in flight, and what was acknowledged |
| `MemoryBudget` | the byte budget | per producer a phase; `held`, `waiting`; whether the enrolled `Notified` was notified |
| `CatalogExecution` | the execution boundary | per caller a phase for each atomic operation or await; permits, counters, shutdown's own position |
| `JournalRetention` | what happens to segments after their commit | descriptors, bases, retirements and objects; compaction, retirement, worker and rewrite, each stopping between its steps |
| `EditReservations` | the bytes a room holds for edits | the catalogue row, the writer's slot, jobs that outlive their caller and their completion hooks |
| `ObjectAccounting` | what a document is charged | reservations, measurements, charges, refunds; an action is one immediate transaction |
| `HistoryObjects` | trees, recipes, chunks and figures, and everyone who writes, leases and deletes them | checkpoints, restores, uploads, retention passes, lease sweep, deletion worker |
| `RoomRegistry` | `RoomSet` | rooms, references, loading slots, guards; lookup, load, eviction, deletion, callers dropped at any await |
| `RoomGates` | the gates of one room | each operation as the list of its steps that matter to gates (take, give back, fix a base, edit, capture) |
| `AgentOperation` | an agent's source operations | row, pending slot, backup, marker, journalled document; a call, its retries, cancellations, revocations and the settlement at load |
| `SuggestionAccept` | the acceptance of a suggestion and the decisions beside it | receipt stages, the comment's outcome, the text, jobs that land after their caller is gone |
| `AccountErasure` | an account's erasure in batches | stages and rows that name the account; passes that interleave, crash and resume; writes asked for before |
| `DocumentLifecycle` | one document from upload to the deletion of its last object | catalogue rows, lease, objects; the route, the deletion route and worker, and the settlement at start |
| `DocumentIndex` | the shared index of a deployment without a catalogue | each server's copy, the object with its version, conditional writes and their one retry |
| `Publication` | rendered pages | manifests, staging, active pointer, objects; every storage step of a call is an action, with the reads whose failure the call passes over; the janitor and its clock |
| `SessionChannel` | a tab, its socket, the room's half, and the other tabs | unacknowledged updates, queues, slots, high-water marks; reconnections, rejoins, parts, drops, crash |
| `AssistantChannel` | browser, channel and runner of the assistant | frames in order on each connection; events, queues, the ledger of tasks |
| `ToolReceipts` | tool calls and what the runner knows of them | journal of events, receipts, batches, recovery of a starting runner |
| `FileSync`, `ProjectSync` | the two sync clients | file or tree on disk, base, shared document with items and deletions, an author who saves at any time |
| `Backup` | local and remote backups and restores | objects, claims, temporary trees, markers, sweeps |
| `CompanionJobs` | render jobs of the loopback companion | jobs, queue, worker, previews, grants, recovery from the job directories |

Proof modules, beside the modules they prove about (section 4):
`JournalProofs` (`Journal`, `JournalRetention`), `JournalCursorProofs` (`Journal`), `RoomJournalProofs`,
`RoomRegistryProofs` (`RoomRegistry`, `AssistantChannel`, `FileSync`),
`RoomGatesProofs` (`RoomGates`, `CompanionJobs`, `ToolReceipts`),
`CapacityProofs` (`MemoryBudget`, `CatalogExecution`), `AccountingProofs`
(`EditReservations`, `AccountErasure`, `SuggestionAccept`, `AgentOperation`,
`ObjectAccounting`) and
`DocumentProofs` (`DocumentIndex`, `Publication`, `Backup`, `DocumentLifecycle`,
`HistoryObjects`).

Instances for TLC: `MCJournal`, `MCRoomJournal`, `MCServer` (budget, execution,
gates), `MCRooms` (gates, registry), `MCStorage` (rooms over the journal,
retention, accounting, history, suggestions, erasure, companion), `MCDocuments`
(lifecycle, index, publication, agent, edits, sync, backups, assistant, tools,
sessions) and `MCSession`. The last three combine components with no shared
state: the behaviour picks one of them in its initial state (`part`) and takes
steps of that one only, so a run's states are the union of its components'
states and not their product, and one start of TLC answers for several.

An operator whose comment begins with `(mutant)` is a wrong variant of a
definition below it. No specification uses it; `PROJECT.json` names, for each
property, the variant that must violate it.

### Journal

A call claims its identity in `pending` (`Claim`), encodes and enqueues its
record (`Enqueue`, or `EnqueueBusy` at the queue's limits), takes the gate
(`TakeGate`), resolves what an earlier call left behind (`ReconcileFirst`),
asks whether its sequence is committed already (`AlreadyCommitted`,
`StatusFails`), and otherwise seals *the whole queue*, its own record and the
others' (`Seal`), writes the preparation row (`Prepare`), reserves and puts one
object per segment (`WriteSegment`), commits descriptors, coverage and head in
one transaction (`Commit`) and charges the objects (`Settle`). Every failure
path of the code is an action: `PrepareFails`, `ReserveFails`, `PutFails` (the
object may have landed), `CommitFails` (the transaction may have committed),
`SettleFails`, and the outcomes of `recover_failed_flush`
(`RecoverCommitted`, `RecoverAborted`, `RecoverFails`). `Cancel` drops the
future at any await, its last request landing or not. `Crash` loses memory,
`Startup` reconciles before serving.

Abstracted: the fragments of a chunked record are one record (they are enqueued
and drained together); a body is a member of a small set; an epoch is part of
the storage; where seal closes a segment depends on encoded sizes, so every cut
within `SegmentRecords` is possible; unreadable and malformed objects are the
"read" fault.

### RoomJournal

A document is the set of edits it contains. `WriteSession` encodes the set,
derives the cursor as the code does (the larger of the room's generation and
one more than the journal's latest sequence) and starts an append; `Persisted`
and `NotPersisted` are the two ways it ends, with the code's check for an edit
that came meanwhile. `Load` recovers from the journal (`Recovered`), `Reload`
drops an idle clean room. The room's append is the journal's, with every step
of it.

### Grain of the others

`MemoryBudget` and `CatalogExecution` are modelled at the grain of single
atomic operations, because their hazards are between two of them: a `Notify`
that stores no permit, two counters read one after the other, a counter without
a guard at an await. In the catalogue's components an action is one immediate
transaction, which SQLite makes atomic; in those that call the object store
every request is an action, and its answer may be lost. A caller that goes away
at an await leaves the job it submitted to run later, in any order with the
jobs of the next caller. Messages travel on one ordered queue per connection,
which is lost with the connection. Texts are sets of words or edits, because
the CRDT makes concurrent edits commute; where the CRDT's own bookkeeping
matters (`FileSync`, `ProjectSync`, `SessionChannel`), inserted and deleted
items are kept apart and an edit whose predecessor is missing stays unseen.

## 3. Runs

Each run answers one question; `PROJECT.json` holds the answers as sentences.

| run | instance | properties |
|---|---|---|
| `journal` | 2 callers, 2 documents, sequences 1-2, 3 operations; puts and commits fail or are lost, crashes; fairness | `AckedIsDurable`, `OneRecordPerCursor`, `PreparationResolvable`, `ImplementsDurableLog`, `AppendReturns`, `ServesAgain` |
| `journal_faults` | 2 callers, 2 documents, one sequence each, 3 operations; every fault | `ObjectsAreCharged`, `CommittedNotRetired`, `DurableForever` |
| `room` | 2 rooms, one edit each, 3 operations; puts, commits, crashes | `SavedIsRecoverable`, `CleanRoomIsDurable` |
| `rooms` | 3 tasks among the gates of a room, in two mixes of operations; 3 callers and 2 documents in a registry for 1 room | `GateNoStandoff`, `GateEditsAreSerial`, `RegSingleWriter` |
| `server` | 3 producers and 3 bytes; 2 callers, 2 admissions, 1 slot, 1 waiter, cancellation; 2 tasks among the gates; fairness | `HeldIsOwned`, `ParkedIsWoken`, `RequestsSettle`, `ShutdownCompletes`, `GateEveryoneGetsThrough` |
| `storage` | one room under every fault of its append; retention; accounting; history; suggestions; erasure; companion | `RecoveryNeverRegresses`, `RetStoreAgrees`, `AccHoldingsAreCharged`, `HistStoreAgrees`, `SgAcceptedOnce`, `ErErasureAdvances`, `CompJobsRunOnce` |
| `documents` | lifecycle; index; publication; agent; edits; file and project sync; backups; assistant; tools; sessions | `DocPublishedOrGone`, `IdxAckedSurvives`, `PubNeededIsStored`, `AgRowsAreTrue`, `EditReservationsAreSettled`, `SyncWordsSurvive`, `PjWordsSurvive`, `BakCompleteIsWhole`, `ChatAsksSurvive`, `ToolEffectsAreKnown`, `SessEditsArrive` |
| `room_stale`, `journal_wedge`, `gates_order`, `doc_restart`, `session_badge` | the smallest instance with the fault that matters | one violated property each, section 6 |

**Bounds.** Every bound is a constant of its module. In the journal
`MaxOperations` bounds the operation ids (each flush takes one), `MaxSequence`
the sequences of a room; `SegmentRecords`, `QueueRecords` and `QueueBytes` are
the code's own limits made small enough to be reached: with `SegmentRecords = 1`
two queued records make two segments, so a round can be half written, and with
two callers one call's record is committed by the other's round. Three
operations are enough for a failed round, the recovery round that meets its
leftovers, and one after a restart. `RoomJournal` adds one bound, in
`WriteSession`: a room's appends stop at `MaxSequence`.

In the server's components the limits are those that can be reached: two
callers fill the bytes of the execution boundary, one slot makes the second
wait, one waiter makes the next be turned away; three producers hold, wait and
are refused at once, and the largest request exceeds the capacity; a registry
for one room must evict to admit a second, and three callers let one load, one
wait for the slot and one delete. Three tasks are enough for a circle of waits
through two gates with a writer queued behind a reader.

In the others the bounds count what is rare: failures (`...Failures`), crashes,
drops, restarts, the changes of a document, the words an author types. They are
chosen so that each failure path of the code is taken, and together with a
second actor: one failure with one crash, or two failures, and two actors of
each kind that can meet (two publications that share an object, two servers on
one index with three documents for a quota of two, two tabs, two runner processes, two backup processes, two erasure
passes). `MCStorage` and `MCDocuments` bound two sums instead of their terms
(two changes of a history, or one and a failure; a runner that reconnects or a
request that is cancelled), and say so beside the conjunct.

**Deadlock** checking is off (`CHECK_DEADLOCK FALSE`), because every one of
these systems may stop: clients need not append again, a room may be clean and
idle, ids and failures run out, the service is shut down, and a component that
is not picked takes no step. What must go on is said by the liveness
properties, and that no circle of waits exists by `GateNoStandoff`.

**Fairness.** A call of append that can take a step of its own again and again
takes one (`SF(Step(w))`): the runtime polls ready tasks, the gate is tokio's
FIFO mutex and `finish_pending` wakes every waiter, so a call is not passed over
forever. Strong fairness is of the whole call, never of one outcome: a step that
succeeds is not forced over one that fails. Startup is retried by the
supervisor (`WF(Startup)`). Injected faults have no fairness. In `MCServer` each
component has its own fairness, restricted to behaviours that picked it: a
parked producer is woken by a notification that the release must send
(`WF(NotifyWaiters)`, a destructor that is already running) and every save ends
(`WF(Release)`), but which of the woken wins is not assumed; semaphores of the
execution boundary are tokio's, which are FIFO (`SF(ExecAdvance(c))`), and
shutdown goes on once it has begun; a task among the gates that can go on does
(`WF(GateProgress(t))`), and a gate that is free is granted to the first of its
queue (`WF(GateGrant(g))`, tokio's mutexes and rwlocks are FIFO).

## 4. Proofs

A run answers for its instance; the theorems below hold for every value of the
constants. What an assumption rules out is listed with the theorem, and section
6 says what happens there.

| theorem | property | assumption | run that shows the property |
|---|---|---|---|
| `StorageProtected`, `CommittedStaysLive`, `NothingDurableIsLost`, `EverythingIsPaidFor` | `CommittedNotRetired`, `DurableForever`, `ObjectsAreCharged` | none: every fault | `journal_faults` |
| `AnswersAreTrue`, `OkMeansDurable`, `EveryPreparationResolves`, `JournalIsADurableLog` | `AckedIsDurable`, `PreparationResolvable`, `ImplementsDurableLog` | `ReadableStorage` | `journal` |
| `OneRecord` | `OneRecordPerCursor` | `NothingLeftBehind`, no "retry" | `journal` |
| `RetentionInvariant`, `StoreAgrees` | `RetStoreAgrees` | none: every fault | `storage` |
| `RoomsInvariant`, `SavedSurvives`, `CleanRoomsAreOnDisk`, `RecoveryGrows` | `SavedIsRecoverable`, `CleanRoomIsDurable`, `RecoveryNeverRegresses` | `NothingLeftBehind` | `room`, `storage` |
| `BudgetInvariant`, `TypeCorrect`, `HeldExact`, `WaitingExact`, `WakeupsReachSleepers` | `HeldIsOwned` | none | `server` |
| `ExecutionInvariant`, `RequestsAreSettled`, `CapacityIsKept` | `RequestsSettle` | none | `server` |
| `RegistryInvariant`, `OneWritableRoom` | `RegSingleWriter` | none | `rooms` |
| `ReservationsAreSettledOnce`, `ReservationsAreHeldByWrites` | `EditReservationsAreSettled` | none; "settling" not in `EditDrops` | `documents` |
| `IndexInvariant`, `IndexKeepsItsPromises` | `IdxAckedSurvives` | `CreatedOnce` | `documents` |
| `PublicationInvariant`, `NeededIsKept`, `JanitorSparesNeeded` | `PubNeededIsStored` | none | `documents` |
| `ErasureInvariant`, `ErasureAdvances` | `ErErasureAdvances` | `ErInOrder` | `storage` |
| `AcceptanceInvariant`, `AcceptedOnce` | `SgAcceptedOnce` | `OneAtATime` | `storage` |
| `BackupInvariant`, `CompleteIsWhole` | `BakCompleteIsWhole` | `NothingIsDropped` | `documents` |
| `LifecycleInvariant`, `PublishedOrGone` | `DocPublishedOrGone` | none | `documents` |
| `AgInvariant`, `AgRowsTrue` | `AgRowsAreTrue` | `AgFailuresApart` | `documents` |
| `ChargeInvariant`, `HoldingsAreCharged` | `AccHoldingsAreCharged` | none | `storage` |
| `HistoryInvariant`, `HistoryReadable` | `HistStoreAgrees` | none | `storage` |
| `ChatInvariant`, `AsksSurvive` | `ChatAsksSurvive` | none | `documents` |
| `FileInvariant`, `SyncWordsKept` | `SyncWordsSurvive` | none | `documents` |
| `CompanionInvariant`, `JobsRunOnce` | `CompJobsRunOnce` | "torn" not in `CompFaults` | `storage` |
| `ToolInvariant`, `EffectsKnown` | `ToolEffectsAreKnown` | "item" not in `ToolFaults` | `documents` |
| `GatesInvariant`, `EditsAreSerial` | `GateEditsAreSerial` | none | `rooms` |
| `NoStandoff` | `GateNoStandoff` | `MixesAgree` | `rooms` |

**`CapacityProofs`** (the budget) proves, for any finite set of producers, any
capacity and any set of sizes, `HeldIsOwned`, `WaitingIsParked`, `NoLostWakeup` and
`TypeOK`. The counters are sums over producers, which a first-order prover
cannot define by recursion; they are stated as the cardinality of a set of
pairs `<<producer, byte>>` (`Owned`), and the step lemmas (`OwnedKept`,
`OwnedGained`, `OwnedLost`) say how one producer's change of phase moves that
cardinality. The inductive invariant is the conjunction of the four: type
correctness alone is not inductive, because `saturating_sub` would hide a
miscount; exactness shows that it never saturates. `NoLostWakeup` is inductive
by itself given types: a release goes through the phase *releasing*, during
which nobody needs to be awake, and its notification reaches everyone enrolled.

**`CapacityProofs`** (the execution boundary) does the same for the five quantities in front of
the connection, for any finite set of callers and any limits. Each phase of a
request has taken some of them (`HasAdmission`, `HasBytes`, `HasSlot`,
`InQueue`, `HasQueuedBytes`, `HasExecuting`); `Accounted` says that what is out
of a semaphore or in a counter is the cardinality of a set of pairs
`<<caller, unit>>` over those phases. One lemma (`MovesKeep`) covers every step
of a request: if it changes the quantities by what its two phases differ in, the
accounts stay right; the other lemmas show each of the twenty actions to be
such a move. `DrainIsSound` is the other half: shutdown reads `queued` and
`executing` one after the other, without a lock, and the connection may be
closed only because no request can take a slot any more once the slots are
closed, so that what was read stays true of the phases. `RequestsAreSettled`
follows, and `CapacityIsKept`: no semaphore is released above its limit and no
counter wraps below zero. `waitingProducers` is not part of it: a cancelled
waiter leaves it counted (section 7).

**`JournalProofs`** proves the journal for any number of callers and documents
and every bound, in two layers.

*`Durable`* holds under every fault. It says why storage is safe: only the
holder of the gate is past it (`GateHeld`); a preparation, the committed
segments and the retired keys never share a key, and no key is of an operation
not handed out yet (`Separated`); before its preparation is written a round's
keys are nowhere, and while it is written the preparation is the round's own
plan and what `written` counts is stored (`RoundPlanned`). None of the three is
inductive without the others: that a commit adds no retired key needs
`Separated`, which a new preparation keeps only because its round's keys are
fresh, which the gate keeps true while other calls run. From it follow
`CommittedStaysLive` (`CommittedNotRetired`) and `NothingDurableIsLost`
(`DurableForever`: no put ever overwrites a committed segment).
`EverythingIsPaidFor` (`ObjectsAreCharged`) is inductive by itself.

*`Answered`* says why Ok is the truth, under the assumption `ReadableStorage`:
no read fails and no call is dropped. Preparations, reservations, puts, commits
and settlements may still fail, before or after taking effect, calls may be
retried and the process may stop. Without the assumption the property is false
(section 7), so the theorem and the observation together draw the line. One
append per document is in flight and an identity carries its bytes
(`OneCallPerRoom`); a call that waits has its record in the queue, in the sealed
round or in storage (`RecordHeld`, what a failed recovery breaks); a sealed
round holds its caller's record, and once it is no longer prepared its records
are stored (`RoundHeld`); what is stored is found by its coverage (`Covered`).
From it follow `OkMeansDurable` (`AckedIsDurable`), `EveryPreparationResolves`
(`PreparationResolvable`) and `JournalIsADurableLog`, the refinement of
`DurableLog` (`ImplementsDurableLog`); the latter also uses `ClientAssumption`,
that an identity has one body. The lemmas of the first layer are stated for
`AnyNext`, the journal's steps with callers that ask for anything, so that the
modules above can use them whatever their clients do.

**`JournalProofs`** (retention) proves, for any set of documents and any number of
flushes and faults, what has to hold of journal objects after their commit
(`StoreAgrees`, property `RetStoreAgrees`): nothing needed is ever deleted, nothing
in the store is out of every later pass's reach or charged to nobody, and recovery returns
what was acknowledged. Compaction, deletion, the retirement worker and the
rewriting of shared segments share one gate, but each can stop between two of
its steps, and a deletion may begin or finish between them. The invariant `RetInv` has a part for
each of these. Who pays: a segment is charged to a document it
covers, a base to its own, the manifest to one that still claims a share
(`SegmentIsSound`, `DocumentIsSound`, `ManifestIsSound`), so that `finish_delete`,
which takes a document's charges away, cannot orphan what the others need. What is
pending: the commit of the unresolved preparation would do no harm, whenever
reconciliation gets to it, because nothing else changes the journal while it is unresolved
(`PlanIsSound`), and no manifest is in the store under a revision that a later preparation may
take (`RootsAreFresh`). What the worker decided: the key it deletes stays unneeded
until its row is gone (`DeletionIsSafe`), and a rewrite's output holds the records
of every document of the segment that is still active, is queued before it is written and
leaves the queue only as it becomes live (`RewriteIsSound`). A row that asks for a
rewrite names a document that is not active any more, and no later segment of that number holds more
than its key says (`RewriteRowIsSound`). Most steps leave the journal's rows alone (`StepKinds`);
flush, commit, retirement and move have a lemma each that says what they do.

**`JournalCursorProofs`** proves that a cursor has one durable record
(`OneRecord`, property `OneRecordPerCursor`). Its invariant `Once` adds to
`Durable` and to `RecordHeld`, `RoundHeld` and `Covered`: one call per document
is in flight (`Asked`); whatever is queued or sealed is there once, and a call
waits for it (`Waited`); coverage covers only what is stored, and the
preparation of a serving process belongs to the call that holds the gate
(`Exact`); what may still be committed is not durable yet (`Fresh`); and among
committed keys, as among the keys of a preparation, an identity has one copy
(`Unique`). The step that needs all of them is a commit: the round's records
are added to storage by `CommitOnce`, which is sound only because nothing in
the round is stored (`Fresh`) and no two segments of the plan share an identity
(`RoundSpan`, from `OneEntry` of the sealed round). The assumption
`NothingLeftBehind` excludes failing reads, dropped calls and failing
preparations: each of the three leaves a record in the queue that no call waits
for, and a later round commits it a second time. The theorem is about clients
that ask for a cursor only when it is not committed (`CursorNext`), which is
what a client of `Journal` does when it does not retry and what a room does.

**`RoomJournalProofs`** composes: a room is such a client, because its cursor is
past everything committed (`CursorIsNew`, `RoomsAreClients`), so `Durable` and
`Once` hold of the journal below the rooms. On top of them `Rooms` says that
each room's durable records are newer and larger in the order of their
sequences, that a record still prepared (also one a crash left behind) is ahead
of all of them, and that there is one at most (`StorageOrdered`); that what a
call appends is its room's snapshot, which is ahead of storage or already in it
(`Writing`); and how memory relates to both (`InMemory`). `RecoveryIsLatest`
then says what a restart reads: the newest record, which contains the others.
From the invariant follow `SavedSurvives` (`SavedIsRecoverable`),
`CleanRoomsAreOnDisk` (`CleanRoomIsDurable`) and `RecoveryGrows`
(`RecoveryNeverRegresses`). That a maximum exists is a part of the invariant
and not a consequence of finiteness. The assumption is again
`NothingLeftBehind`; the run `room_stale` shows `SavedIsRecoverable` violated
with failing preparations, while `RecoveryNeverRegresses` is model-checked under
every fault in `storage`.

**`RoomRegistryProofs`** proves, for any sets of documents and callers and any
resident limit, that a document has at most one writable room
(`OneWritableRoom`, property `RegSingleWriter`), with callers dropped at every
await, eviction, failed loads and deletion. The invariant `RegInv` follows the
life of a room: it is nowhere before its call has built it and only there until
it is inserted (`RoomsAreBuilt`); a slot is nowhere before its call made it
(`SlotsAreMade`); whoever may still load a document does it through the slot in
the map, and while that slot is empty the document has no room
(`LoadsShareASlot`); a writable room somebody holds is the one in the map, or
is being inserted under the lock (`WritableIsCached`); and at each step of a
deletion what is left to fence is known (`PurgesAreSound`). `LoadsShareASlot`
is what makes the property hold: two loads of one document through two slots
would make two rooms, so a slot may leave the map only when nobody holds it or
when it has its room.

**`AccountingProofs`** (edit reservations): a catalogue job outlives the caller that is
dropped, and its completion hook runs after the commit; the two share a slot.
`ReservationsAreSettledOnce` proves for every place a caller may be dropped
that exactly one of them is responsible (`CallerIsSound`: it relates the
caller's phase, what its job has done and what the slot says).
`ReservationsAreHeldByWrites` concludes `EditReservationsAreSettled`: bytes in
`writing_bytes` belong to a writer that still owes their settlement. Its
hypothesis leaves out a writer dropped between append and settlement, where the
code loses them (section 7).

**`DocumentProofs`** (the index) proves that an acknowledged change of the shared index
survives any number of servers, conditional writes that lose, retries, failures
and crashes (`IndexKeepsItsPromises`). The difficulty is that a losing server
undoes its change in a copy that may no longer be the one it changed: the
invariant says what each call holds in hand (`InHand`), and that a copy is
honest, with its call and without it, as long as it can still be written
(`CopyIsSound`); a copy behind storage may be wrong in any way, because the
version keeps it from being stored. The quota is part of the invariant
(`WithinQuota`), because the property bounds the documents of the stored
index. The assumption `CreatedOnce` says that no two puts
create the same slug.

**`DocumentProofs`** (publication) proves that what the pointer's manifest names
is stored, and that a fresh preparation lacks only what its publisher was told to
upload unless a collection failed to read it since that answer
(`NeededIsKept`). A call holds the document's lock over all its storage
steps, while the clock runs and any step may fail, so the invariant `PubInv`
says what the lock is worth (`CallIsSound`): what the call found when it began
and relies on later. The janitor deletes by a set it computed when it began;
what it found unneeded stays unneeded, because only a call under the same lock
could need it again and time makes preparations expire but never makes one
fresh. `JanitorSparesNeeded` states that as an action property: no step of any
actor deletes what the pointer names, or a fresh preparation with the same
exception. No assumption is made: every storage step may fail, before or after
taking effect, whether its call looks at the failure or not, and the process may
stop. The exception is therefore part of the statements: `garbage_collect`
(`server/publication.rs:646`) passes over a preparation it cannot read, and the
history variable `pubUnread` holds the requests that happened to, each until its
publisher is next answered (`Known` in the proof is the fresh others). It
enables and restricts no step. Without the exception both are false (section 7).

**`AccountingProofs`** (erasure) proves that an account's erasure only goes
forward (`ErasureAdvances`): no row that names the account is left behind the
durable progress, and none at all when the account is gone. The invariant says
the same of each pass's own place, which may be ahead of what is recorded or,
after another pass has overtaken it, behind (`Behind`), and that a pass is at
work only while the account is not active (`PassIsSound`). A batch ends at its
last key, so that the rows left are above it. The hypothesis `ErInOrder` leaves
out a checkpoint that was asked for before the erasure and is inserted after it,
and a second erasure while a pass of the first is at work: both violate the
property (section 7).

**`AccountingProofs`** (acceptance) proves that a suggestion is accepted whole
and once (`AcceptedOnce`): accepted in the catalogue only with its receipt
committed and its words saved, in the text once, and nothing else decided while an
acceptance is staged. The receipt is the pivot of the invariant
`SgInv`: it is made once, it plans one edit, and the live text holds nothing
the receipt does not account for (`ReceiptsAreSound`). A call past its first
job, and a job a dropped call has left behind, rely on what the receipt said
when it was read (`DecisionIsSound`). It still says so when they use it because
jobs run in the order they were sent: while an earlier job waits, nobody else is
past the first (`TurnsAreTaken`). The hypothesis `OneAtATime` asks for one
request id per suggestion and for jobs in that order; section 7 says what
happens with two ids and with a decision that is dropped.

**`DocumentProofs`** (backups) proves that a snapshot marked complete holds what
it names (`CompleteIsWhole`). A local and a remote backup share no state, so
`BackupInvariant` has two halves. A local backup holds its deployment's lock
from the listing to the rename: what it listed is what there still is, the
snapshot names only what was listed (`BackupIsSound`), and a tree a crash left
is never renamed. Remotely there is no lock. A snapshot's name is claimed by one
task, and while a sweep deletes below a name, that name has no marker and gets
none (`RemoteInv`). The sweep's second look at the marker and its deletion are
two steps, and only the claim protects what lies between. The hypothesis
`NothingIsDropped` is about that claim: it goes away with a dropped task, while a
marker already sent may still land (section 7).

**`DocumentProofs`** (lifecycle) proves for any number of failures, crashes and
pauses, and with no hypothesis, that an upload that was answered is a document
until its deletion is asked for, that a document that is served has its tree, and that none
of the objects it had when its deletion began is left when its row is gone
(`PublishedOrGone`). A request and the worker may both be deleting, over each other's
half-done work. The invariant `DocInv` says where each object still owed to the
deletion is: in the queue, in what the request or the worker has just read, or
beyond the worker's cursor (`DeletionIsSound`). The other half is the upload: as long as its
row can still be published its tree is there (`TreeIsThere`), and a row is
active only when the upload no longer runs (`UploadIsSound`).

**`DocumentProofs`** (history) proves for any texts, figures and limits, and for any
number of crashes, stalled writers and failed deletions, that every retained
checkpoint can be read back unless its writer leased an object that was missing
already, that the figures a restore installed are there while its lease stands,
and that encoded sources do not leak unless a writer wrote past its lease
(`HistoryReadable`). The invariant `HistInv` is about who relies on what between
two steps. Nobody needs what the deletion worker has admitted, because a lease
refuses what is queued (`WorkerIsSound`). A lease is held whole or not at all,
and while it is, what the writer is not still to put is stored
(`WriterIsSound`, `RestoreIsSound`). The checkpoint being written is none of the
retained ones, which keeps the trees deleted directly after shedding from being
those of another row (`CaptureIsSound`, `PointsAreSound`). That nothing leaks rests
on what goes: an encoding, a lease or a queued key that a step lets go of names
only sources that something else names or queues (`HistEncodingEffect`,
`HistDropEffect`, `HistQueueEffect`). With two failures the invariant showed that
objects a crash lets land after their writer's lease was swept leak too:
`HistCrash` records them as written "late".

**`AccountingProofs`** (agent operations) proves that what the catalogue says of an
operation is true of the text (`AgRowsTrue`): a committed row's edit is durable, an
aborted one has left nothing, what a cancellation answered stays true, and no
edit acknowledged beside it is discarded. The invariant
`AgInv` ties the row to the marks in the journal and in the room. While a row is
prepared, its backup takes the operation out again and nothing else
(`PreparedIsSound`, `BackupIsGood`); at each step, what the call in progress has read,
patched or put back is known (`StepIsSound`); and a clean room is what the
journal holds (`DocIsSound`). The hypothesis `AgFailuresApart` says which faults
do not come together in one behaviour: a refused commit, or a right given back, with a
crash, a dropped call or a catalogue error; a dropped call with a revocation.
Each fault on its own is covered, and TLC shows the property false with the
pairs that are excluded (section 7).

**`AccountingProofs`** (the charge) proves, for any objects, writers, publications
and sizes and with no hypothesis, that a document's charge is its part of the
totals and covers its measured size, its objects and the growth it has reserved
(`HoldingsAreCharged`). Sums over ledger and reservations are numbers of units, as in the
budget: `Total` counts the pairs of an argument and one unit of its value, and
`TotalSplits` takes one argument out; what a commit, an abort or a deletion does to the sums follows.
The property alone is not inductive. The charge must also
cover the headroom that will be given back, and the peak that withdrawing a
publication gives back (`DueIsCharged`); an object must not be shorter than its reservation
remembers, which is why one that is being written is not deleted and several writers of one agree
(`ReservedAreSound`); and only the pending publication is prepared
(`PendingIsPrepared`). `accLoose` marks where the code gives up the charge: a
reservation under a peak, until a measurement, and a measurement while headroom is held.

**`RoomRegistryProofs`** (the assistant) proves, for any number of requests and
with no hypothesis, that the browser lets go of a request only when the runner has it on disk
or has refused it, that a task is given to the model once, that what is shown as
finished is not worked on again, and that a report's sequence never stands for two
statuses (`AsksSurvive`), through closed connections, runner crashes and repeated
reports. The ledger in the runner's memory is its file as long as the
runner is up, and a report is written before it is handed out. Every
frame on its way is a report that was handed out, or the refusal of a request on
which nothing was reported; a refusal stays ahead of the reports of the same request
in every queue (`OrderIsSound`); and what the browser shows as finished is over in the
file (`IsOver`). The theorem says more than the run, whose one request never
meets a full queue.

**`RoomRegistryProofs`** (the file client) proves, for any finite set of places, any number of words
typed and of connections lost, and with no hypothesis, `SyncWordsSurvive`: a merge deletes
from the session only words that were in the file, and what the client changed reaches
the room (`SyncWordsKept`). An update may be applied late, twice or in part, so the
difficulty is in the documents: a word that comes back must be an item no deletion
names, wherever that deletion is. The client's document numbers the items of a word
without a gap (`FileDense`), so their count is a free number (`CountIsFresh`, by
cardinalities of intervals). An item of a number above 0, or of a word of the file or
of the author's buffer, is the client's own (`ItemsAreSound`): nobody else types such a
word, and so no update from the room can fill a number the client is about to
use (`FreshIsKept`, `EditedText`). The frames on
their way bring either side only what the other has (`FramesAreSound`); on a
connection whose join was answered what the client changed is at the room or on
its way (`SentIsSound`); and the first connection is followed from its opening to
its join (`FirstIsSound`).

**`RoomGatesProofs`** (the gates) proves both safety properties of the gates for any number
of tasks. A step list is checked once, without its interleavings: `Allowed` says
what a step may do with what the task has open (a gate is taken when it is not
held, and after the gates it must follow; an edit is made and a base fixed
behind the gate that guards it), `Runs` follows a list, and `Joined` composes
two lists as in a Hoare logic. Every list of `GateSteps` is shown orderly from
its pieces (`EveryListOrderly`, `SourceOrderly`, `CommentsOrderly`). The state invariant `GateInv`
relates the lists to the shared state: a gate has one holder or shared ones
(`HeldAlone`), whoever has an edit that may be taken back, or a base, holds its
gate (`WindowsAreGuarded`), a queue holds who waits for its gate, once
(`QueuesAreSound`), and what is left of a task's list keeps the discipline of
what the task has open (`StepsAreSound`). `EditsAreSerial` follows for every mix
of the operations the code has: no edit is captured while it may be undone, and
no base goes stale. For `NoStandoff`, the gates of an order have ranks
(`OrdersAreRanked`); in a set of tasks that all wait for each other, take the
gate of highest rank that one of them waits for and the first of them in its
queue: whoever is ahead holds that gate, and waits for one of higher rank. The
hypothesis `MixesAgree` says that operations at work together follow one of the
code's two orders of the routes' gates: source operations with the operations
both share, or comment routes with those. It leaves out what deadlocks: an
acceptance beside an agent's apply (finding 3), and `decide_revision`, which
asks for a gate its caller holds (section 7).

**`RoomGatesProofs`** (the companion) proves `CompJobsRunOnce` for any set of requests, any length
of the queue and any number of jobs, previews and restarts (`JobsRunOnce`).
A request whose key is kept has one job (`CompOneJob`), on disk as in the
table (`CompDiskTrue`), so that a post after a restart still finds it. That job
is at most once in the queue, and not there once the worker has it
(`CompQueueOnce`), and what it says of itself is where it is (`CompJobsPlaced`);
so the property's counter can be bounded: a request whose code was started
has a job that has left both the queue and the worker's first steps
(`CompRanOnce`), and nothing puts a job back. The queue is filtered by a
recursive function (`Waiting`, the code's `retain`). What it keeps of a queue of any
length is proved by induction, stated of a set of numbers (`SetInduction`,
from the well-foundedness of <) because the provers cannot instantiate
the library's induction, stated of an operator. The hypothesis is the run's: no
record is half written when the companion stops. With a torn record the key is
forgotten and a job can run again (section 7).

**`RoomGatesProofs`** (the tools) proves `ToolEffectsAreKnown` for any keys, batches, workers, limit
of the journal and failures (`EffectsKnown`). The property is about the journal; what
makes it hold is at the server. A key's effects are final (`Frozen`) once its receipt is
stored, which then names every part, or once its cancellation is, which is
possible only before (`EffectsTrue`). An answer that settles a key is given when
the key is final and names the parts there are; it stays true however late it
arrives, since a final key gains no part (`JobTrue`, `Grows`). Until then the
server works only on what the journal still asks for, because a call is
journalled before it is sent and an event resolves a key only with such an
answer. That a full journal forgets nothing that is asked for is a lemma about
the trimming (`TrimmedKeeps`): the event it drops is not the last of an
unresolved key. A lookup of a key the journal no longer has names no part;
the invariant then says that all of them were confirmed before. The hypothesis
is the run's: under a live lease no part of a batch fails. With such a failure the
property does not hold: the receipt of a repeated call leaves out a part that
the first call committed (section 7).

Assumptions on constants (`ConstantsAssumption`, `ClientAssumption`,
`RetAssumption`, `AccAssumption`, `HistAssumption`, `RoomAssumption`, `RegAssumption`, `EditAssumption`, `IdxAssumption`,
`PubAssumption`, `ErAssumption`, `SgAssumption`, `BakAssumption`, `DocAssumption`,
`AgAssumption`, `ChatAssumption`, `SyncAssumption`, `GateAssumption`, `CompAssumption`, `ToolAssumption`,
`ExecutionAssumption` and the budget's) are as weak as the proofs allow: finiteness, disjointness of sentinels
from the data, non-negative bounds, an erasure with at least one stage, mixes
made of the operations there are. TLC evaluates them in the runs.

## 5. Only model-checked

Liveness (`AppendReturns`, `ServesAgain`, `ParkedIsWoken`, `ShutdownCompletes`,
`GateEveryoneGetsThrough`) needs fairness and ENABLED, out of the proof
system's reach. One definition is a recursion over data (`Waiting`), and what
the proof needs of it is proved by induction (section 4).

These safety properties are checked on the instances above and not proved yet:
`PjWordsSurvive`, about a tree of files and a document that both change while they are
compared, whose inductive invariant is not found yet; and `SessEditsArrive`, which
holds also on instances of 1 to 5 million states that take too long for the runs.

That a dirty room is eventually written is not checked: with cursors and
operation ids bounded the property would be about the bounds.

## 6. Findings

Each is a run of its own, with the sentence it contradicts in `PROJECT.json`.

1. **A newer snapshot is acknowledged while an older one is committed**
   (`room_stale`). After a failed preparation the caller's own record returns
   to the queue; the room retries with a newer body under the same sequence;
   `contains_identity` keeps the old one.
2. **An empty round wedges the journal** (`journal_wedge`): its preparation can
   be neither committed nor aborted.
3. **Two orders of the same two gates** (`gates_order`): comment routes take
   `publication_write` before `restore_write`, agent requests and publications
   of source the reverse; one of each wait for each other for ever.
4. **A creation interrupted after staging stops every later start**
   (`doc_restart`): its commit is refused once the lease has expired, and the
   refusal is the result of opening the store.
5. **An ignored update is acknowledged with the next one** (`session_badge`),
   and the tab says nothing is pending.

## 7. Observations

What follows was met while modelling: a formula kept in its module that the
code violates in the instance given (no run repeats it), or a limit of what a
passing property says.

*Journal and rooms.* A failed recovery, or a call dropped with other calls'
records in its round, drops those records: their caller seals a round without
them, commits it and answers Ok (`AckedIsDurable` with "read" or "cancel"). A
retry is enqueued before its status is read and can be committed twice; so can
a record left queued by a failed read or preparation or by a dropped call
(`OneRecordPerCursor` with "retry", "read", "prepare", "cancel").
`WaitersAreCounted`: `waiting_producers` leaks when a waiter is dropped.
`NoHookLost`: a completion hook can be skipped at shutdown.
`RegAdmittedToTheRoom`: a caller that `try_get` admitted may hold a room that
is no longer the one that stands for the document, with no deletion under way. `GateNoStandoff` with the mix `MCGateRevision`: `decide_revision` locks
`publication_write`, which its caller over a socket already holds
(`server/socket.rs:734`, `room/mod.rs:1345`).
`decide_revision`'s failure path restores the state before while it holds only
`publication_write`.

*Agent operations.* `AgRowsAreTrue` is false when certain failures meet, which the
theorem's hypothesis and the run leave out. A dropped call whose actor then loses its rights is
restored from its backup, and with it goes an edit saved since
the call was dropped ("drop" with "revoke"). A commit refused for another reason leaves
a mark in the journal whose text was taken back, and a later recovery commits the row
("commit" with "crash", "drop" or "catalog"); so does a right that is withdrawn
and given back around a crash ("revoke", "regrant" and "crash").

*Edit reservations.* A writer dropped between its append and its settlement
(`RoomWriteReservation.commit` takes the slot before it submits the settlement
job, `catalog.rs:437–448`) leaves `writing_bytes` charged until the next write;
the run and the theorem leave that drop out. `EditUndoesItsOwn` (three updates,
one cancellation) and `EditUnsavedIsReserved` (three updates, two writers) are
violated. An HTTP future dropped inside `edit_into_session` leaves its edit
unsettled.

*Storage.* `RetErasureIsPhysical`: when a deletion has finished, its bytes may
still be in a segment shared with another document until the rewrite.
`RetDeletionFinishes` is a liveness property for `RetFairSpec`; the deletion
worker serves slugs in order, so a stuck one starves the later.
`AccNextMeasureRepairs` (one object, writer and request, one byte, no
headroom): a lost charge is not repaired by the next measurement. Metadata
headroom can be refunded twice: a measured publication drops it and the
retirement of the object gives it back again. Two writers that shrink one object
at a time would both give back the difference (`commit_object_change`); no caller
does, as only objects named by their content have several writers and the
publication's manifest is swapped under its lock (the guard of `AccReserve`). Uploads of a rendered publication outside the
barrier lose their charge. `HistRetainedIsReadable` (two edits, no fault):
figures are pruned from the live references only. A heartbeat stops at any
single error; a stalled writer leaves unqueued objects; direct deletes of shed
trees leak on a crash.

*Agents and suggestions.* `AgLoadSettles` (a cancellation and a crash): an
operation marked and then refused is not settled at load. A commit that
answers an error but took effect returns Ok without a broadcast.
`SgAcceptanceIsFinal` (a dropped decision), and `SgAcceptedOnce` with two
requests or with "overtake": the web client makes a fresh id for each click, so
after a failed checkpoint every later decision is refused as pending; a
refinement between begin and stage makes the retry "reused with different
content"; a second staged receipt makes the owner's Resolve refused.

*Erasure and deletion.* `ErErasureAdvances` with "late" (a checkpoint queued
before the erasure is inserted after `finish_erasure`) and with "again"; an
account stuck in erasure starves those behind it; a comment job committed
before `begin_erasure` but installed in the room's memory afterwards shows the
erased author; erasure and expiry do not purge rooms. `DocNothingIsLeft`: a
crash between `put_catalog` and the preparation leaves a charged row
`creating`; a creation prepared and not staged whose lease was swept refuses
the start for a second reason (RESTRICT, `migrations/0001_catalog.sql:142`); a
native publication whose tree is missing is never aborted at startup;
`Store::remove` answers an error when the worker finished first; an upload
whose owner is erased meanwhile is answered 201. `IdxAckedSurvives` for a put
onto an existing document: the loser writes an entry read before the winner's.

*Publication and backup.* `PubSupersededHasGrace` (three bundles sharing one
object, two ticks of life): a marker of an earlier unreferenced period decides.
`PubReclaimsUnreachable` (the constants of `documents`): `garbage_collect` takes
a failed read of a preparation's `.meta` for an expired one, skips a `.manifest`
it cannot read, and goes on. An object no page names is marked; after its
lifetime a preparation that names it is told it is there; a collection fails to
read that preparation and deletes the object. The activation is refused until
the publisher prepares again. So `PubNeededIsStored` promises nothing to a
request passed over since its last answer (`pubUnread`), while the pointer stays
complete. `prepare` passes over the same failures: a third preparation is
admitted beside two it cannot read, and a descriptor of its own that it cannot
read is written again.
`BakStoppedCanBeCopied`: after a crash, leased but unwritten or deleted objects
refuse every backup until a server has run. `BakCompleteIsWhole` with "drop": a
dropped creation's marker lands after its claim is gone.

*Sync.* `SyncUnseenWordsSurvive`, `SyncSavesAreRead` and, for a project,
`PjChangesArrive`, `PjSavesAreRead` and `PjConflictsStay` (the next reconcile
uploads the local bytes of a conflict over the room's).

*Assistant and tools.* `ChatAsksArrive`: a request before the runner's `ready`
is dropped after the hub acknowledged it. A report whose sequence is recorded
before a full queue refuses it is then acknowledged as a duplicate; a
reconnecting browser that meets its old connection gives up; a journal full of
unresolved events keeps a runner from starting; only the first 64 keys are
asked for at a start. `ToolReceiptsAreWhole`, and with it `ToolEffectsAreKnown`, with a failing item.

*Companion.* `CompPreviewsWaitForRuns` (a superseded job never gets a finish
time), `CompCanceledStays`, `CompPreviewIsAlone`, `CompNewestIsKept` and
`CompJobsRunOnce` with a torn write: three requests of which two are recorded,
two grants, one failure. Pairing and binding files are read, changed and
written without a lock; the sync of a hosted workspace can lose track of files.

*Sessions.* A reference to the state whose fetch fails once leaves a healthy
socket that never joins; a late `start` of an old connection can clear the
pending badge for a moment; a revocation between the handshake and the entry
into the table of connections is seen only at the next frame or timer.

## 8. Not modelled

Blob stores as such (the modules have a map from keys to objects, with requests
that fail before or after taking effect) and the room lease taken through one;
request parsing, routing and replies; OAuth exchanges and device codes;
configuration, sample data, result queries; rendering, page headers and package
validation; the text of edits, comments and tracked changes; account-wide
quotas and storage pressure; rate windows and cost counters; presence and
awareness; pairing, confinement and log parsing of the companion. Components
marked `partly` in `PROJECT.json` say what of them is left out.

## 9. Plan

1. Invariants of the project's sync client (`PjWordsSurvive`) and of the session
   channel (`SessEditsArrive`).
2. Modules: the hosted workspace and pairing of the companion, the room lease,
   device codes, account quotas and pressure.
