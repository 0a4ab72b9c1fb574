----------------------------- MODULE RoomJournal -----------------------------
(***************************************************************************)
(* Live rooms over the journal: each room holds a document in memory,      *)
(* accepts edits, snapshots the whole document and appends it, and tells   *)
(* its sockets an edit is saved (y-ack) when the append has answered Ok.   *)
(* The room is also the writer: session_write lets it have one append in   *)
(* flight.                                                                 *)
(***************************************************************************)
EXTENDS Journal

CONSTANTS
  Edit,       \* updates the clients of a room may send
  NoSnapshot  \* no session write is in flight

ASSUME RoomAssumption ==
  /\ Writer = Room /\ Body = SUBSET Edit
  /\ NoSnapshot \notin [body : SUBSET Edit, generation : Nat]

VARIABLES
  doc,        \* SessionState.doc: the edits applied in memory
  generation, \* SessionState.generation
  dirty,      \* SessionState.dirty
  snapshot,   \* what a session write in flight has captured: [body, generation]
  saved       \* history: the edits y-ack has told some client are durable

roomVars == <<doc, generation, dirty, snapshot, saved>>
allVars == <<vars, roomVars>>

\* recover_latest: the complete record of the highest committed sequence.
Recovered(r) ==
  LET latest == {q \in Stored : q.id = <<r, LatestSequence(r)>>}
  IN IF latest = {} THEN {} ELSE (CHOOSE q \in latest : TRUE).body

---------------------------------------------------------------------------
\* receive_update: the edit is applied in memory and relayed; saving is later.
\* A client that reconnects sends again what was not acknowledged.
ReceiveUpdate(r, e) ==
  /\ serving /\ e \notin doc[r]
  /\ doc' = [doc EXCEPT ![r] = @ \cup {e}]
  /\ generation' = [generation EXCEPT ![r] = @ + 1]
  /\ dirty' = [dirty EXCEPT ![r] = TRUE]
  /\ UNCHANGED <<vars, snapshot, saved>>

\* The cursor a session write asks for: past the generation and past what is
\* durable, whichever is further.
DurableSequence(r) ==
  LET latest == LatestSequence(r)
  IN IF generation[r] + 1 >= latest + 1 THEN generation[r] + 1 ELSE latest + 1

\* write_session_inner up to the append.  The sweeper writes dirty rooms only;
\* a checkpoint writes any room (and, as a bound, leaves the edits their cursors:
\* an edit costs two, since a reload moves the generation to the latest one).
WriteSession(r, onlyDirty) ==
  /\ snapshot[r] = NoSnapshot
  /\ onlyDirty => dirty[r]
  /\ ~onlyDirty => DurableSequence(r) + 2 * Cardinality(Edit) <= MaxSequence
  /\ DurableSequence(r) <= MaxSequence
  /\ snapshot' = [snapshot EXCEPT ![r] = [body |-> doc[r], generation |-> generation[r]]]
  /\ Request(r, [id |-> <<r, DurableSequence(r)>>, body |-> doc[r]])
  /\ UNCHANGED <<doc, generation, dirty, saved>>

\* (mutants) an edit made during the write is taken for written; or what is in
\* memory is acknowledged.
NeverEdited(r) == FALSE
AcknowledgeMemory(r) == doc[r]

\* The generation tells whether an edit landed while the append was in flight;
\* only what the snapshot captured is acknowledged.
EditedMeanwhile(r) == generation[r] # snapshot[r].generation
Acknowledged(r) == snapshot[r].body

\* The append answered Ok: the room is clean unless it was edited meanwhile.
Persisted(r) ==
  /\ snapshot[r] # NoSnapshot /\ pc[r] = "ok"
  /\ dirty' = [dirty EXCEPT ![r] = @ /\ EditedMeanwhile(r)]
  /\ saved' = [saved EXCEPT ![r] = @ \cup Acknowledged(r)]
  /\ snapshot' = [snapshot EXCEPT ![r] = NoSnapshot]
  /\ Goto(r, "idle")
  /\ UNCHANGED <<queue, pending, gate, call, round, serving, catalogue, accounting, objects,
                 operations, acked, doc, generation>>

\* The append failed, or the quota reservation could not be committed after it:
\* the room stays as it is and a later write tries again.
NotPersisted(r) ==
  /\ snapshot[r] # NoSnapshot
  /\ pc[r] = "err" \/ (pc[r] = "ok" /\ "settle" \in Faults)
  /\ snapshot' = [snapshot EXCEPT ![r] = NoSnapshot]
  /\ Goto(r, "idle")
  /\ UNCHANGED <<queue, pending, gate, call, round, serving, catalogue, accounting, objects,
                 operations, acked, doc, generation, dirty, saved>>

\* load_session: the document is what the journal recovers, the generation its
\* latest sequence.
Load(r) ==
  /\ doc' = [doc EXCEPT ![r] = Recovered(r)]
  /\ generation' = [generation EXCEPT ![r] = LatestSequence(r)]
  /\ dirty' = [dirty EXCEPT ![r] = FALSE]

\* (mutant) a dirty room is evicted like any other.
IdleWhenDirty(r) == snapshot[r] = NoSnapshot
\* evict_idle drops a room only when it is clean and nothing holds it; the next
\* visitor loads it again.
Evictable(r) == ~dirty[r] /\ snapshot[r] = NoSnapshot

Reload(r) ==
  /\ serving /\ Evictable(r)
  /\ Load(r)
  /\ UNCHANGED <<vars, snapshot, saved>>

\* The journal takes a step of its own.
JournalStep(r) ==
  /\ Step(r) \/ Fault(r)
  /\ UNCHANGED roomVars

CancelWrite(r) ==
  /\ Cancel(r)
  /\ snapshot' = [snapshot EXCEPT ![r] = NoSnapshot]
  /\ UNCHANGED <<doc, generation, dirty, saved>>

\* Rooms are memory: a restart loads every document from the journal.
CrashRooms ==
  /\ Crash
  /\ doc' = [r \in Room |-> Recovered(r)]
  /\ generation' = [r \in Room |-> LatestSequence(r)]
  /\ dirty' = [r \in Room |-> FALSE]
  /\ snapshot' = [r \in Room |-> NoSnapshot]
  /\ UNCHANGED saved

\* Startup may commit an operation the crash interrupted, before any room loads.
StartupRooms ==
  /\ Startup
  /\ doc' = [r \in Room |-> Recovered(r)']
  /\ generation' = [r \in Room |-> LatestSequence(r)']
  /\ UNCHANGED <<dirty, snapshot, saved>>

---------------------------------------------------------------------------
RoomInit ==
  /\ Init
  /\ doc = [r \in Room |-> {}]
  /\ generation = [r \in Room |-> 0]
  /\ dirty = [r \in Room |-> FALSE]
  /\ snapshot = [r \in Room |-> NoSnapshot]
  /\ saved = [r \in Room |-> {}]

RoomNext ==
  \/ \E r \in Room, e \in Edit : ReceiveUpdate(r, e)
  \/ \E r \in Room, onlyDirty \in BOOLEAN : WriteSession(r, onlyDirty)
  \/ \E r \in Room : Persisted(r) \/ NotPersisted(r) \/ Reload(r)
  \/ \E r \in Room : JournalStep(r)
  \/ CrashRooms
  \/ StartupRooms

\* The same rooms when the task that writes one may be dropped.
DroppedRoomNext == RoomNext \/ \E r \in Room : CancelWrite(r)

RoomSpec == RoomInit /\ [][RoomNext]_allVars

---------------------------------------------------------------------------
\* An edit a client was told is saved is in what a restart would recover.
SavedIsRecoverable == \A r \in Room : saved[r] \subseteq Recovered(r)

\* A room that is not dirty may be evicted: storage has all of its document.
CleanRoomIsDurable == \A r \in Room : serving /\ ~dirty[r] => doc[r] = Recovered(r)

\* What a restart would recover only grows: a stale record that a failed write
\* left behind never shadows a newer snapshot.
RecoveryNeverRegresses ==
  [][\A r \in Room : Recovered(r) \subseteq Recovered(r)']_allVars
=============================================================================
