--------------------------- MODULE EditReservations ---------------------------
(***************************************************************************)
(* The quota a live room holds for edits that are not durable yet: one row *)
(* of room_edit_reservations, written by updates (which reserve the next   *)
(* snapshot before they are applied) and by the session writer (which      *)
(* moves the pending bytes into its own share and settles them).  The      *)
(* catalogue jobs of a caller that is dropped go on without it, so a       *)
(* caller and the completion hook of its job share a slot that lets one of *)
(* them undo the reservation.  One room; no publication is pending.        *)
(***************************************************************************)
EXTENDS Naturals, FiniteSets

CONSTANTS
  EditUpdate,  \* updates the room receives
  EditWriter,  \* session writes
  EditDrops,   \* the phases in which a caller may be dropped
  EditCancels  \* bound: callers that are dropped

ASSUME EditAssumption ==
  /\ EditUpdate \cap EditWriter = {} /\ EditCancels \in Nat
  /\ EditDrops \subseteq {"reserving", "reserved", "rollback", "settling"}

VARIABLES
  edRow,        \* the row: [pending, writing, gen]
  edSlot,       \* ReservationSlot of each caller
  edPhase,      \* where each caller stands
  edJob,        \* the catalogue job of each caller, with its completion hook
  edLock,       \* who holds publication_write and session_write
  edSeen,       \* the generation an update was admitted against
  edBytes,      \* what a caller reserves: the size of its snapshot
  edGeneration, \* SessionState.generation
  edSize,       \* size of the document in memory
  edDirty,      \* SessionState.dirty
  edUnsaved,    \* history: applied updates that no finished write contains
  edCaptured,   \* history: the updates a writer's snapshot contains
  edWroteRow,   \* history: the caller whose reservation the row was written by
  edCancelled   \* callers dropped so far

edSession == <<edSeen, edBytes, edGeneration, edSize, edDirty, edUnsaved, edCaptured>>
edVars == <<edRow, edSlot, edPhase, edJob, edLock, edSession, edWroteRow, edCancelled>>

EditCaller == EditUpdate \cup EditWriter
EditNobody == "nobody"

\* A missing row reads as zeros.
NoRow == [pending |-> 0, writing |-> 0, gen |-> 0]
Pruned(row) == IF row.pending = 0 /\ row.writing = 0 THEN NoRow ELSE row

\* reserve_room_edit and begin_room_write (room_snapshot_reservation).
ReservedEdit(row, bytes) == [pending |-> bytes, writing |-> row.writing, gen |-> row.gen + 1]
BegunWrite(row, bytes) == [pending |-> 0, writing |-> bytes, gen |-> row.gen + 1]

\* restore_room_edit.
Restored(row, r) ==
  IF row.gen # r.gen THEN row
  ELSE Pruned([pending |-> r.previous, writing |-> row.writing, gen |-> row.gen + 1])

Larger(a, b) == IF a >= b THEN a ELSE b
\* finish_room_write.
FinishedWrite(row, success) ==
  IF row = NoRow THEN NoRow
  ELSE Pruned([pending |-> IF success THEN row.pending ELSE Larger(row.pending, row.writing),
               writing |-> 0, gen |-> row.gen + 1])

\* Undoing a reservation: an update by its generation, a writer always.
Undone(c, row) ==
  IF c \in EditUpdate THEN Restored(row, CHOOSE r \in edSlot[c].reserved : TRUE)
  ELSE FinishedWrite(row, FALSE)

\* The three ways the slot is claimed.  abandon and on_completion hand the
\* reservation to exactly one side.
FreshSlot == [reserved |-> {}, gone |-> FALSE, settled |-> FALSE]
Owed(c) == ~edSlot[c].settled /\ edSlot[c].reserved # {}
\* (mutant) a caller that leaves before the job has committed says nothing.
AbandonedQuietly(s) ==
  IF s.reserved = {} THEN s ELSE [s EXCEPT !.gone = TRUE, !.settled = TRUE]
EditAbandoned(s) ==
  [reserved |-> s.reserved, gone |-> TRUE, settled |-> s.settled \/ s.reserved # {}]
EditKept(s) == [reserved |-> s.reserved, gone |-> TRUE, settled |-> TRUE]
HookOwes(s) == s.gone /\ ~s.settled

---------------------------------------------------------------------------
\* receive_update up to the reservation, under publication_write.
EditReserve(u) ==
  /\ edPhase[u] = "new" /\ edLock.publication = EditNobody
  /\ edLock' = [edLock EXCEPT !.publication = u]
  /\ edPhase' = [edPhase EXCEPT ![u] = "reserving"]
  /\ edJob' = [edJob EXCEPT ![u] = "queued"]
  /\ edSeen' = [edSeen EXCEPT ![u] = edGeneration]
  /\ edBytes' = [edBytes EXCEPT ![u] = edSize + 1]
  /\ UNCHANGED <<edRow, edSlot, edGeneration, edSize, edDirty, edUnsaved, edCaptured,
                 edWroteRow, edCancelled>>

\* write_session_inner up to its reservation, under session_write.
EditBeginWrite(w) ==
  /\ edPhase[w] = "new" /\ edLock.session = EditNobody /\ edDirty
  /\ edLock' = [edLock EXCEPT !.session = w]
  /\ edPhase' = [edPhase EXCEPT ![w] = "reserving"]
  /\ edJob' = [edJob EXCEPT ![w] = "queued"]
  /\ edSeen' = [edSeen EXCEPT ![w] = edGeneration]
  /\ edBytes' = [edBytes EXCEPT ![w] = edSize]
  /\ edCaptured' = [edCaptured EXCEPT ![w] = edUnsaved]
  /\ UNCHANGED <<edRow, edSlot, edGeneration, edSize, edDirty, edUnsaved, edWroteRow,
                 edCancelled>>

\* The job on an executing thread: its transaction and slot.record, or a refusal.
EditReserveJob(c) ==
  /\ edJob[c] = "queued"
  /\ \/ /\ edRow' = IF c \in EditUpdate THEN ReservedEdit(edRow, edBytes[c])
                    ELSE BegunWrite(edRow, edBytes[c])
        /\ edSlot' = [edSlot EXCEPT ![c].reserved =
                        {[previous |-> edRow.pending, gen |-> edRow.gen + 1]}]
        /\ edJob' = [edJob EXCEPT ![c] = "committed"]
        /\ edWroteRow' = c
     \/ /\ edJob' = [edJob EXCEPT ![c] = "refused"]
        /\ UNCHANGED <<edRow, edSlot, edWroteRow>>
  /\ UNCHANGED <<edPhase, edLock, edSession, edCancelled>>

\* The completion hook, which runs after the job whether or not anybody waits.
EditHook(c) ==
  /\ edJob[c] = "committed"
  /\ IF HookOwes(edSlot[c])
     THEN /\ edSlot' = [edSlot EXCEPT ![c].settled = TRUE]
          /\ edJob' = [edJob EXCEPT ![c] = "undo"]
     ELSE /\ edJob' = [edJob EXCEPT ![c] = "done"]
          /\ UNCHANGED edSlot
  /\ UNCHANGED <<edRow, edPhase, edLock, edSession, edWroteRow, edCancelled>>

\* The undo of a hook or of a rollback reaches the catalogue.
EditUndoJob(c) ==
  /\ edJob[c] = "undo"
  /\ edRow' = Undone(c, edRow)
  /\ edWroteRow' = IF edRow' = edRow THEN edWroteRow ELSE c
  /\ edJob' = [edJob EXCEPT ![c] = "undone"]
  /\ UNCHANGED <<edSlot, edPhase, edLock, edSession, edCancelled>>

Unlock(c) == [k \in DOMAIN edLock |-> IF edLock[k] = c THEN EditNobody ELSE edLock[k]]

\* The caller resumes.
EditResume(c) ==
  /\ edPhase[c] = "reserving"
  /\ \/ /\ edJob[c] = "done"
        /\ edPhase' = [edPhase EXCEPT ![c] = "reserved"]
        /\ UNCHANGED edLock
     \/ /\ edJob[c] = "refused"
        /\ edPhase' = [edPhase EXCEPT ![c] = "over"]
        /\ edLock' = Unlock(c)
  /\ UNCHANGED <<edRow, edSlot, edJob, edSession, edWroteRow, edCancelled>>

\* The update is applied and the room keeps the reservation.
EditApply(u) ==
  /\ u \in EditUpdate /\ edPhase[u] = "reserved" /\ edGeneration = edSeen[u]
  /\ edSize' = edSize + 1 /\ edGeneration' = edGeneration + 1 /\ edDirty' = TRUE
  /\ edUnsaved' = edUnsaved \cup {u}
  /\ edSlot' = [edSlot EXCEPT ![u] = EditKept(@)]
  /\ edPhase' = [edPhase EXCEPT ![u] = "over"] /\ edLock' = Unlock(u)
  /\ UNCHANGED <<edRow, edJob, edSeen, edBytes, edCaptured, edWroteRow, edCancelled>>

\* The socket has gone, the edit is not admissible or the generation moved:
\* rollback, which leaves the slot unsettled until its job has run.
EditRollback(u) ==
  /\ u \in EditUpdate /\ edPhase[u] = "reserved"
  /\ edPhase' = [edPhase EXCEPT ![u] = "rollback"]
  /\ edJob' = [edJob EXCEPT ![u] = "undo"]
  /\ UNCHANGED <<edRow, edSlot, edLock, edSession, edWroteRow, edCancelled>>

EditRolledBack(u) ==
  /\ edPhase[u] = "rollback" /\ edJob[u] = "undone"
  /\ edSlot' = [edSlot EXCEPT ![u] = EditKept(@)]
  /\ edPhase' = [edPhase EXCEPT ![u] = "over"] /\ edLock' = Unlock(u)
  /\ UNCHANGED <<edRow, edJob, edSession, edWroteRow, edCancelled>>

\* Every other change of the document moves the generation without
\* publication_write: restore_and_checkpoint, suggestion acceptance.
EditElsewhere ==
  /\ edGeneration = 0 /\ edGeneration' = 1
  /\ UNCHANGED <<edRow, edSlot, edPhase, edJob, edLock, edSeen, edBytes, edSize, edDirty,
                 edUnsaved, edCaptured, edWroteRow, edCancelled>>

---------------------------------------------------------------------------
\* The snapshot is durable; RoomWriteReservation.commit takes the slot and
\* submits the settlement.
EditAppended(w) ==
  /\ w \in EditWriter /\ edPhase[w] = "reserved"
  /\ edUnsaved' = edUnsaved \ edCaptured[w]
  /\ edSlot' = [edSlot EXCEPT ![w] = EditAbandoned(@)]
  /\ edPhase' = [edPhase EXCEPT ![w] = "settling"]
  /\ edJob' = [edJob EXCEPT ![w] = "settle"]
  /\ UNCHANGED <<edRow, edLock, edSeen, edBytes, edGeneration, edSize, edDirty, edCaptured,
                 edWroteRow, edCancelled>>

EditSettleJob(w) ==
  /\ edJob[w] = "settle"
  /\ edRow' = FinishedWrite(edRow, TRUE) /\ edWroteRow' = w
  /\ edJob' = [edJob EXCEPT ![w] = "settled"]
  /\ UNCHANGED <<edSlot, edPhase, edLock, edSession, edCancelled>>

EditWritten(w) ==
  /\ edPhase[w] = "settling" /\ edJob[w] = "settled"
  /\ edDirty' = (edGeneration # edSeen[w])
  /\ edPhase' = [edPhase EXCEPT ![w] = "over"] /\ edLock' = Unlock(w)
  /\ UNCHANGED <<edRow, edSlot, edJob, edSeen, edBytes, edGeneration, edSize, edUnsaved,
                 edCaptured, edWroteRow, edCancelled>>

\* A guard is dropped: the write failed, or the caller of either kind is gone.
\* What the slot still owes is undone at once, on this thread.
Dropped(c) ==
  /\ edSlot' = [edSlot EXCEPT ![c] = EditAbandoned(@)]
  /\ edRow' = IF Owed(c) THEN Undone(c, edRow) ELSE edRow
  /\ edWroteRow' = IF edRow' = edRow THEN edWroteRow ELSE c
  /\ edPhase' = [edPhase EXCEPT ![c] = "over"] /\ edLock' = Unlock(c)
  /\ UNCHANGED <<edSession>>

EditWriteFails(w) ==
  /\ w \in EditWriter /\ edPhase[w] = "reserved"
  /\ Dropped(w) /\ UNCHANGED <<edJob, edCancelled>>

\* A caller is dropped at its await; its job goes on.  A job it had not
\* submitted yet (admission has to wait) never runs.
EditCancel(c) ==
  /\ edPhase[c] \in EditDrops
  /\ Cardinality(edCancelled) < EditCancels /\ edCancelled' = edCancelled \cup {c}
  /\ Dropped(c)
  /\ edJob' \in {edJob} \cup
       (IF edJob[c] \in {"queued", "undo", "settle"} THEN {[edJob EXCEPT ![c] = "refused"]} ELSE {})

---------------------------------------------------------------------------
EditInit ==
  /\ edRow = NoRow
  /\ edSlot = [c \in EditCaller |-> FreshSlot]
  /\ edPhase = [c \in EditCaller |-> "new"] /\ edJob = [c \in EditCaller |-> "none"]
  /\ edLock = [publication |-> EditNobody, session |-> EditNobody]
  /\ edSeen = [c \in EditCaller |-> 0] /\ edBytes = [c \in EditCaller |-> 0]
  /\ edGeneration = 0 /\ edSize = 0 /\ edDirty = FALSE /\ edUnsaved = {}
  /\ edCaptured = [w \in EditWriter |-> {}]
  /\ edWroteRow = EditNobody /\ edCancelled = {}

EditNext ==
  \/ \E u \in EditUpdate : \/ EditReserve(u) \/ EditApply(u) \/ EditRollback(u)
                           \/ EditRolledBack(u)
  \/ \E w \in EditWriter : \/ EditBeginWrite(w) \/ EditAppended(w) \/ EditSettleJob(w)
                           \/ EditWritten(w) \/ EditWriteFails(w)
  \/ \E c \in EditCaller : \/ EditReserveJob(c) \/ EditHook(c) \/ EditUndoJob(c)
                           \/ EditResume(c) \/ EditCancel(c)
  \/ EditElsewhere

EditSpec == EditInit /\ [][EditNext]_edVars

---------------------------------------------------------------------------
InFlight(c) ==
  \/ edPhase[c] \notin {"new", "over"}
  \/ edJob[c] \in {"queued", "committed", "undo", "settle"}

\* The handshake: a reservation whose caller has left and whose hook has run is
\* settled by one of them; and the writer's share of the row is held by a write
\* in flight.
EditReservationsAreSettled ==
  /\ \A c \in EditCaller :
       edPhase[c] = "over" /\ ~InFlight(c) /\ edSlot[c].reserved # {} => edSlot[c].settled
  /\ edRow.writing > 0 => \E w \in EditWriter : InFlight(w)

\* An update's cleanup undoes its own reservation or nothing: a row that
\* somebody else wrote since is left alone.
EditUndoesItsOwn ==
  [][\A u \in EditUpdate :
       edRow' # edRow /\ (EditUndoJob(u) \/ EditCancel(u)) => edWroteRow = u]_edVars

\* Unsaved edits are reserved for, unless a write is moving their bytes.
EditUnsavedIsReserved ==
  edUnsaved # {} /\ (\A w \in EditWriter : ~InFlight(w)) => edRow.pending > 0
=============================================================================
