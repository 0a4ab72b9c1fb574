---------- MODULE AccountingProofs ----------
(***************************************************************************)
(* The catalogue's accounting of what outlives its caller: the             *)
(* reservations of edits, the erasure of an account, the receipts of       *)
(* accepted suggestions, the rows of agent operations and what a document  *)
(* is charged.                                                             *)
(***************************************************************************)
EXTENDS EditReservations, AccountErasure, SuggestionAccept, AgentOperation, ObjectAccounting, FiniteSetTheorems, WellFoundedInduction, TLAPS

---------------------------------------------------------------------------
(***************************************************************************)
(* For any number of updates and writers, any number of dropped callers:   *)
(* a reservation whose caller has left is settled by the caller or by the  *)
(* hook of its job; and, where no writer is dropped between its append and *)
(* its settlement, the writer's share of the row is held by a write in     *)
(* flight.  (RoomWriteReservation.commit takes the slot before it submits  *)
(* the settlement: a writer dropped there leaves its share to the next     *)
(* write.)                                                                 *)
(***************************************************************************)

Rows == [pending : Nat, writing : Nat, gen : Nat]
Reservations == [previous : Nat, gen : Nat]
Slots == [reserved : SUBSET Reservations, gone : BOOLEAN, settled : BOOLEAN]

EditTypeOK ==
  /\ edRow \in Rows
  /\ edSlot \in [EditCaller -> Slots]
  /\ edPhase \in [EditCaller -> {"new", "reserving", "reserved", "rollback", "settling", "over"}]
  /\ edJob \in [EditCaller -> {"none", "queued", "committed", "refused", "undo", "undone",
                               "done", "settle", "settled"}]
  /\ edBytes \in [EditCaller -> Nat] /\ edSize \in Nat

\* Nobody has taken responsibility for what the job reserved.
Open(c) == edSlot[c].reserved # {} /\ ~edSlot[c].settled

\* A slot whose caller has left before its job committed.
GoneSlot == [reserved |-> {}, gone |-> TRUE, settled |-> FALSE]

\* Where a caller stands, what its job has done and what its slot says.
CallerIsSound(c) ==
  /\ edPhase[c] = "new" => edJob[c] = "none" /\ edSlot[c] = FreshSlot
  /\ edPhase[c] = "reserving" =>
       \/ edJob[c] \in {"queued", "refused"} /\ edSlot[c] = FreshSlot
       \/ edJob[c] \in {"committed", "done"} /\ Open(c) /\ ~edSlot[c].gone
  /\ edPhase[c] = "reserved" => edJob[c] = "done" /\ Open(c)
  /\ edPhase[c] = "rollback" => edJob[c] \in {"undo", "undone"} /\ Open(c)
  /\ edPhase[c] = "settling" =>
       edJob[c] \in {"settle", "settled"} /\ edSlot[c].settled /\ edSlot[c].reserved # {}
  /\ edPhase[c] = "over" =>
       /\ edJob[c] = "queued" => edSlot[c] = GoneSlot
       /\ edJob[c] = "committed" => edSlot[c].reserved # {} /\ (edSlot[c].settled \/ edSlot[c].gone)
       /\ Open(c) => edJob[c] = "committed"
  /\ edJob[c] = "undo" => edSlot[c].reserved # {}
  /\ edPhase[c] = "settling" => c \in EditWriter
  /\ edPhase[c] = "rollback" => c \in EditUpdate

\* The inductive invariant of the handshake.
EditInv == EditTypeOK /\ \A c \in EditCaller : CallerIsSound(c)

\* A writer that still owes the settlement of its share.
Charged(w) ==
  \/ Open(w)
  \/ edJob[w] = "undo"
  \/ edPhase[w] = "settling" /\ edJob[w] = "settle"
WritingIsCharged == edRow.writing > 0 => \E w \in EditWriter : Charged(w)

---------------------------------------------------------------------------
\* What a job or an undo writes is a row.
LEMMA RowTypes ==
  ASSUME NEW row \in Rows
  PROVE  /\ Pruned(row) \in Rows
         /\ \A bytes \in Nat : ReservedEdit(row, bytes) \in Rows /\ BegunWrite(row, bytes) \in Rows
         /\ \A r \in Reservations : Restored(row, r) \in Rows
         /\ \A success \in BOOLEAN : FinishedWrite(row, success) \in Rows
<1>1. \A any \in Rows : Pruned(any) \in Rows
  BY DEF Pruned, NoRow, Rows
<1>2. ASSUME NEW r \in Reservations PROVE Restored(row, r) \in Rows
  <2>1. [pending |-> r.previous, writing |-> row.writing, gen |-> row.gen + 1] \in Rows
    BY DEF Rows, Reservations
  <2> QED BY <1>1, <2>1 DEF Restored
<1>3. ASSUME NEW success \in BOOLEAN PROVE FinishedWrite(row, success) \in Rows
  <2>1. [pending |-> IF success THEN row.pending ELSE Larger(row.pending, row.writing),
         writing |-> 0, gen |-> row.gen + 1] \in Rows
    BY DEF Rows, Larger
  <2> QED BY <1>1, <2>1 DEF FinishedWrite, NoRow, Rows
<1>4. \A bytes \in Nat : ReservedEdit(row, bytes) \in Rows /\ BegunWrite(row, bytes) \in Rows
  BY DEF Rows, ReservedEdit, BegunWrite
<1> QED BY <1>1, <1>2, <1>3, <1>4

\* Only a writer's reservation raises the writer's share; what finishes or
\* undoes a write takes it away.
LEMMA RowShares ==
  ASSUME NEW row \in Rows
  PROVE  /\ \A bytes : ReservedEdit(row, bytes).writing = row.writing
         /\ \A r : Restored(row, r).writing \in {0, row.writing}
         /\ \A success : FinishedWrite(row, success).writing = 0
BY DEF Rows, ReservedEdit, Restored, FinishedWrite, Pruned, NoRow

\* What a slot says after its caller has left, or has kept what it holds.
LEMMA SlotLeft ==
  ASSUME NEW s \in Slots
  PROVE  /\ EditAbandoned(s) \in Slots /\ EditKept(s) \in Slots
         /\ EditAbandoned(s).reserved = s.reserved /\ EditAbandoned(s).gone
         /\ EditAbandoned(s).settled <=> s.settled \/ s.reserved # {}
         /\ EditKept(s).settled
         /\ s \in {FreshSlot, GoneSlot} => EditAbandoned(s) = GoneSlot
<1>1. EditAbandoned(s) \in Slots /\ EditKept(s) \in Slots
  BY DEF Slots, EditAbandoned, EditKept
<1>2. /\ EditAbandoned(s).reserved = s.reserved /\ EditAbandoned(s).gone
      /\ EditAbandoned(s).settled <=> s.settled \/ s.reserved # {}
      /\ EditKept(s).settled
  BY DEF EditAbandoned, EditKept
<1>3. s \in {FreshSlot, GoneSlot} => EditAbandoned(s) = GoneSlot
  <2>1. s \in {FreshSlot, GoneSlot} => s.reserved = {} /\ ~s.settled
    BY DEF FreshSlot, GoneSlot
  <2>2. s \in {FreshSlot, GoneSlot} => (s.settled \/ s.reserved # {}) = FALSE
    BY <2>1
  <2> QED BY <2>1, <2>2 DEF EditAbandoned, GoneSlot
<1> QED BY <1>1, <1>2, <1>3

\* A caller that does not move is as sound as it was.
LEMMA StillSound ==
  ASSUME NEW c \in EditCaller, CallerIsSound(c),
         edSlot'[c] = edSlot[c], edPhase'[c] = edPhase[c], edJob'[c] = edJob[c]
  PROVE  CallerIsSound(c)'
BY DEF CallerIsSound, Open

\* Undoing what a caller reserved leaves a row.
LEMMA UndoneRow ==
  ASSUME EditTypeOK, NEW c \in EditCaller, edSlot[c].reserved # {}
  PROVE  /\ Undone(c, edRow) \in Rows
         /\ c \in EditUpdate => Undone(c, edRow).writing \in {0, edRow.writing}
         /\ c \notin EditUpdate => Undone(c, edRow).writing = 0
<1>1. CASE c \in EditUpdate
  <2> DEFINE r == CHOOSE r \in edSlot[c].reserved : TRUE
  <2>1. r \in Reservations
    BY DEF EditTypeOK, Slots
  <2>2. Undone(c, edRow) = Restored(edRow, r) /\ edRow \in Rows
    BY <1>1 DEF Undone, EditTypeOK
  <2> HIDE DEF r
  <2> QED BY <1>1, <2>1, <2>2, RowTypes, RowShares
<1>2. CASE c \notin EditUpdate
  <2>1. Undone(c, edRow) = FinishedWrite(edRow, FALSE)
    BY <1>2 DEF Undone
  <2>2. edRow \in Rows
    BY DEF EditTypeOK
  <2>3. /\ FinishedWrite(edRow, FALSE) \in Rows
        /\ FinishedWrite(edRow, FALSE).writing = 0
    BY <2>2, RowTypes, RowShares
  <2> QED BY <1>2, <2>1, <2>3
<1> QED BY <1>1, <1>2

\* A guard that is dropped leaves a caller that owes nothing its hook does not
\* see.
LEMMA DroppedSound ==
  ASSUME EditInv, NEW c \in EditCaller, Dropped(c),
         \/ edJob' = edJob
         \/ edJob[c] \in {"queued", "undo", "settle"} /\ edJob' = [edJob EXCEPT ![c] = "refused"]
  PROVE  EditInv'
<1> USE DEF EditInv
<1>1. /\ edSlot'[c] = EditAbandoned(edSlot[c]) /\ edPhase'[c] = "over"
      /\ \A d \in EditCaller \ {c} : edSlot'[d] = edSlot[d] /\ edPhase'[d] = edPhase[d]
                                     /\ edJob'[d] = edJob[d]
      /\ \/ edJob'[c] = edJob[c]
         \/ edJob'[c] = "refused" /\ edJob[c] \in {"queued", "undo", "settle"}
  <2>1. edSlot' = [edSlot EXCEPT ![c] = EditAbandoned(edSlot[c])] /\ edPhase' = [edPhase EXCEPT ![c] = "over"]
    BY DEF Dropped
  <2> QED BY <2>1 DEF EditTypeOK
<1>2. EditAbandoned(edSlot[c]) \in Slots
  BY SlotLeft DEF EditTypeOK
<1>3. edRow' \in Rows
  BY UndoneRow DEF Dropped, Owed, EditTypeOK
<1>4. EditTypeOK'
  <2>1. /\ edSlot' \in [EditCaller -> Slots]
        /\ edPhase' \in [EditCaller -> {"new", "reserving", "reserved", "rollback", "settling", "over"}]
    BY <1>2 DEF Dropped, EditTypeOK
  <2>2. edJob' \in [EditCaller -> {"none", "queued", "committed", "refused", "undo", "undone",
                                   "done", "settle", "settled"}]
    BY DEF EditTypeOK
  <2> QED BY <1>3, <2>1, <2>2 DEF EditTypeOK, Dropped, edSession
<1>5. CallerIsSound(c)'
  <2>1. edSlot[c] \in Slots
    BY DEF EditTypeOK
  <2> DEFINE s == edSlot[c]
  <2>2. /\ EditAbandoned(s).reserved = s.reserved /\ EditAbandoned(s).gone
        /\ EditAbandoned(s).settled <=> s.settled \/ s.reserved # {}
        /\ s \in {FreshSlot, GoneSlot} => EditAbandoned(s) = GoneSlot
    BY <2>1, SlotLeft
  <2> HIDE DEF s
  <2>3. /\ edSlot'[c].reserved = edSlot[c].reserved /\ edSlot'[c].gone
        /\ edSlot'[c].settled <=> edSlot[c].settled \/ edSlot[c].reserved # {}
        /\ edSlot[c] \in {FreshSlot, GoneSlot} => edSlot'[c] = GoneSlot
    BY <1>1, <2>2 DEF s
  <2>4. ~Open(c)'
    BY <2>3 DEF Open
  <2>5. edJob'[c] = "queued" => edSlot[c] \in {FreshSlot, GoneSlot}
    BY <1>1 DEF CallerIsSound, EditTypeOK
  <2>6. edJob'[c] = "committed" => edSlot'[c].reserved # {}
    BY <1>1, <2>3 DEF CallerIsSound, EditTypeOK, Open
  <2>7. edJob'[c] = "undo" => edSlot'[c].reserved # {}
    BY <1>1, <2>3 DEF CallerIsSound
  <2> QED BY <1>1, <2>3, <2>4, <2>5, <2>6, <2>7 DEF CallerIsSound
<1> QED BY <1>1, <1>4, <1>5, StillSound

\* At the start nothing is reserved and nobody is writing.
LEMMA InitEditInv == EditInit => EditInv /\ WritingIsCharged
BY DEF EditInit, EditInv, EditTypeOK, CallerIsSound, NoRow, FreshSlot, Rows, Slots, Open, WritingIsCharged

\* The handshake is kept by every step.
LEMMA NextEditInv == EditInv /\ [EditNext]_edVars => EditInv'
<1> SUFFICES ASSUME EditInv, [EditNext]_edVars PROVE EditInv'
  OBVIOUS
<1> USE DEF EditInv
<1>1. ASSUME NEW u \in EditUpdate, EditReserve(u) PROVE EditInv'
  <2>1. u \in EditCaller
    BY DEF EditCaller
  <2>2. EditTypeOK'
    BY <1>1, <2>1 DEF EditReserve, EditTypeOK
  <2>3. CallerIsSound(u)'
    BY <1>1, <2>1 DEF EditReserve, EditTypeOK, CallerIsSound
  <2> QED BY <1>1, <2>1, <2>2, <2>3, StillSound DEF EditReserve, EditTypeOK
<1>2. ASSUME NEW w \in EditWriter, EditBeginWrite(w) PROVE EditInv'
  <2>1. w \in EditCaller
    BY DEF EditCaller
  <2>2. EditTypeOK'
    BY <1>2, <2>1 DEF EditBeginWrite, EditTypeOK
  <2>3. CallerIsSound(w)'
    BY <1>2, <2>1 DEF EditBeginWrite, EditTypeOK, CallerIsSound
  <2> QED BY <1>2, <2>1, <2>2, <2>3, StillSound DEF EditBeginWrite, EditTypeOK
<1>3. ASSUME NEW c \in EditCaller, EditReserveJob(c) PROVE EditInv'
  <2>1. CASE edJob' = [edJob EXCEPT ![c] = "refused"] /\ UNCHANGED <<edRow, edSlot, edWroteRow>>
    <3>1. EditTypeOK'
      BY <1>3, <2>1 DEF EditReserveJob, EditTypeOK, edSession
    <3>2. CallerIsSound(c)'
      BY <1>3, <2>1 DEF EditReserveJob, EditTypeOK, CallerIsSound, Open, FreshSlot
    <3> QED BY <1>3, <2>1, <3>1, <3>2, StillSound DEF EditReserveJob, EditTypeOK
  <2>2. CASE /\ edRow' = IF c \in EditUpdate THEN ReservedEdit(edRow, edBytes[c])
                         ELSE BegunWrite(edRow, edBytes[c])
             /\ edSlot' = [edSlot EXCEPT ![c].reserved =
                             {[previous |-> edRow.pending, gen |-> edRow.gen + 1]}]
             /\ edJob' = [edJob EXCEPT ![c] = "committed"]
    <3>1. edRow' \in Rows
      BY <2>2, RowTypes DEF EditTypeOK
    <3>2. [previous |-> edRow.pending, gen |-> edRow.gen + 1] \in Reservations
      BY DEF EditTypeOK, Rows, Reservations
    <3>3. /\ edSlot' \in [EditCaller -> Slots]
          /\ edSlot'[c].reserved # {} /\ edSlot'[c].gone = edSlot[c].gone
          /\ edSlot'[c].settled = edSlot[c].settled
          /\ \A d \in EditCaller \ {c} : edSlot'[d] = edSlot[d]
      BY <2>2, <3>2 DEF EditTypeOK, Slots
    <3>4. EditTypeOK'
      BY <1>3, <2>2, <3>1, <3>3 DEF EditReserveJob, EditTypeOK, edSession
    <3>5. CallerIsSound(c)'
      BY <1>3, <2>2, <3>3 DEF EditReserveJob, EditTypeOK, CallerIsSound, Open, FreshSlot, GoneSlot
    <3> QED BY <1>3, <2>2, <3>3, <3>4, <3>5, StillSound DEF EditReserveJob, EditTypeOK
  <2> QED BY <1>3, <2>1, <2>2 DEF EditReserveJob
<1>4. ASSUME NEW c \in EditCaller, EditHook(c) PROVE EditInv'
  <2>1. EditTypeOK'
    <3>3. [edSlot[c] EXCEPT !.settled = TRUE] \in Slots
      BY DEF EditTypeOK, Slots
    <3>1. edSlot' \in [EditCaller -> Slots]
      BY <1>4, <3>3 DEF EditHook, EditTypeOK
    <3>2. edJob' \in [EditCaller -> {"none", "queued", "committed", "refused", "undo", "undone",
                                     "done", "settle", "settled"}]
      BY <1>4 DEF EditHook, EditTypeOK
    <3> QED BY <1>4, <3>1, <3>2 DEF EditHook, EditTypeOK, edSession
  <2>2. CallerIsSound(c)'
    BY <1>4 DEF EditHook, EditTypeOK, Slots, CallerIsSound, Open, HookOwes
  <2> QED BY <1>4, <2>1, <2>2, StillSound DEF EditHook, EditTypeOK
<1>5. ASSUME NEW c \in EditCaller, EditUndoJob(c) PROVE EditInv'
  <2>1. edRow' \in Rows
    BY <1>5, UndoneRow DEF EditUndoJob, CallerIsSound
  <2>2. EditTypeOK'
    BY <1>5, <2>1 DEF EditUndoJob, EditTypeOK, edSession
  <2>3. CallerIsSound(c)'
    BY <1>5 DEF EditUndoJob, EditTypeOK, CallerIsSound, Open
  <2> QED BY <1>5, <2>2, <2>3, StillSound DEF EditUndoJob, EditTypeOK
<1>6. ASSUME NEW c \in EditCaller, EditResume(c) PROVE EditInv'
  <2>1. EditTypeOK'
    BY <1>6 DEF EditResume, EditTypeOK, edSession
  <2>2. CallerIsSound(c)'
    BY <1>6 DEF EditResume, EditTypeOK, CallerIsSound, Open, FreshSlot
  <2> QED BY <1>6, <2>1, <2>2, StillSound DEF EditResume, EditTypeOK
<1>7. ASSUME NEW u \in EditUpdate, EditApply(u) \/ EditRolledBack(u) PROVE EditInv'
  <2>1. u \in EditCaller
    BY DEF EditCaller
  <2>4. EditKept(edSlot[u]) \in Slots /\ EditKept(edSlot[u]).settled
    BY <2>1, SlotLeft DEF EditTypeOK
  <2>2. EditTypeOK'
    BY <1>7, <2>1, <2>4 DEF EditApply, EditRolledBack, EditTypeOK, edSession
  <2>3. CallerIsSound(u)'
    BY <1>7, <2>1, <2>4 DEF EditApply, EditRolledBack, EditTypeOK, CallerIsSound, Open
  <2> QED BY <1>7, <2>1, <2>2, <2>3, StillSound DEF EditApply, EditRolledBack, EditTypeOK
<1>8. ASSUME NEW u \in EditUpdate, EditRollback(u) PROVE EditInv'
  <2>1. u \in EditCaller
    BY DEF EditCaller
  <2>2. EditTypeOK'
    BY <1>8, <2>1 DEF EditRollback, EditTypeOK, edSession
  <2>3. CallerIsSound(u)'
    BY <1>8, <2>1 DEF EditRollback, EditTypeOK, CallerIsSound, Open
  <2> QED BY <1>8, <2>1, <2>2, <2>3, StillSound DEF EditRollback, EditTypeOK
<1>9. ASSUME NEW w \in EditWriter, EditAppended(w) PROVE EditInv'
  <2>1. w \in EditCaller
    BY DEF EditCaller
  <2>2. EditTypeOK'
    BY <1>9, <2>1 DEF EditAppended, EditAbandoned, EditTypeOK, Slots
  <2>3. CallerIsSound(w)'
    BY <1>9, <2>1 DEF EditAppended, EditAbandoned, EditTypeOK, Slots, CallerIsSound, Open
  <2> QED BY <1>9, <2>1, <2>2, <2>3, StillSound DEF EditAppended, EditTypeOK
<1>10. ASSUME NEW w \in EditWriter, EditSettleJob(w) PROVE EditInv'
  <2>1. w \in EditCaller
    BY DEF EditCaller
  <2>2. EditTypeOK'
    BY <1>10, <2>1, RowTypes DEF EditSettleJob, EditTypeOK, edSession
  <2>3. CallerIsSound(w)'
    BY <1>10, <2>1 DEF EditSettleJob, EditTypeOK, CallerIsSound, Open
  <2> QED BY <1>10, <2>1, <2>2, <2>3, StillSound DEF EditSettleJob, EditTypeOK
<1>11. ASSUME NEW w \in EditWriter, EditWritten(w) PROVE EditInv'
  <2>1. w \in EditCaller
    BY DEF EditCaller
  <2>2. EditTypeOK'
    BY <1>11, <2>1 DEF EditWritten, EditTypeOK
  <2>3. CallerIsSound(w)'
    BY <1>11, <2>1 DEF EditWritten, EditTypeOK, CallerIsSound, Open
  <2> QED BY <1>11, <2>1, <2>2, <2>3, StillSound DEF EditWritten, EditTypeOK
<1>12. ASSUME NEW w \in EditWriter, EditWriteFails(w) PROVE EditInv'
  BY <1>12, DroppedSound DEF EditWriteFails, EditCaller
<1>13. ASSUME NEW c \in EditCaller, EditCancel(c) PROVE EditInv'
  BY <1>13, DroppedSound DEF EditCancel
<1>14. CASE EditElsewhere
  BY <1>14, StillSound DEF EditElsewhere, EditTypeOK
<1>15. CASE UNCHANGED edVars
  BY <1>15, StillSound DEF edVars, edSession, EditTypeOK
<1> QED BY <1>1, <1>2, <1>3, <1>4, <1>5, <1>6, <1>7, <1>8, <1>9, <1>10, <1>11, <1>12, <1>13, <1>14,
           <1>15 DEF EditNext

\* The writer's share stays charged, where no writer is dropped while its
\* settlement is under way.
LEMMA NextWritingIsCharged ==
  ASSUME "settling" \notin EditDrops
  PROVE  EditInv /\ WritingIsCharged /\ [EditNext]_edVars => WritingIsCharged'
<1> SUFFICES ASSUME EditInv, WritingIsCharged, [EditNext]_edVars PROVE WritingIsCharged'
  OBVIOUS
<1> USE DEF EditInv
\* A step after which the share is what it was, and everybody who owed its
\* settlement still does.
<1>a. ASSUME edRow'.writing = edRow.writing, \A w \in EditWriter : Charged(w) => Charged(w)'
      PROVE  WritingIsCharged'
  BY <1>a DEF WritingIsCharged
<1>b. ASSUME edRow'.writing = 0 PROVE WritingIsCharged'
  BY <1>b DEF WritingIsCharged
<1>1. ASSUME NEW u \in EditUpdate,
             EditReserve(u) \/ EditApply(u) \/ EditRollback(u) \/ EditRolledBack(u)
      PROVE  WritingIsCharged'
  <2>1. u \in EditCaller /\ u \notin EditWriter /\ EditWriter \subseteq EditCaller
    BY EditAssumption DEF EditCaller
  <2>2. \A w \in EditWriter : edSlot'[w] = edSlot[w] /\ edPhase'[w] = edPhase[w] /\ edJob'[w] = edJob[w]
    BY <1>1, <2>1 DEF EditReserve, EditApply, EditRollback, EditRolledBack, EditTypeOK
  <2>3. edRow' = edRow
    BY <1>1 DEF EditReserve, EditApply, EditRollback, EditRolledBack
  <2> QED BY <1>a, <2>2, <2>3 DEF Charged, Open
<1>2. ASSUME NEW w \in EditWriter, EditBeginWrite(w) \/ EditAppended(w) \/ EditWritten(w)
      PROVE  WritingIsCharged'
  <2>1. w \in EditCaller /\ EditWriter \subseteq EditCaller
    BY DEF EditCaller
  <2>2. \A v \in EditWriter \ {w} :
          edSlot'[v] = edSlot[v] /\ edPhase'[v] = edPhase[v] /\ edJob'[v] = edJob[v]
    BY <1>2, <2>1 DEF EditBeginWrite, EditAppended, EditWritten, EditTypeOK
  <2>3. edRow' = edRow
    BY <1>2 DEF EditBeginWrite, EditAppended, EditWritten
  <2>4. Charged(w) => Charged(w)'
    BY <1>2, <2>1 DEF EditBeginWrite, EditAppended, EditWritten, Charged, Open, CallerIsSound,
      EditTypeOK, FreshSlot
  <2> QED BY <1>a, <2>2, <2>3, <2>4 DEF Charged, Open
<1>3. ASSUME NEW w \in EditWriter, EditSettleJob(w) PROVE WritingIsCharged'
  BY <1>3, <1>b, RowShares DEF EditSettleJob, EditTypeOK
<1>4. ASSUME NEW c \in EditCaller, EditReserveJob(c) PROVE WritingIsCharged'
  <2>1. EditWriter \subseteq EditCaller
    BY DEF EditCaller
  <2>2. CASE edJob' = [edJob EXCEPT ![c] = "refused"] /\ UNCHANGED <<edRow, edSlot>>
    <3>1. \A w \in EditWriter : Charged(w) => Charged(w)'
      BY <1>4, <2>1, <2>2 DEF EditReserveJob, EditTypeOK, Charged, Open
    <3> QED BY <1>a, <2>2, <3>1
  <2>3. CASE /\ edRow' = IF c \in EditUpdate THEN ReservedEdit(edRow, edBytes[c])
                         ELSE BegunWrite(edRow, edBytes[c])
             /\ edSlot' = [edSlot EXCEPT ![c].reserved =
                             {[previous |-> edRow.pending, gen |-> edRow.gen + 1]}]
             /\ edJob' = [edJob EXCEPT ![c] = "committed"]
    <3>1. Open(c)'
      <4>1. edSlot[c] \in Slots /\ ~edSlot[c].settled
        BY <1>4 DEF EditReserveJob, EditTypeOK, CallerIsSound, FreshSlot, GoneSlot
      <4> DEFINE kept == {[previous |-> edRow.pending, gen |-> edRow.gen + 1]}
                 b == [edSlot[c] EXCEPT !.reserved = kept]
      <4>2. edSlot'[c] = b
        BY <2>3 DEF EditTypeOK
      <4>3. b.reserved = kept /\ b.settled = edSlot[c].settled /\ kept # {}
        BY <4>1 DEF Slots
      <4> HIDE DEF b, kept
      <4> QED BY <4>1, <4>2, <4>3 DEF Open
    <3>2. CASE c \in EditUpdate
      <4>1. edRow'.writing = edRow.writing
        BY <2>3, <3>2, RowShares DEF EditTypeOK
      <4>2. c \notin EditWriter
        BY <3>2, EditAssumption
      <4>3. \A w \in EditWriter : Charged(w) => Charged(w)'
        BY <1>4, <2>1, <2>3, <4>2 DEF EditReserveJob, EditTypeOK, Charged, Open
      <4> QED BY <1>a, <4>1, <4>3
    <3>3. CASE c \in EditWriter
      BY <3>1, <3>3 DEF WritingIsCharged, Charged
    <3> QED BY <3>2, <3>3 DEF EditCaller
  <2> QED BY <1>4, <2>2, <2>3 DEF EditReserveJob
<1>5. ASSUME NEW c \in EditCaller, EditHook(c) PROVE WritingIsCharged'
  <2>1. EditWriter \subseteq EditCaller
    BY DEF EditCaller
  <2>2. \A w \in EditWriter \ {c} :
          edSlot'[w] = edSlot[w] /\ edPhase'[w] = edPhase[w] /\ edJob'[w] = edJob[w]
    BY <1>5, <2>1 DEF EditHook, EditTypeOK
  <2>3. c \in EditWriter => (Charged(c) => Charged(c)')
    BY <1>5, <2>1 DEF EditHook, EditTypeOK, Charged, Open, CallerIsSound, HookOwes
  <2> QED BY <1>a, <1>5, <2>2, <2>3 DEF Charged, Open, EditHook
<1>6. ASSUME NEW c \in EditCaller, EditUndoJob(c) PROVE WritingIsCharged'
  <2>1. edRow'.writing = 0 \/ (c \in EditUpdate /\ edRow'.writing = edRow.writing)
    <3>1. edRow' = Undone(c, edRow) /\ edSlot[c].reserved # {}
      BY <1>6 DEF EditUndoJob, CallerIsSound
    <3>2. /\ c \in EditUpdate => Undone(c, edRow).writing \in {0, edRow.writing}
          /\ c \notin EditUpdate => Undone(c, edRow).writing = 0
      BY <3>1, UndoneRow
    <3> QED BY <3>1, <3>2
  <2>2. c \in EditUpdate => \A w \in EditWriter : Charged(w) => Charged(w)'
    BY <1>6, EditAssumption DEF EditUndoJob, EditTypeOK, Charged, Open, EditCaller
  <2> QED BY <1>a, <1>b, <2>1, <2>2
<1>7. ASSUME NEW c \in EditCaller, EditResume(c) PROVE WritingIsCharged'
  <2>1. \A w \in EditWriter : Charged(w) => Charged(w)'
    BY <1>7 DEF EditResume, EditTypeOK, Charged, Open, EditCaller
  <2> QED BY <1>a, <1>7, <2>1 DEF EditResume
<1>8. ASSUME NEW c \in EditCaller, Dropped(c), edPhase[c] # "settling",
             \A d \in EditCaller \ {c} : edJob'[d] = edJob[d],
             edJob'[c] = edJob[c] \/ edPhase[c] \notin {"new", "over"}
      PROVE  WritingIsCharged'
  <2>1. \A d \in EditCaller \ {c} : edSlot'[d] = edSlot[d] /\ edPhase'[d] = edPhase[d]
    BY <1>8 DEF Dropped, EditTypeOK
  <2>2. CASE Owed(c)
    <3>1. edRow' = Undone(c, edRow) /\ edSlot[c].reserved # {}
      BY <1>8, <2>2 DEF Dropped, Owed
    <3>2. edRow'.writing = 0 \/ (c \in EditUpdate /\ edRow'.writing = edRow.writing)
      <4>1. /\ c \in EditUpdate => Undone(c, edRow).writing \in {0, edRow.writing}
            /\ c \notin EditUpdate => Undone(c, edRow).writing = 0
        BY <3>1, UndoneRow
      <4> QED BY <3>1, <4>1
    <3>3. c \in EditUpdate => \A w \in EditWriter : Charged(w) => Charged(w)'
      BY <1>8, <2>1, EditAssumption DEF Charged, Open, EditCaller
    <3> QED BY <1>a, <1>b, <3>2, <3>3
  <2>3. CASE ~Owed(c)
    <3>1. edRow' = edRow
      BY <1>8, <2>3 DEF Dropped
    <3>2. c \in EditWriter => (Charged(c) => Charged(c)')
      <4>1. ~Open(c)
        BY <2>3 DEF Owed, Open
      <4>2. edJob[c] = "undo" => edJob'[c] = "undo"
        BY <1>8, <4>1 DEF CallerIsSound, EditTypeOK
      <4> QED BY <1>8, <4>1, <4>2 DEF Charged
    <3>3. \A w \in EditWriter : Charged(w) => Charged(w)'
      BY <1>8, <2>1, <3>2 DEF Charged, Open, EditCaller
    <3> QED BY <1>a, <3>1, <3>3
  <2> QED BY <2>2, <2>3
<1>9. ASSUME NEW w \in EditWriter, EditWriteFails(w) PROVE WritingIsCharged'
  BY <1>8, <1>9 DEF EditWriteFails, EditCaller
<1>10. ASSUME NEW c \in EditCaller, EditCancel(c) PROVE WritingIsCharged'
  <2>1. edPhase[c] \notin {"settling", "new", "over"}
    BY <1>10, EditAssumption DEF EditCancel
  <2>2. \A d \in EditCaller \ {c} : edJob'[d] = edJob[d]
    BY <1>10 DEF EditCancel, EditTypeOK
  <2> QED BY <1>8, <1>10, <2>1, <2>2 DEF EditCancel
<1>11. CASE EditElsewhere \/ UNCHANGED edVars
  BY <1>11, <1>a DEF EditElsewhere, edVars, edSession, Charged, Open
<1> QED BY <1>1, <1>2, <1>3, <1>4, <1>5, <1>6, <1>7, <1>9, <1>10, <1>11 DEF EditNext

\* Every reservation is settled by one side: however many callers are dropped,
\* in whichever phase, a reservation whose caller has left and whose hook has
\* run has been given back or taken on.
THEOREM ReservationsAreSettledOnce ==
  EditSpec => [](\A c \in EditCaller :
                   edPhase[c] = "over" /\ ~InFlight(c) /\ edSlot[c].reserved # {} =>
                     edSlot[c].settled)
<1>1. EditInv => \A c \in EditCaller :
        edPhase[c] = "over" /\ ~InFlight(c) /\ edSlot[c].reserved # {} => edSlot[c].settled
  BY DEF EditInv, CallerIsSound, InFlight, Open
<1> QED BY <1>1, InitEditInv, NextEditInv, PTL DEF EditSpec

\* And the writer's share of the row is held by a write in flight, where no
\* writer is dropped while it settles.
THEOREM ReservationsAreHeldByWrites ==
  ASSUME "settling" \notin EditDrops
  PROVE  EditSpec => []EditReservationsAreSettled
<1>1. EditInv /\ WritingIsCharged => EditReservationsAreSettled
  <2> SUFFICES ASSUME EditInv, WritingIsCharged PROVE EditReservationsAreSettled
    OBVIOUS
  <2>1. \A c \in EditCaller :
          edPhase[c] = "over" /\ ~InFlight(c) /\ edSlot[c].reserved # {} => edSlot[c].settled
    BY DEF EditInv, CallerIsSound, InFlight, Open
  <2>2. ASSUME NEW w \in EditWriter, Charged(w) PROVE InFlight(w)
    <3>1. CallerIsSound(w) /\ edPhase[w] \in {"new", "reserving", "reserved", "rollback", "settling", "over"}
      BY DEF EditInv, EditTypeOK, EditCaller
    <3> QED BY <2>2, <3>1 DEF Charged, CallerIsSound, InFlight, Open, FreshSlot
  <2> QED BY <2>1, <2>2 DEF WritingIsCharged, EditReservationsAreSettled
<1> QED BY <1>1, InitEditInv, NextEditInv, NextWritingIsCharged, PTL DEF EditSpec

---------------------------------------------------------------------------
(***************************************************************************)
(* The erasure of an account goes forward only, for any stages, keys,      *)
(* batches and passes that interleave and die: whatever lies behind a pass *)
(* or behind the durable progress is gone and does not come back.          *)
(***************************************************************************)

\* A checkpoint asked for before an erasure is written before it is over, and an
\* account does not sign in again while a pass of its erasure is still at work.
ErInOrder == ErFaults = {}

Places == [at : {"batch", "next", "finish"}, stage : ErStage, cursor : Nat]
ErTypes ==
  /\ erAccount \in [status : {"none", "active", "erasing"}, generation : Nat]
  /\ erRefs \in [ErStage -> SUBSET ErKey]
  /\ erOwned \in [status : {"absent", "creating", "active", "deleting"}, prepared : BOOLEAN]
  /\ erProgress \in {NoBatch} \cup [stage : ErStage, cursor : Nat]
  /\ erPass \in [ErPasses -> {Off} \cup Places]
  /\ erJobs \subseteq [kind : Writes, key : ErKey, generation : Nat]
  /\ erUsed \in [asks : Nat, lives : Nat, crashes : Nat]

\* Nothing names the account at or before a place in the order of stages and keys.
Behind(stage, cursor) ==
  \A s \in ErStage : \A k \in erRefs[s] : s > stage \/ (s = stage /\ k > cursor)

\* What the account's status says of its document and of the progress.
StatusIsSound ==
  /\ erOwned.prepared => erOwned.status = "creating"
  /\ ~Erasing => erProgress = NoBatch
  /\ Erasing => erOwned.status \in {"absent", "deleting"}
  /\ erAccount.status = "none" => Named = {} /\ erOwned = Absent
  /\ Erasing => Behind(erProgress.stage, erProgress.cursor)

\* A pass is at work only on an account that cannot be written to, and has left
\* nothing behind it.
PassIsSound(p) ==
  erPass[p] # Off =>
    /\ ~Active
    /\ erPass[p].at = "batch" => Behind(erPass[p].stage, erPass[p].cursor)
    /\ erPass[p].at = "next" => erPass[p].stage < Len(ErStages) /\ Behind(erPass[p].stage + 1, 0)
PassesAreSound == \A p \in ErPasses : PassIsSound(p)

\* The inductive invariant.
ErInv == ErTypes /\ StatusIsSound /\ PassesAreSound

---------------------------------------------------------------------------
(* Numbers.                                                                *)

\* A set of numbers has a least.
LEMMA Least ==
  ASSUME NEW T, T \subseteq Nat, T # {}
  PROVE  \E k \in T : \A i \in T : k <= i
<1>1. PICK R : R = OpToRel(<, Nat)
  OBVIOUS
<1>2. PICK k \in T : \A i \in T : ~ (<<i, k>> \in R)
  BY <1>1, NatLessThanWellFounded, WFMin
<1>3. ASSUME NEW i \in T, i < k PROVE FALSE
  <2>1. <<i, k>> \in Nat \X Nat /\ i < k
    BY <1>3
  <2>2. <<i, k>> \in R
    BY <1>1, <2>1 DEF OpToRel
  <2>. QED  BY <1>2, <2>2
<1>4. \A i \in T : i \in Nat /\ k \in Nat
  OBVIOUS
<1>. QED  BY <1>3, <1>4

\* And a greatest, when it is bounded.
LEMMA Greatest ==
  ASSUME NEW n \in Nat, NEW T, T \subseteq 1 .. n, T # {}
  PROVE  \E k \in T : \A i \in T : i <= k
<1>1. PICK U : U = {n - i : i \in T}
  OBVIOUS
<1>2. U \subseteq Nat /\ U # {}
  <2>1. \A i \in T : n - i \in Nat
    OBVIOUS
  <2>2. PICK i : i \in T
    OBVIOUS
  <2>3. n - i \in U
    BY <1>1, <2>2
  <2>. QED  BY <1>1, <2>1, <2>3
<1>3. PICK u \in U : \A v \in U : u <= v
  BY <1>2, Least
<1>4. PICK k \in T : u = n - k
  BY <1>1
<1>5. \A i \in T : n - k <= n - i
  BY <1>1, <1>3, <1>4
<1>6. \A i \in T : i \in Int /\ k \in Int
  OBVIOUS
<1>. QED  BY <1>5, <1>6

\* So LastOf is what its name says.
LEMMA LastIsLast ==
  ASSUME NEW keys, keys \subseteq ErKey
  PROVE  /\ LastOf(keys) \in Nat
         /\ keys # {} => LastOf(keys) \in keys /\ \A i \in keys : i <= LastOf(keys)
<1>1. CASE keys = {}
  BY <1>1 DEF LastOf
<1>2. CASE keys # {}
  <2>1. \E k \in keys : \A i \in keys : i <= k
    BY <1>2, Greatest, ErAssumption DEF ErKey
  <2>2. LastOf(keys) \in keys /\ \A i \in keys : i <= LastOf(keys)
    BY <1>2, <2>1 DEF LastOf
  <2>3. LastOf(keys) \in ErKey
    BY <2>2
  <2>. QED  BY <2>2, <2>3, ErAssumption DEF ErKey
<1>. QED  BY <1>1, <1>2

---------------------------------------------------------------------------
(* A batch.                                                                *)

\* A batch takes the due keys up to its last, and takes none only if none is due.
LEMMA BatchTakes ==
  ASSUME ErTypes, NEW p \in ErPasses, erPass[p] \in Places
  PROVE  /\ Taken(p) \subseteq DueKeys(p) /\ DueKeys(p) \subseteq ErKey
         /\ \A k \in DueKeys(p), l \in Taken(p) : k <= l => k \in Taken(p)
         /\ Taken(p) = {} => DueKeys(p) = {}
<1>1. Taken(p) \subseteq DueKeys(p)
  BY DEF Taken
<1>2. PICK D : D = DueKeys(p)
  OBVIOUS
<1>3. D \subseteq ErKey /\ erPass[p].stage \in ErStage
  BY <1>2 DEF DueKeys, ErTypes, Places
<1>4. D \subseteq 1 .. ErKeys /\ ErKeys \in Nat /\ ErBatch \in Nat \ {0}
  BY <1>3, ErAssumption DEF ErKey
<1>5. \A k : IsFiniteSet({i \in D : i <= k})
  <2>1. IsFiniteSet(1 .. ErKeys)
    BY <1>4, FS_Interval
  <2>. QED  BY <1>4, <2>1, FS_Subset
<1>6. \A k, l \in D : k <= l => Cardinality({i \in D : i <= k}) <= Cardinality({i \in D : i <= l})
  <2>1. SUFFICES ASSUME NEW k \in D, NEW l \in D, k <= l
                 PROVE  Cardinality({i \in D : i <= k}) <= Cardinality({i \in D : i <= l})
    OBVIOUS
  <2>2. PICK A : A = {i \in D : i <= k}
    OBVIOUS
  <2>3. PICK B : B = {i \in D : i <= l}
    OBVIOUS
  <2>4. \A i \in D : i \in Nat
    BY <1>4
  <2>5. A \subseteq B
    BY <2>1, <2>2, <2>3, <2>4
  <2>6. IsFiniteSet(B)
    BY <1>5, <2>3
  <2>7. Cardinality(A) <= Cardinality(B)
    BY <2>5, <2>6, FS_Subset
  <2>. QED  BY <2>2, <2>3, <2>7
<1>7. \A k \in D : Cardinality({i \in D : i <= k}) \in Nat
  BY <1>5, FS_CardinalityType
<1>8. Taken(p) = {k \in D : Cardinality({i \in D : i <= k}) <= ErBatch}
  BY <1>2 DEF Taken
<1>9. ASSUME NEW k \in D, NEW l \in Taken(p), k <= l PROVE k \in Taken(p)
  <2>1. PICK a \in Nat : a = Cardinality({i \in D : i <= k})
    BY <1>7
  <2>2. l \in D
    BY <1>8
  <2>3. PICK b \in Nat : b = Cardinality({i \in D : i <= l})
    BY <1>7, <2>2
  <2>4. a <= b
    BY <1>6, <1>9, <2>1, <2>2, <2>3
  <2>5. b <= ErBatch
    BY <1>8, <2>3
  <2>6. a <= ErBatch
    BY <1>4, <2>4, <2>5
  <2>. QED  BY <1>8, <2>1, <2>6
<1>10. ASSUME D # {} PROVE Taken(p) # {}
  <2>1. D \subseteq Nat
    BY <1>4
  <2>2. PICK k \in D : \A i \in D : k <= i
    BY <1>10, <2>1, Least
  <2>3. {i \in D : i <= k} = {k}
    <3>1. \A i \in D : i \in Nat
      BY <2>1
    <3>2. \A i \in D : i <= k <=> i = k
      BY <2>2, <3>1
    <3>. QED  BY <3>2
  <2>4. Cardinality({i \in D : i <= k}) = 1
    BY <2>3, FS_Singleton
  <2>. QED  BY <1>4, <1>8, <2>4
<1>. QED  BY <1>1, <1>2, <1>3, <1>9, <1>10

---------------------------------------------------------------------------
(* The steps.                                                              *)

\* Where rows only go, nothing comes back behind a place.
LEMMA RowsGo ==
  ASSUME \A s \in ErStage : erRefs'[s] \subseteq erRefs[s], NEW stage, NEW cursor, Behind(stage, cursor)
  PROVE  Behind(stage, cursor)'
BY DEF Behind

\* The document, the jobs and the counters change; who is named does not.
LEMMA QuietKeeps ==
  ASSUME ErInv,
         \/ \E kind \in Writes, k \in ErKey : Ask(kind, k)
         \/ \E j \in erJobs : CreateDocument(j)
         \/ CommitDocument \/ FinishDelete \/ UNCHANGED erVars
  PROVE  ErInv'
<1>0. ErTypes /\ StatusIsSound /\ PassesAreSound
  BY DEF ErInv
<1>1. UNCHANGED <<erAccount, erRefs, erProgress, erPass>>
  BY DEF Ask, CreateDocument, CommitDocument, FinishDelete, erVars
<1>2. ErTypes'
  <2>1. ASSUME NEW kind \in Writes, NEW k \in ErKey, Ask(kind, k) PROVE ErTypes'
    <3>1. erAccount.generation \in Nat
      BY <1>0 DEF ErTypes
    <3>2. [kind |-> kind, key |-> k, generation |-> erAccount.generation] \in
            [kind : Writes, key : ErKey, generation : Nat]
      BY <2>1, <3>1
    <3>3. erJobs' \subseteq [kind : Writes, key : ErKey, generation : Nat]
      BY <1>0, <2>1, <3>2 DEF ErTypes, Ask
    <3>4. erUsed' \in [asks : Nat, lives : Nat, crashes : Nat]
      BY <1>0, <2>1 DEF ErTypes, Ask
    <3>. QED  BY <1>0, <1>1, <2>1, <3>3, <3>4 DEF ErTypes, Ask
  <2>2. ASSUME NEW j \in erJobs, CreateDocument(j) PROVE ErTypes'
    BY <1>0, <1>1, <2>2 DEF ErTypes, CreateDocument
  <2>3. CASE CommitDocument \/ FinishDelete
    <3>1. erOwned' \in [status : {"absent", "creating", "active", "deleting"}, prepared : BOOLEAN]
      <4>1. PICK status \in {"active", "absent"} : erOwned' = [status |-> status, prepared |-> FALSE]
        BY <2>3 DEF CommitDocument, FinishDelete, Absent
      <4>2. status \in {"absent", "creating", "active", "deleting"} /\ FALSE \in BOOLEAN
        OBVIOUS
      <4>. QED  BY <4>1, <4>2, Zenon
    <3>. QED  BY <1>0, <1>1, <2>3, <3>1 DEF ErTypes, CommitDocument, FinishDelete
  <2>4. CASE UNCHANGED erVars
    BY <1>0, <1>1, <2>4 DEF ErTypes, erVars
  <2>. QED  BY <2>1, <2>2, <2>3, <2>4
<1>3. StatusIsSound'
  <2>1. Behind(erProgress.stage, erProgress.cursor)' <=> Behind(erProgress.stage, erProgress.cursor)
    BY <1>1 DEF Behind
  <2>2. /\ erOwned'.prepared => erOwned'.status = "creating"
        /\ Erasing => erOwned'.status \in {"absent", "deleting"}
        /\ erAccount.status = "none" => erOwned' = Absent
    BY <1>0 DEF ErTypes, StatusIsSound, Ask, CreateDocument, CommitDocument, FinishDelete, erVars,
       Absent, Active, Erasing
  <2>. QED  BY <1>0, <1>1, <2>1, <2>2 DEF StatusIsSound, Erasing, Named
<1>4. PassesAreSound'
  BY <1>0, <1>1 DEF PassesAreSound, PassIsSound, Active, Behind
<1>. QED  BY <1>2, <1>3, <1>4 DEF ErInv

\* A write that lands on an account that cannot be written to names nobody.
LEMMA InsertKeeps ==
  ASSUME ErInOrder, ErInv, NEW j \in erJobs, NEW s \in ErStage, Insert(s, j)
  PROVE  ErInv'
<1>0. ErTypes /\ StatusIsSound /\ PassesAreSound
  BY DEF ErInv
<1>1. UNCHANGED <<erAccount, erOwned, erProgress, erPass, erUsed>> /\ erJobs' = erJobs \ {j}
  BY DEF Insert
<1>2. j.kind \in Writes /\ j.key \in ErKey
  BY <1>0 DEF ErTypes
<1>3. ErTypes'
  BY <1>0, <1>1, <1>2 DEF ErTypes, Insert
<1>4. CASE Active
  BY <1>0, <1>1, <1>3, <1>4 DEF ErInv, StatusIsSound, PassesAreSound, PassIsSound, Active, Erasing
<1>5. CASE ~Active
  <2>1. erAccount.status \in {"none", "erasing"}
    BY <1>0, <1>5 DEF ErTypes, Active
  <2>2. j.kind \in {"grants", "guests", "comments", "replies", "checkpoints"} \/ ~(j.kind = ErStages[s])
    BY <1>2, ErAssumption DEF Writes, ErStage
  <2>3. ~Allowed(j)
    BY <1>5, <2>1, <2>2 DEF Insert, Allowed, Active, Erasing, ErInOrder
  <2>4. erRefs' = erRefs
    BY <2>3 DEF Insert
  <2>. QED  BY <1>0, <1>1, <1>3, <2>4
            DEF ErInv, StatusIsSound, PassesAreSound, PassIsSound, Behind, Active, Erasing, Named
<1>. QED  BY <1>4, <1>5

\* While an account is active no pass is at work on it, and its progress is none.
LEMMA AccountKeeps ==
  ASSUME ErInOrder, ErInv, SignIn \/ Revoke \/ BeginErasure
  PROVE  ErInv'
<1>0. ErTypes /\ StatusIsSound /\ PassesAreSound
  BY DEF ErInv
<1>1. UNCHANGED <<erRefs, erProgress, erPass, erJobs>>
  BY DEF SignIn, Revoke, BeginErasure
<1>2. \A p \in ErPasses : erPass[p] = Off
  BY <1>0 DEF SignIn, Revoke, BeginErasure, ErInOrder, PassesAreSound, PassIsSound
<1>3. erProgress = NoBatch
  BY <1>0 DEF SignIn, Revoke, BeginErasure, StatusIsSound, Active, Erasing
<1>4. Behind(0, 0)
  <2>1. \A s \in ErStage : s > 0
    BY ErAssumption DEF ErStage
  <2>. QED  BY <2>1 DEF Behind
<1>5. erAccount' \in [status : {"active", "erasing"}, generation : Nat] /\ erUsed' \in [asks : Nat, lives : Nat, crashes : Nat]
  BY <1>0 DEF ErTypes, SignIn, Revoke, BeginErasure, NextLife
<1>6. CASE SignIn \/ Revoke
  <2>1. erAccount'.status = "active" /\ erOwned' = erOwned
    BY <1>6 DEF SignIn, Revoke, NextLife
  <2>2. ErTypes'
    BY <1>0, <1>1, <1>5, <2>1 DEF ErTypes
  <2>3. StatusIsSound'
    BY <1>0, <1>1, <1>3, <2>1 DEF StatusIsSound, Erasing
  <2>4. PassesAreSound'
    BY <1>1, <1>2 DEF PassesAreSound, PassIsSound
  <2>. QED  BY <2>2, <2>3, <2>4 DEF ErInv
<1>7. CASE BeginErasure
  <2>1. /\ erAccount'.status = "erasing" /\ erOwned'.status \in {"absent", "deleting"} /\ ~erOwned'.prepared
        /\ erOwned' \in [status : {"absent", "creating", "active", "deleting"}, prepared : BOOLEAN]
    BY <1>0, <1>7 DEF BeginErasure, ErTypes, StatusIsSound
  <2>2. ErTypes'
    BY <1>0, <1>1, <1>5, <2>1 DEF ErTypes
  <2>3. Behind(0, 0)'
    BY <1>1, <1>4 DEF Behind
  <2>4. StatusIsSound'
    BY <1>1, <1>3, <2>1, <2>3 DEF StatusIsSound, Erasing, NoBatch
  <2>5. PassesAreSound'
    BY <1>1, <1>2 DEF PassesAreSound, PassIsSound
  <2>. QED  BY <2>2, <2>4, <2>5 DEF ErInv
<1>. QED  BY <1>6, <1>7

\* A process that dies leaves no pass and no job.
LEMMA CrashKeeps ==
  ASSUME ErInv, ErCrash
  PROVE  ErInv'
<1>0. ErTypes /\ StatusIsSound
  BY DEF ErInv
<1>1. /\ \A p \in ErPasses : erPass'[p] = Off
      /\ erPass' \in [ErPasses -> {Off} \cup Places] /\ erJobs' = {}
      /\ erUsed' \in [asks : Nat, lives : Nat, crashes : Nat]
      /\ UNCHANGED <<erAccount, erRefs, erOwned, erProgress>>
  BY <1>0 DEF ErCrash, ErTypes
<1>2. ErTypes'
  BY <1>0, <1>1 DEF ErTypes
<1>3. StatusIsSound'
  BY <1>0, <1>1 DEF StatusIsSound, Erasing, Behind, Named
<1>4. PassesAreSound'
  BY <1>1 DEF PassesAreSound, PassIsSound
<1>. QED  BY <1>2, <1>3, <1>4 DEF ErInv

\* A pass is at a place, or off.
LEMMA PassTyped ==
  ASSUME ErTypes, NEW p \in ErPasses
  PROVE  /\ erPass[p] # Off => erPass[p] \in Places
         /\ erPass[p].at = "off" <=> erPass[p] = Off
BY DEF ErTypes, Off, Places

\* A pass goes to a place with nothing behind it, or stops.
Steps(p, at, stage, cursor) ==
  /\ erPass' = [erPass EXCEPT ![p] = [at |-> at, stage |-> stage, cursor |-> cursor]]
  /\ at \in {"batch", "next", "finish"} /\ stage \in ErStage /\ cursor \in Nat
  /\ at = "batch" => Behind(stage, cursor)'
  /\ at = "next" => stage < Len(ErStages) /\ Behind(stage + 1, 0)'
Stops(p) == erPass' = [erPass EXCEPT ![p] = Off]

\* What a pass does keeps the invariant if the place it goes to has nothing
\* behind it and so has the progress it writes.
LEMMA PassKeeps ==
  ASSUME ErInv, NEW p \in ErPasses,
         Stops(p) \/ (~Active /\ \E at, stage, cursor : Steps(p, at, stage, cursor)),
         erRefs' \in [ErStage -> SUBSET ErKey], \A s \in ErStage : erRefs'[s] \subseteq erRefs[s],
         UNCHANGED <<erAccount, erOwned, erJobs, erUsed>>,
         erProgress' = erProgress
           \/ (/\ Erasing /\ erProgress' \in [stage : ErStage, cursor : Nat]
               /\ Behind(erProgress.stage, erProgress.cursor)')
  PROVE  ErInv'
<1>0. ErTypes /\ StatusIsSound /\ PassesAreSound
  BY DEF ErInv
<1>1. erPass' \in [ErPasses -> {Off} \cup Places]
  <2>1. CASE Stops(p)
    BY <1>0, <2>1 DEF Stops, ErTypes
  <2>2. ASSUME NEW at, NEW stage, NEW cursor, Steps(p, at, stage, cursor)
        PROVE  erPass' \in [ErPasses -> {Off} \cup Places]
    <3>1. [at |-> at, stage |-> stage, cursor |-> cursor] \in Places
      BY <2>2 DEF Steps, Places
    <3>. QED  BY <1>0, <2>2, <3>1 DEF Steps, ErTypes
  <2>. QED  BY <2>1, <2>2
<1>2. ErTypes'
  BY <1>0, <1>1 DEF ErTypes
<1>3. StatusIsSound'
  <2>1. Named' \subseteq Named
    BY DEF Named
  <2>2. Behind(erProgress.stage, erProgress.cursor) /\ erProgress' = erProgress
          => Behind(erProgress.stage, erProgress.cursor)'
    BY DEF Behind
  <2>. QED  BY <1>0, <2>1, <2>2 DEF StatusIsSound, Erasing
<1>4. PassesAreSound'
  <2>1. SUFFICES ASSUME NEW q \in ErPasses PROVE PassIsSound(q)'
    BY DEF PassesAreSound
  <2>2. CASE q # p
    <3>1. erPass'[q] = erPass[q] /\ PassIsSound(q)
      BY <1>0, <2>2 DEF Steps, Stops, ErTypes, PassesAreSound
    <3>. QED  BY <3>1 DEF PassIsSound, Active, Behind
  <2>3. CASE q = p /\ Stops(p)
    BY <1>0, <2>3 DEF Stops, ErTypes, PassIsSound
  <2>4. ASSUME NEW at, NEW stage, NEW cursor, Steps(p, at, stage, cursor), q = p, ~Active
        PROVE  PassIsSound(q)'
    <3>1. erPass'[q] = [at |-> at, stage |-> stage, cursor |-> cursor]
      BY <1>0, <2>4 DEF Steps, ErTypes
    <3>2. (stage + 1)' = stage + 1
      OBVIOUS
    <3>. QED  BY <2>4, <3>1 DEF Steps, PassIsSound, Active, Behind
  <2>. QED  BY <2>2, <2>3, <2>4
<1>. QED  BY <1>2, <1>3, <1>4 DEF ErInv

\* A pass starts where the progress is.
LEMMA StartKeeps ==
  ASSUME ErInv, NEW p \in ErPasses, StartPass(p)
  PROVE  ErInv'
<1>0. ErTypes /\ StatusIsSound /\ PassesAreSound
  BY DEF ErInv
<1>1. UNCHANGED <<erAccount, erRefs, erOwned, erProgress, erJobs, erUsed>> /\ Erasing /\ ~Active
  BY DEF StartPass, Erasing, Active
<1>2. 1 \in ErStage /\ ErStage = 1 .. Len(ErStages) /\ Len(ErStages) \in Nat
  BY ErAssumption DEF ErStage
<1>3. Behind(erProgress.stage, erProgress.cursor)
  BY <1>0, <1>1 DEF StatusIsSound
<1>4. \E at, stage, cursor : Steps(p, at, stage, cursor)
  <2>1. CASE erProgress = NoBatch
    <3>1. Behind(1, 0)
      <4>1. \A s \in ErStage : s = 1 \/ s > 1
        BY <1>2
      <4>2. \A s \in ErStage : \A k \in erRefs[s] : k > 0
        BY <1>0, ErAssumption DEF ErTypes, ErKey
      <4>. QED  BY <4>1, <4>2 DEF Behind
    <3>2. Behind(1, 0)'
      BY <1>1, <3>1 DEF Behind
    <3>3. erPass' = [erPass EXCEPT ![p] = [at |-> "batch", stage |-> 1, cursor |-> 0]]
      BY <2>1 DEF StartPass, Set
    <3>4. Steps(p, "batch", 1, 0)
      BY <1>2, <3>2, <3>3 DEF Steps
    <3>. QED  BY <3>4
  <2>2. CASE erProgress # NoBatch
    <3>1. PICK stage \in ErStage, cursor \in Nat : stage = erProgress.stage /\ cursor = erProgress.cursor
      BY <1>0, <2>2 DEF ErTypes
    <3>2. Behind(stage, cursor)'
      BY <1>1, <1>3, <3>1 DEF Behind
    <3>3. erPass' = [erPass EXCEPT ![p] = [at |-> "batch", stage |-> stage, cursor |-> cursor]]
      BY <2>2, <3>1 DEF StartPass, Set
    <3>4. Steps(p, "batch", stage, cursor)
      BY <3>2, <3>3 DEF Steps
    <3>. QED  BY <3>4
  <2>. QED  BY <2>1, <2>2
<1>5. erRefs' \in [ErStage -> SUBSET ErKey] /\ \A s \in ErStage : erRefs'[s] \subseteq erRefs[s]
  BY <1>0, <1>1 DEF ErTypes
<1>. QED  BY <1>1, <1>4, <1>5, PassKeeps

\* A batch leaves nothing up to its last key, and nothing of the stage if it
\* found nothing.
LEMMA BatchKeeps ==
  ASSUME ErInv, NEW p \in ErPasses, EraseBatch(p)
  PROVE  ErInv'
<1>0. ErTypes /\ StatusIsSound /\ PassesAreSound
  BY DEF ErInv
<1>1. UNCHANGED <<erAccount, erOwned, erJobs, erUsed>>
  BY DEF EraseBatch
<1>2. erPass[p] \in Places /\ erPass[p] # Off /\ ~Active /\ Behind(erPass[p].stage, erPass[p].cursor)
  BY <1>0, PassTyped DEF EraseBatch, Off, PassesAreSound, PassIsSound
<1>3. PICK stage \in ErStage, cursor \in Nat : erPass[p].stage = stage /\ erPass[p].cursor = cursor
  BY <1>2 DEF Places
<1>4. PICK T : T = Taken(p)
  OBVIOUS
<1>5. PICK D : D = DueKeys(p)
  OBVIOUS
<1>6. /\ T \subseteq D /\ D \subseteq ErKey /\ (T = {} => D = {})
      /\ \A k \in D, l \in T : k <= l => k \in T
  BY <1>0, <1>2, <1>4, <1>5, BatchTakes
<1>7. D = {k \in erRefs[stage] : k > cursor}
  BY <1>3, <1>5 DEF DueKeys
<1>8. PICK last \in Nat : last = LastOf(T) /\ (T # {} => last \in T /\ \A i \in T : i <= last)
  BY <1>6, LastIsLast
<1>9. CASE ~Erasing
  <2>1. Stops(p) /\ UNCHANGED <<erRefs, erProgress>>
    BY <1>9 DEF EraseBatch, Stops
  <2>. QED  BY <1>0, <1>1, <2>1, PassKeeps DEF ErTypes
<1>10. CASE Erasing
  <2>1. /\ erRefs' = [erRefs EXCEPT ![stage] = @ \ T]
        /\ erProgress' = [stage |-> stage, cursor |-> last]
    BY <1>3, <1>4, <1>8, <1>10 DEF EraseBatch
  <2>2. /\ erRefs' \in [ErStage -> SUBSET ErKey] /\ erRefs'[stage] = erRefs[stage] \ T
        /\ \A s \in ErStage : erRefs'[s] \subseteq erRefs[s]
    BY <1>0, <2>1 DEF ErTypes
  <2>3. ErStage = 1 .. Len(ErStages) /\ Len(ErStages) \in Nat /\ \A s \in ErStage : \A k \in erRefs[s] : k \in Nat /\ k > 0
    BY <1>0, ErAssumption DEF ErTypes, ErKey, ErStage
  <2>4. \A s \in ErStage : \A k \in erRefs[s] : s > stage \/ (s = stage /\ k > cursor)
    BY <1>2, <1>3 DEF Behind
  <2>5. \A k \in erRefs'[stage] : k > last
    <3>1. SUFFICES ASSUME NEW k \in erRefs'[stage] PROVE k > last
      OBVIOUS
    <3>2. k \in D /\ k \notin T /\ k \in Nat
      BY <1>7, <2>2, <2>3, <2>4
    <3>3. T # {}
      BY <1>6, <3>2
    <3>4. ~(k <= last)
      BY <1>6, <1>8, <3>2, <3>3
    <3>. QED  BY <3>2, <3>4
  <2>6. Behind(stage, last)'
    <3>1. SUFFICES ASSUME NEW s \in ErStage, NEW k \in erRefs'[s] PROVE s > stage \/ (s = stage /\ k > last)
      BY DEF Behind
    <3>. QED  BY <2>2, <2>4, <2>5, <3>1
  <2>7. Behind(erProgress.stage, erProgress.cursor)'
    BY <2>1, <2>6 DEF Behind
  <2>8. CASE T # {}
    <3>1. Stops(p)
      BY <1>3, <1>4, <1>10, <2>8 DEF EraseBatch, Stops
    <3>. QED  BY <1>1, <1>10, <2>1, <2>2, <2>7, <3>1, PassKeeps
  <2>9. CASE T = {} /\ stage < Len(ErStages)
    <3>1. erPass' = [erPass EXCEPT ![p] = [at |-> "next", stage |-> stage, cursor |-> cursor]]
      BY <1>3, <1>4, <1>10, <2>9 DEF EraseBatch, Set
    <3>2. \A k \in erRefs[stage] : FALSE
      <4>1. \A k \in erRefs[stage] : k > cursor
        BY <2>3, <2>4
      <4>. QED  BY <1>6, <1>7, <2>9, <4>1
    <3>3. Behind(stage + 1, 0)'
      <4>1. SUFFICES ASSUME NEW s \in ErStage, NEW k \in erRefs'[s] PROVE s > stage + 1 \/ (s = stage + 1 /\ k > 0)
        BY DEF Behind
      <4>2. k \in erRefs[s] /\ s > stage /\ k > 0
        BY <2>2, <2>3, <2>4, <3>2
      <4>. QED  BY <2>3, <4>2
    <3>4. Steps(p, "next", stage, cursor)
      BY <2>9, <3>1, <3>3 DEF Steps
    <3>. QED  BY <1>1, <1>2, <1>10, <2>1, <2>2, <2>7, <3>4, PassKeeps
  <2>10. CASE T = {} /\ ~(stage < Len(ErStages))
    <3>1. Steps(p, "finish", stage, 0)
      BY <1>3, <1>4, <1>10, <2>10 DEF EraseBatch, Set, Steps
    <3>. QED  BY <1>1, <1>2, <1>10, <2>1, <2>2, <2>7, <3>1, PassKeeps
  <2>. QED  BY <2>8, <2>9, <2>10
<1>. QED  BY <1>9, <1>10

\* The next stage begins at its first key.
LEMMA NextKeeps ==
  ASSUME ErInv, NEW p \in ErPasses, NextStage(p)
  PROVE  ErInv'
<1>0. ErTypes /\ StatusIsSound /\ PassesAreSound
  BY DEF ErInv
<1>1. UNCHANGED <<erAccount, erRefs, erOwned, erJobs, erUsed>>
  BY DEF NextStage
<1>2. /\ erPass[p] \in Places /\ ~Active
      /\ erPass[p].stage < Len(ErStages) /\ Behind(erPass[p].stage + 1, 0)
  BY <1>0, PassTyped DEF NextStage, Off, PassesAreSound, PassIsSound
<1>3. PICK stage \in ErStage : erPass[p].stage = stage
  BY <1>2 DEF Places
<1>4. PICK n : n = stage + 1
  OBVIOUS
<1>5. n \in ErStage
  BY <1>2, <1>3, <1>4, ErAssumption DEF ErStage
<1>6. Behind(n, 0)'
  BY <1>1, <1>2, <1>3, <1>4 DEF Behind
<1>7. erRefs' \in [ErStage -> SUBSET ErKey] /\ \A s \in ErStage : erRefs'[s] \subseteq erRefs[s]
  BY <1>0, <1>1 DEF ErTypes
<1>8. CASE Erasing
  <2>1. erProgress' = [stage |-> n, cursor |-> 0] /\ Steps(p, "batch", n, 0)
    BY <1>3, <1>4, <1>5, <1>6, <1>8 DEF NextStage, Set, Steps
  <2>2. Behind(erProgress.stage, erProgress.cursor)' /\ erProgress' \in [stage : ErStage, cursor : Nat]
    BY <1>5, <1>6, <2>1 DEF Behind
  <2>. QED  BY <1>1, <1>2, <1>7, <1>8, <2>1, <2>2, PassKeeps
<1>9. CASE ~Erasing
  BY <1>1, <1>7, <1>9, PassKeeps DEF NextStage, Stops
<1>. QED  BY <1>8, <1>9

\* The row goes when nothing names the account and no document of it is left.
LEMMA FinishKeeps ==
  ASSUME ErInv, NEW p \in ErPasses, FinishErasure(p)
  PROVE  ErInv'
<1>0. ErTypes /\ StatusIsSound /\ PassesAreSound
  BY DEF ErInv
<1>1. UNCHANGED <<erRefs, erOwned, erJobs, erUsed>> /\ Stops(p)
  BY DEF FinishErasure, Stops
<1>2. CASE Erasing /\ erOwned = Absent /\ Named = {}
  <2>1. erAccount' = [erAccount EXCEPT !.status = "none"] /\ erProgress' = NoBatch
    BY <1>2 DEF FinishErasure
  <2>2. erAccount' \in [status : {"none", "active", "erasing"}, generation : Nat]
        /\ erAccount'.status = "none"
    BY <1>0, <2>1 DEF ErTypes
  <2>3. \A q \in ErPasses : erPass'[q] = Off \/ erPass'[q] = erPass[q]
    BY <1>0, <1>1 DEF Stops, ErTypes
  <2>4. ErTypes'
    BY <1>0, <1>1, <2>1, <2>2 DEF ErTypes, Stops
  <2>5. StatusIsSound'
    BY <1>0, <1>1, <1>2, <2>1, <2>2 DEF StatusIsSound, Erasing, Named
  <2>6. PassesAreSound'
    BY <1>0, <1>1, <2>2, <2>3 DEF PassesAreSound, PassIsSound, Active, Behind
  <2>. QED  BY <2>4, <2>5, <2>6 DEF ErInv
<1>3. CASE ~(Erasing /\ erOwned = Absent /\ Named = {})
  <2>1. UNCHANGED <<erAccount, erProgress>>
    BY <1>3 DEF FinishErasure
  <2>. QED  BY <1>0, <1>1, <2>1, PassKeeps DEF ErTypes
<1>. QED  BY <1>2, <1>3

---------------------------------------------------------------------------
\* An account begins active, with no pass at work on it.
LEMMA ErInitSound == ErInit => ErInv
<1> SUFFICES ASSUME ErInit PROVE ErInv
  OBVIOUS
<1>1. ErTypes
  <2>1. erOwned \in [status : {"absent", "creating", "active", "deleting"}, prepared : BOOLEAN]
    <3>1. PICK status \in {"active", "absent"} : erOwned = [status |-> status, prepared |-> FALSE]
      BY DEF ErInit, Absent
    <3>2. status \in {"absent", "creating", "active", "deleting"} /\ FALSE \in BOOLEAN
      OBVIOUS
    <3>. QED  BY <3>1, <3>2, Zenon
  <2>2. erAccount \in [status : {"none", "active", "erasing"}, generation : Nat]
    BY DEF ErInit
  <2>. QED  BY <2>1, <2>2 DEF ErInit, ErTypes
<1>2. StatusIsSound
  BY DEF ErInit, StatusIsSound, Erasing, Absent
<1>3. PassesAreSound
  BY DEF ErInit, PassesAreSound, PassIsSound
<1>. QED  BY <1>1, <1>2, <1>3 DEF ErInv

\* Every step keeps the invariant.
LEMMA ErNextSound ==
  ASSUME ErInOrder, ErInv, [ErNext]_erVars
  PROVE  ErInv'
<1>1. ASSUME NEW p \in ErPasses, ErPassNext(p) PROVE ErInv'
  BY <1>1, StartKeeps, BatchKeeps, NextKeeps, FinishKeeps DEF ErPassNext
<1>2. ASSUME NEW j \in erJobs, NEW s \in ErStage, Insert(s, j) PROVE ErInv'
  BY <1>2, InsertKeeps
<1>. QED  BY <1>1, <1>2, QuietKeeps, AccountKeeps, CrashKeeps DEF ErNext

\* The inductive invariant: what lies behind the progress and behind every pass
\* at work is gone.
THEOREM ErasureInvariant == ASSUME ErInOrder PROVE ErSpec => []ErInv
<1>1. ErInit => ErInv
  BY ErInitSound
<1>2. ErInv /\ [ErNext]_erVars => ErInv'
  BY ErNextSound
<1>. QED  BY <1>1, <1>2, PTL DEF ErSpec

\* Erasure goes forward only, and an account whose row is gone is named by
\* nothing, with passes that interleave and die between any two transactions.
THEOREM ErasureAdvances == ASSUME ErInOrder PROVE ErSpec => []ErErasureAdvances
<1>1. ErInv => ErErasureAdvances
  BY DEF ErInv, StatusIsSound, ErErasureAdvances, Behind
<1>. QED  BY <1>1, ErasureInvariant, PTL

---------------------------------------------------------------------------
(***************************************************************************)
(* A suggestion is accepted once, whatever its callers leave behind: the   *)
(* receipt is made once, plans one edit, and is what every retry, every job *)
(* on its way and the live text agree on.                                  *)
(***************************************************************************)

\* One acceptance is asked for, with one request id however often it is retried,
\* and a catalogue thread serves its jobs in the order they were sent.
OneAtATime == (\E q : SgRequest = {q}) /\ "overtake" \notin SgFaults

SgRows == [outcome : {"", "rejected", "accepted", "gone"}, version : 0 .. 1,
           request : SgRequest \cup {"none"}]
SgReceipts == [status : {"none", "prepared", "committed"}, version : 0 .. 1,
               staged : SUBSET Nat, point : BOOLEAN]
Acceptances ==
  [at : {"begin", "look", "plan", "stage", "apply", "checkpoint", "record", "finish"},
   request : SgRequest, version : 0 .. 1, edits : SUBSET Nat]
SgCalls == {SgIdle} \cup [at : {"pending"}] \cup [at : {"write"}, new : SgRows] \cup Acceptances

SgTypes ==
  /\ sgRow \in SgRows /\ sgRoom \in SgRows
  /\ sgReceipt \in [SgRequest -> SgReceipts]
  /\ sgCall \in SgCalls /\ sgOrphans \subseteq SgCalls
  /\ sgUsed \in [plans : Nat, decisions : Nat, failures : Nat]

\* A receipt plans one edit, and the text has what a receipt holds.
ReceiptsAreSound ==
  \A r \in SgRequest :
    /\ sgReceipt[r].status = "none" => sgReceipt[r].staged = {} /\ ~sgReceipt[r].point
    /\ \A e, f \in sgReceipt[r].staged : e = f
    /\ sgReceipt[r].point => sgSaved # {}
    /\ sgLive \subseteq sgReceipt[r].staged

RowIsSound ==
  sgRow.outcome = "accepted" =>
    sgRow.request \in SgRequest /\ sgReceipt[sgRow.request].status = "committed" /\ sgSaved # {}

\* What a decision, or the job it left behind, found and relies on.
DecisionIsSound(c) ==
  /\ c.at \in {"look", "plan", "stage", "apply", "checkpoint", "record", "finish"} => Resumes(c)
  /\ c.at \in {"plan", "stage"} => Mine(c).staged = {}
  /\ c.at = "stage" => \E e \in c.edits : c.edits = {e}
  /\ c.at = "apply" => c.edits # {} /\ c.edits = Mine(c).staged
  /\ c.at = "checkpoint" => sgLive # {}
  /\ c.at = "record" => sgSaved # {}
  /\ c.at = "finish" => Mine(c).point
  /\ c.at = "write" => /\ c.new.outcome # "accepted"
                       /\ sgRow.outcome = "accepted" \/ \A r \in SgRequest : ~SgStaged(r)

\* One decision has passed its first job, and so at most one job it left behind.
TurnsAreTaken ==
  /\ sgCall.at \notin {"idle", "begin", "pending"} => sgOrphans = {}
  /\ \A c \in sgOrphans : c.at \in {"begin", "stage", "record", "finish", "write"}
  /\ \A c, d \in sgOrphans : c.at # "begin" /\ d.at # "begin" => c = d

SgInv ==
  /\ SgTypes /\ sgSaved \subseteq sgLive /\ ReceiptsAreSound /\ RowIsSound /\ TurnsAreTaken
  /\ \A c \in {sgCall} \cup sgOrphans : DecisionIsSound(c)

---------------------------------------------------------------------------
\* A call past "pending" and "write" is of an acceptance.
LEMMA AcceptanceTyped ==
  ASSUME NEW c \in SgCalls, c.at \notin {"idle", "pending", "write"}
  PROVE  c \in Acceptances /\ c.request \in SgRequest /\ c.edits \subseteq Nat
BY DEF SgCalls, SgIdle, Acceptances

\* What is under way survives a step that leaves the catalogue alone.
LEMMA DecisionKept ==
  ASSUME NEW c, DecisionIsSound(c), UNCHANGED <<sgRow, sgReceipt>>,
         sgSaved # {} => sgSaved' # {}, sgLive # {} => sgLive' # {}
  PROVE  DecisionIsSound(c)'
BY DEF DecisionIsSound, Resumes, Mine, SgStaged

\* A step that leaves the catalogue alone keeps the invariant if the text it
\* leaves is whole and what is under way after it is sound.
LEMMA TextKept ==
  ASSUME SgInv, UNCHANGED <<sgRow, sgReceipt>>, SgTypes', sgSaved' \subseteq sgLive',
         \A r \in SgRequest : sgLive' \subseteq sgReceipt[r].staged,
         sgSaved # {} => sgSaved' # {}, TurnsAreTaken',
         \A c \in {sgCall'} \cup sgOrphans' : DecisionIsSound(c)'
  PROVE  SgInv'
<1>1. ReceiptsAreSound'
  BY DEF SgInv, ReceiptsAreSound
<1>2. RowIsSound'
  BY DEF SgInv, RowIsSound
<1> QED BY <1>1, <1>2 DEF SgInv

\* A step that ends the call, or begins one, and leaves the rest.
LEMMA CallKeeps ==
  ASSUME SgInv, UNCHANGED <<sgRow, sgReceipt, sgLive, sgOrphans>>,
         sgSaved' \in {sgSaved, sgLive}, SgTypes',
         sgCall'.at \in {"idle", "begin", "pending"}
  PROVE  SgInv'
<1>1. sgSaved # {} => sgSaved' # {}
  BY DEF SgInv
<1>2. sgSaved' \subseteq sgLive'
  BY DEF SgInv
<1>3. TurnsAreTaken'
  BY DEF SgInv, TurnsAreTaken
<1>4. ASSUME NEW c \in {sgCall'} \cup sgOrphans' PROVE DecisionIsSound(c)'
  <2>1. CASE c = sgCall'
    BY <2>1 DEF DecisionIsSound
  <2>2. CASE c \in sgOrphans
    BY <2>2, <1>1, DecisionKept DEF SgInv
  <2> QED BY <1>4, <2>1, <2>2
<1>5. \A r \in SgRequest : sgLive' \subseteq sgReceipt[r].staged
  BY DEF SgInv, ReceiptsAreSound
<1> QED BY <1>1, <1>2, <1>3, <1>4, <1>5, TextKept

\* The same for a call in its turn: it leaves nothing but itself.
LEMMA TurnKeeps ==
  ASSUME SgInv, UNCHANGED <<sgRow, sgReceipt>>, sgOrphans = {}, sgOrphans' = {}, SgTypes',
         sgSaved' \subseteq sgLive', sgSaved # {} => sgSaved' # {},
         \A r \in SgRequest : sgLive' \subseteq sgReceipt[r].staged,
         DecisionIsSound(sgCall)'
  PROVE  SgInv'
<1>1. TurnsAreTaken'
  BY DEF TurnsAreTaken
<1> QED BY <1>1, TextKept

---------------------------------------------------------------------------
\* A failure is counted.
LEMMA FailureTyped ==
  ASSUME SgTypes, NEW kind, SgFail(kind, 0)
  PROVE  sgUsed' \in [plans : Nat, decisions : Nat, failures : Nat]
<1> DEFINE u == sgUsed
<1>1. u \in [plans : Nat, decisions : Nat, failures : Nat]
  BY DEF SgTypes
<1>2. sgUsed' = [u EXCEPT !.failures = @ + 1, !.plans = @ + 0]
  BY DEF SgFail
<1> HIDE DEF u
<1>3. PICK n \in Nat, m \in Nat : n = u.failures + 1 /\ m = u.plans + 0
  BY <1>1
<1>4. sgUsed' = [u EXCEPT !.failures = n, !.plans = m]
  BY <1>2, <1>3
<1> QED BY <1>1, <1>4

\* An acceptance begins, and a decision asks: they have found nothing yet.
LEMMA BeginKeeps ==
  ASSUME SgInv, Decide \/ \E r \in SgRequest : Accept(r)
  PROVE  SgInv'
<1>1. SgTypes
  BY DEF SgInv
<1>2. CASE Decide
  <2>1. SgTypes'
    BY <1>1, <1>2 DEF Decide, SgTypes, SgCalls
  <2> QED BY <1>2, <2>1, CallKeeps DEF Decide
<1>3. ASSUME NEW r \in SgRequest, Accept(r) PROVE SgInv'
  <2>1. sgRoom.version \in 0 .. 1
    BY <1>1 DEF SgTypes, SgRows
  <2>2. sgCall' \in Acceptances
    BY <1>3, <2>1 DEF Accept, Acceptances
  <2>3. SgTypes'
    BY <1>1, <1>3, <2>2 DEF Accept, SgTypes, SgCalls
  <2> QED BY <1>3, <2>3, CallKeeps DEF Accept
<1> QED BY <1>2, <1>3

\* Failures and refusals end the call; what it has sent is in the receipt.
LEMMA EndKeeps ==
  ASSUME SgInv, Stale \/ CheckpointFails \/ SgRefused \/ SgSave
  PROVE  SgInv'
<1>1. SgTypes
  BY DEF SgInv
<1>2. sgUsed' \in [plans : Nat, decisions : Nat, failures : Nat]
  BY <1>1, FailureTyped DEF Stale, CheckpointFails, SgRefused, SgSave, SgTypes
<1>3. SgIdle \in SgCalls /\ SgIdle.at = "idle"
  BY DEF SgCalls, SgIdle
<1>4. CASE Stale \/ CheckpointFails \/ SgRefused
  <2>1. /\ UNCHANGED <<sgRow, sgRoom, sgReceipt, sgLive, sgOrphans>> /\ sgCall' = SgIdle
        /\ sgSaved' \in {sgSaved, sgLive}
    BY <1>4 DEF Stale, CheckpointFails, SgRefused
  <2>2. SgTypes'
    BY <1>1, <1>2, <1>3, <2>1 DEF SgTypes
  <2> QED BY <1>3, <2>1, <2>2, CallKeeps
<1>5. CASE SgSave
  <2>1. /\ UNCHANGED <<sgRow, sgRoom, sgReceipt, sgLive, sgCall, sgOrphans, sgUsed>>
        /\ sgSaved' = sgLive
    BY <1>5 DEF SgSave
  <2>2. SgTypes' /\ TurnsAreTaken'
    BY <1>1, <2>1 DEF SgTypes, SgInv, TurnsAreTaken
  <2>3. sgSaved # {} => sgSaved' # {}
    BY <2>1 DEF SgInv
  <2>4. \A c \in {sgCall'} \cup sgOrphans' : DecisionIsSound(c)'
    BY <2>1, <2>3, DecisionKept DEF SgInv
  <2>5. \A r \in SgRequest : sgLive' \subseteq sgReceipt[r].staged
    BY <2>1 DEF SgInv, ReceiptsAreSound
  <2> QED BY <2>1, <2>2, <2>3, <2>4, <2>5, TextKept
<1> QED BY <1>4, <1>5

\* A crash leaves what is durable, and nothing under way.
LEMMA SgCrashKeeps ==
  ASSUME SgInv, SgCrash
  PROVE  SgInv'
<1>1. /\ sgRoom' = sgRow /\ sgLive' = sgSaved /\ sgCall' = SgIdle /\ sgOrphans' = {}
      /\ UNCHANGED <<sgRow, sgReceipt, sgSaved>>
  BY DEF SgCrash
<1>2. SgTypes'
  <2>1. sgUsed' \in [plans : Nat, decisions : Nat, failures : Nat]
    BY FailureTyped DEF SgCrash, SgInv
  <2> QED BY <1>1, <2>1 DEF SgInv, SgTypes, SgCalls
<1>3. TurnsAreTaken'
  BY <1>1 DEF TurnsAreTaken
<1>4. \A c \in {sgCall'} \cup sgOrphans' : DecisionIsSound(c)'
  BY <1>1 DEF DecisionIsSound, SgIdle
<1>5. \A r \in SgRequest : sgLive' \subseteq sgReceipt[r].staged
  BY <1>1 DEF SgInv, ReceiptsAreSound
<1> QED BY <1>1, <1>2, <1>3, <1>4, <1>5, TextKept

\* A call that is dropped leaves the job it has sent, the only one past "begin".
LEMMA DropKeeps ==
  ASSUME SgInv, SgDrop
  PROVE  SgInv'
<1>1. /\ sgCall.at \notin {"idle", "plan"} /\ sgCall' = SgIdle
      /\ UNCHANGED <<sgRow, sgRoom, sgReceipt, sgLive, sgSaved>>
  BY DEF SgDrop
<1>2. PICK j \in Dispatched : sgOrphans' = sgOrphans \cup j
  BY DEF SgDrop
<1>3. j = {} \/ (j = {sgCall} /\ sgCall.at \in {"begin", "stage", "record", "finish", "write"})
  BY DEF Dispatched
<1>4. SgTypes'
  <2>1. sgUsed' \in [plans : Nat, decisions : Nat, failures : Nat]
    BY FailureTyped DEF SgDrop, SgInv
  <2> QED BY <1>1, <1>2, <1>3, <2>1 DEF SgInv, SgTypes, SgCalls
<1>5. TurnsAreTaken'
  <2>1. sgCall'.at = "idle"
    BY <1>1 DEF SgIdle
  <2>2. j = {} \/ sgCall.at = "begin" \/ sgOrphans = {}
    BY <1>3 DEF SgInv, TurnsAreTaken
  <2> QED BY <1>1, <1>2, <1>3, <2>1, <2>2 DEF SgInv, TurnsAreTaken
<1>6. \A c \in {sgCall'} \cup sgOrphans' : DecisionIsSound(c)'
  <2>1. ASSUME NEW c \in {sgCall'} \cup sgOrphans' PROVE DecisionIsSound(c)'
    <3>1. CASE c = SgIdle
      BY <3>1 DEF DecisionIsSound, SgIdle
    <3>2. CASE c \in sgOrphans \cup {sgCall}
      BY <1>1, <3>2, DecisionKept DEF SgInv
    <3> QED BY <1>1, <1>2, <1>3, <3>1, <3>2
  <2> QED BY <2>1
<1>7. \A r \in SgRequest : sgLive' \subseteq sgReceipt[r].staged
  BY <1>1 DEF SgInv, ReceiptsAreSound
<1> QED BY <1>1, <1>4, <1>5, <1>6, <1>7, TextKept DEF SgInv

---------------------------------------------------------------------------
\* A call past its first job has no job left before it.
LEMMA Alone ==
  ASSUME OneAtATime, SgInv,
         sgCall.at \notin {"idle", "begin", "pending"} \/ SgInTurn
  PROVE  sgOrphans = {}
BY DEF OneAtATime, SgInv, TurnsAreTaken, SgInTurn

\* The room looks at its receipt.
LEMMA LookKeeps ==
  ASSUME OneAtATime, SgInv, Look
  PROVE  SgInv'
<1>1. /\ sgCall.at = "look" /\ sgOrphans = {} /\ sgCall \in Acceptances
      /\ UNCHANGED <<sgRow, sgRoom, sgReceipt, sgLive, sgSaved, sgOrphans, sgUsed>>
  BY Alone, AcceptanceTyped DEF Look, SgInv, SgTypes
<1>2. Resumes(sgCall) /\ sgCall.request \in SgRequest
  BY <1>1 DEF SgInv, DecisionIsSound, Acceptances
<1>3. PICK staged \in SUBSET Nat : staged = Mine(sgCall).staged
  BY <1>2 DEF SgInv, SgTypes, SgReceipts, Mine
<1>4. \/ sgCall' = [sgCall EXCEPT !.at = "finish"] /\ Mine(sgCall).point
      \/ sgCall' = [sgCall EXCEPT !.at = "apply", !.edits = staged] /\ staged # {}
      \/ sgCall' = [sgCall EXCEPT !.at = "plan"] /\ staged = {}
  BY <1>2, <1>3 DEF Look, Resumes
<1>5. /\ sgCall'.at \in {"finish", "apply", "plan"}
      /\ sgCall'.request = sgCall.request /\ sgCall'.version = sgCall.version
      /\ sgCall' \in Acceptances
  BY <1>1, <1>3, <1>4 DEF Acceptances
<1>6. DecisionIsSound(sgCall)'
  <2>1. sgCall'.at = "apply" => sgCall'.edits = staged /\ staged # {}
    BY <1>1, <1>4 DEF Acceptances
  <2>2. sgCall'.at = "finish" => Mine(sgCall).point
    BY <1>1, <1>4 DEF Acceptances
  <2>3. sgCall'.at = "plan" => staged = {}
    BY <1>1, <1>4 DEF Acceptances
  <2> QED BY <1>1, <1>2, <1>3, <1>5, <2>1, <2>2, <2>3 DEF DecisionIsSound, Resumes, Mine
<1>7. SgTypes'
  BY <1>1, <1>5 DEF SgInv, SgTypes, SgCalls
<1>8. sgSaved' \subseteq sgLive' /\ \A r \in SgRequest : sgLive' \subseteq sgReceipt[r].staged
  BY <1>1 DEF SgInv, ReceiptsAreSound
<1> QED BY <1>1, <1>6, <1>7, <1>8, TurnKeeps

\* A plan is one edit: the text has none yet.
LEMMA PlanKeeps ==
  ASSUME OneAtATime, SgInv, Plan
  PROVE  SgInv'
<1>1. /\ sgCall.at = "plan" /\ sgOrphans = {} /\ sgCall \in Acceptances
      /\ UNCHANGED <<sgRow, sgRoom, sgReceipt, sgLive, sgSaved, sgOrphans>>
  BY Alone, AcceptanceTyped DEF Plan, SgInv, SgTypes
<1>2. Resumes(sgCall) /\ sgCall.request \in SgRequest /\ Mine(sgCall).staged = {}
  BY <1>1 DEF SgInv, DecisionIsSound, Acceptances
<1>3. sgLive = {}
  BY <1>2 DEF SgInv, ReceiptsAreSound, Mine
<1>4. PICK e \in Nat : e = sgUsed.plans + 1
  BY DEF SgInv, SgTypes
<1>5. /\ sgCall' = [sgCall EXCEPT !.at = "stage", !.edits = {e}]
      /\ sgUsed' = [sgUsed EXCEPT !.plans = @ + Cardinality({e})]
  BY <1>3, <1>4 DEF Plan, Found
<1>6. /\ sgCall'.at = "stage" /\ sgCall'.edits = {e} /\ sgCall' \in Acceptances
      /\ sgCall'.request = sgCall.request /\ sgCall'.version = sgCall.version
  BY <1>1, <1>5 DEF Acceptances
<1>7. DecisionIsSound(sgCall)'
  BY <1>1, <1>2, <1>6 DEF DecisionIsSound, Resumes, Mine
<1>8. SgTypes'
  <2>1. Cardinality({e}) = 1
    BY FS_Singleton
  <2>2. sgUsed' \in [plans : Nat, decisions : Nat, failures : Nat]
    BY <1>5, <2>1 DEF SgInv, SgTypes
  <2> QED BY <1>1, <1>6, <2>2 DEF SgInv, SgTypes, SgCalls
<1>9. sgSaved' \subseteq sgLive' /\ \A r \in SgRequest : sgLive' \subseteq sgReceipt[r].staged
  BY <1>1 DEF SgInv, ReceiptsAreSound
<1> QED BY <1>1, <1>7, <1>8, <1>9, TurnKeeps

\* What is applied is what the receipt holds, and is saved before it is recorded.
LEMMA ApplyKeeps ==
  ASSUME OneAtATime, SgInv, Apply \/ Checkpoint
  PROVE  SgInv'
<1>1. /\ sgCall.at \in {"apply", "checkpoint"} /\ sgOrphans = {} /\ sgCall \in Acceptances
      /\ UNCHANGED <<sgRow, sgRoom, sgReceipt, sgOrphans, sgUsed>>
  BY Alone, AcceptanceTyped DEF Apply, Checkpoint, SgInv, SgTypes
<1>2. Resumes(sgCall) /\ sgCall.request \in SgRequest
  BY <1>1 DEF SgInv, DecisionIsSound, Acceptances
<1>3. /\ sgCall'.at = IF sgCall.at = "apply" THEN "checkpoint" ELSE "record"
      /\ sgCall' \in Acceptances
      /\ sgCall'.request = sgCall.request /\ sgCall'.version = sgCall.version
  BY <1>1 DEF Apply, Checkpoint, Acceptances
<1>4. /\ sgCall.at = "apply" =>
           sgLive' = sgLive \cup Mine(sgCall).staged /\ sgLive' # {} /\ sgSaved' = sgSaved
      /\ sgCall.at = "checkpoint" => sgLive' = sgLive /\ sgSaved' = sgLive /\ sgLive # {}
  BY <1>1 DEF Apply, Checkpoint, SgInv, DecisionIsSound
<1>5. DecisionIsSound(sgCall)'
  BY <1>1, <1>2, <1>3, <1>4 DEF DecisionIsSound, Resumes, Mine
<1>6. SgTypes'
  BY <1>1, <1>3 DEF SgInv, SgTypes, SgCalls
<1>7. sgLive \subseteq Mine(sgCall).staged /\ \A r \in SgRequest : Mine(sgCall) = sgReceipt[r]
  BY <1>2 DEF SgInv, ReceiptsAreSound, Mine, OneAtATime
<1>8. /\ sgSaved' \subseteq sgLive' /\ (sgSaved # {} => sgSaved' # {})
      /\ \A r \in SgRequest : sgLive' \subseteq sgReceipt[r].staged
  BY <1>1, <1>4, <1>7 DEF SgInv
<1> QED BY <1>1, <1>5, <1>6, <1>8, TurnKeeps

\* A decision is made only where no acceptance is staged, and is no acceptance.
LEMMA AskKeeps ==
  ASSUME OneAtATime, SgInv, AskPending
  PROVE  SgInv'
<1>1. /\ sgCall.at = "pending" /\ sgOrphans = {}
      /\ UNCHANGED <<sgRow, sgRoom, sgReceipt, sgLive, sgSaved, sgOrphans, sgUsed>>
  BY Alone DEF AskPending
<1>2. CASE sgCall' = SgIdle
  <2>1. SgTypes' /\ sgCall'.at = "idle"
    BY <1>1, <1>2 DEF SgInv, SgTypes, SgCalls, SgIdle
  <2> QED BY <1>1, <2>1, CallKeeps
<1>3. CASE sgCall' # SgIdle
  <2>1. \A r \in SgRequest : ~SgStaged(r)
    BY <1>3 DEF AskPending
  <2>2. PICK new \in Decided(sgRoom) : sgCall' = [at |-> "write", new |-> new]
    BY <1>3 DEF AskPending
  <2>3. new \in SgRows /\ new.outcome # "accepted"
    <3>1. sgRoom \in SgRows
      BY DEF SgInv, SgTypes
    <3>2. Gone \in SgRows /\ Gone.outcome # "accepted"
      BY DEF Gone, SgRows
    <3>3. \/ new = Gone
          \/ new = [sgRoom EXCEPT !.outcome = "rejected"]
          \/ new = [sgRoom EXCEPT !.outcome = ""]
          \/ new = [sgRoom EXCEPT !.version = 1] /\ sgRoom.outcome = ""
      BY <2>2 DEF Decided
    <3>4. PICK row \in SgRows : row = sgRoom
      BY <3>1
    <3>5. [row EXCEPT !.outcome = "rejected"] \in SgRows /\ [row EXCEPT !.outcome = "rejected"].outcome = "rejected"
      BY DEF SgRows
    <3>6. [row EXCEPT !.outcome = ""] \in SgRows /\ [row EXCEPT !.outcome = ""].outcome = ""
      BY DEF SgRows
    <3>7. [row EXCEPT !.version = 1] \in SgRows /\ [row EXCEPT !.version = 1].outcome = row.outcome
      <4>1. 1 \in 0 .. 1
        OBVIOUS
      <4> QED BY <4>1 DEF SgRows
    <3> QED BY <3>2, <3>3, <3>4, <3>5, <3>6, <3>7
  <2>4. sgCall'.at = "write" /\ sgCall'.new = new
    BY <2>2
  <2>5. DecisionIsSound(sgCall)'
    BY <1>1, <2>1, <2>3, <2>4 DEF DecisionIsSound, SgStaged
  <2>6. SgTypes'
    BY <1>1, <2>2, <2>3 DEF SgInv, SgTypes, SgCalls
  <2>7. sgSaved' \subseteq sgLive' /\ \A r \in SgRequest : sgLive' \subseteq sgReceipt[r].staged
    BY <1>1 DEF SgInv, ReceiptsAreSound
  <2> QED BY <1>1, <2>5, <2>6, <2>7, TurnKeeps
<1> QED BY <1>2, <1>3

---------------------------------------------------------------------------
\* What a job leaves in the receipt of its acceptance.
ReceiptIs(c, status, version, staged, point) ==
  /\ sgReceipt' \in [SgRequest -> SgReceipts]
  /\ sgReceipt'[c.request].status = status /\ sgReceipt'[c.request].version = version
  /\ sgReceipt'[c.request].staged = staged /\ sgReceipt'[c.request].point = point

\* A new receipt holds nothing yet.
LEMMA PrepareLeaves ==
  ASSUME SgTypes, ReceiptsAreSound, NEW c \in Acceptances, SgPrepare(c), Opens(c)
  PROVE  ReceiptIs(c, "prepared", c.version, {}, FALSE)
<1>1. c.request \in SgRequest /\ c.version \in 0 .. 1
  BY DEF Acceptances
<1>2. PICK old \in SgReceipts : old = NoReceipt /\ old.staged = {} /\ old.point = FALSE
  <2>1. 0 \in 0 .. 1 /\ {} \in SUBSET Nat /\ FALSE \in BOOLEAN
    OBVIOUS
  <2>2. NoReceipt \in SgReceipts
    BY <2>1, Zenon DEF NoReceipt, SgReceipts
  <2>3. NoReceipt.staged = {} /\ NoReceipt.point = FALSE
    BY DEF NoReceipt
  <2> QED BY <2>2, <2>3
<1>3. PICK version \in 0 .. 1 : version = c.version
  BY <1>1
<1>4. PICK new : new = [old EXCEPT !.status = "prepared", !.version = version]
  OBVIOUS
<1>5. sgReceipt' = [sgReceipt EXCEPT ![c.request] = new]
  BY <1>2, <1>3, <1>4 DEF SgPrepare
<1>6. /\ new \in SgReceipts /\ new.status = "prepared" /\ new.version = version
      /\ new.staged = {} /\ new.point = FALSE
  BY <1>2, <1>4 DEF SgReceipts
<1> QED BY <1>1, <1>3, <1>5, <1>6 DEF SgTypes, ReceiptIs

\* A staged receipt holds the edit of the call.
LEMMA StageLeaves ==
  ASSUME SgTypes, NEW c \in Acceptances, StageJob(c), Resumes(c)
  PROVE  ReceiptIs(c, "prepared", c.version, c.edits, Mine(c).point)
<1>1. c.request \in SgRequest /\ c.edits \in SUBSET Nat
  BY DEF Acceptances
<1>2. PICK old \in SgReceipts : old = sgReceipt[c.request]
  BY <1>1 DEF SgTypes
<1>3. PICK edits \in SUBSET Nat : edits = c.edits
  BY <1>1
<1>4. PICK new : new = [old EXCEPT !.staged = edits]
  OBVIOUS
<1>5. sgReceipt' = [sgReceipt EXCEPT ![c.request] = new]
  BY <1>2, <1>3, <1>4 DEF StageJob
<1>6. /\ new \in SgReceipts /\ new.status = old.status /\ new.version = old.version
      /\ new.staged = edits /\ new.point = old.point
  BY <1>4 DEF SgReceipts
<1>7. old.status = "prepared" /\ old.version = c.version
  BY <1>2 DEF Resumes, Mine
<1> QED BY <1>1, <1>2, <1>3, <1>5, <1>6, <1>7 DEF SgTypes, ReceiptIs, Mine

\* A recorded one holds its checkpoint too.
LEMMA RecordLeaves ==
  ASSUME SgTypes, NEW c \in Acceptances, RecordJob(c), Resumes(c)
  PROVE  ReceiptIs(c, "prepared", c.version, Mine(c).staged, TRUE)
<1>1. c.request \in SgRequest
  BY DEF Acceptances
<1>2. PICK old \in SgReceipts : old = sgReceipt[c.request]
  BY <1>1 DEF SgTypes
<1>3. PICK new : new = [old EXCEPT !.point = TRUE]
  OBVIOUS
<1>4. sgReceipt' = [sgReceipt EXCEPT ![c.request] = new]
  BY <1>2, <1>3 DEF RecordJob
<1>5. /\ new \in SgReceipts /\ new.status = old.status /\ new.version = old.version
      /\ new.staged = old.staged /\ new.point = TRUE
  BY <1>3 DEF SgReceipts
<1>6. old.status = "prepared" /\ old.version = c.version
  BY <1>2 DEF Resumes, Mine
<1> QED BY <1>1, <1>2, <1>4, <1>5, <1>6 DEF SgTypes, ReceiptIs, Mine

\* A committed one comes with the outcome of the comment.
LEMMA FinishLeaves ==
  ASSUME SgTypes, NEW c \in Acceptances, FinishJob(c), Finishes(c)
  PROVE  /\ ReceiptIs(c, "committed", c.version, Mine(c).staged, Mine(c).point)
         /\ sgRow' \in SgRows /\ sgRow'.request = c.request
<1>1. c.request \in SgRequest
  BY DEF Acceptances
<1>2. PICK old \in SgReceipts : old = sgReceipt[c.request]
  BY <1>1 DEF SgTypes
<1>3. PICK new : new = [old EXCEPT !.status = "committed"]
  OBVIOUS
<1>4. sgReceipt' = [sgReceipt EXCEPT ![c.request] = new]
  BY <1>2, <1>3 DEF FinishJob
<1>5. /\ new \in SgReceipts /\ new.status = "committed" /\ new.version = old.version
      /\ new.staged = old.staged /\ new.point = old.point
  BY <1>3 DEF SgReceipts
<1>6. old.version = c.version
  BY <1>2 DEF Finishes, Resumes, Mine
<1>7. sgRow' = Accepted(c.request, sgRow.version) /\ sgRow.version \in 0 .. 1
  BY DEF FinishJob, SgTypes, SgRows
<1>8. sgRow' \in SgRows /\ sgRow'.request = c.request
  BY <1>1, <1>7 DEF Accepted, SgRows
<1> QED BY <1>1, <1>2, <1>4, <1>5, <1>6, <1>8 DEF SgTypes, ReceiptIs, Mine

\* What holds of the receipts after a job, if what it left is sound.
LEMMA ReceiptsKept ==
  ASSUME OneAtATime, SgInv, NEW c \in Acceptances, sgLive' = sgLive, sgSaved' = sgSaved,
         NEW status, NEW staged, NEW point, ReceiptIs(c, status, c.version, staged, point),
         status # "none", \A e, f \in staged : e = f, point = TRUE => sgSaved # {},
         sgLive \subseteq staged
  PROVE  ReceiptsAreSound'
BY DEF OneAtATime, ReceiptIs, ReceiptsAreSound, Acceptances, SgReceipts

\* Jobs that have found nothing have nothing to lose.
LEMMA BeginsAreSound ==
  ASSUME NEW c, c.at \in {"idle", "begin", "pending"}
  PROVE  DecisionIsSound(c)'
BY DEF DecisionIsSound

---------------------------------------------------------------------------
\* begin_suggestion_accept: a receipt is made once.
LEMMA BeginAcceptKeeps ==
  ASSUME OneAtATime, SgInv, BeginAccept
  PROVE  SgInv'
<1>1. /\ sgCall.at = "begin" /\ sgOrphans = {} /\ sgCall \in Acceptances /\ SgPrepare(sgCall)
      /\ UNCHANGED <<sgRow, sgLive, sgSaved, sgOrphans, sgUsed>>
  BY Alone, AcceptanceTyped DEF BeginAccept, SgInv, SgTypes
<1>2. sgRoom' \in SgRows
  <2>1. PICK row \in SgRows : row = sgRoom
    BY DEF SgInv, SgTypes
  <2>2. row.version \in 0 .. 1 /\ sgCall.request \in SgRequest
    BY <1>1 DEF SgRows, Acceptances
  <2>3. Accepted(sgCall.request, row.version) \in SgRows
    BY <2>2 DEF Accepted, SgRows
  <2> QED BY <2>1, <2>3 DEF BeginAccept
<1>3. CASE Opens(sgCall)
  <2>1. ReceiptIs(sgCall, "prepared", sgCall.version, {}, FALSE)
    BY <1>1, <1>3, PrepareLeaves DEF SgInv
  <2>2. sgCall' = [sgCall EXCEPT !.at = "look"]
    BY <1>3 DEF BeginAccept
  <2>3. /\ sgCall'.at = "look" /\ sgCall' \in Acceptances
        /\ sgCall'.request = sgCall.request /\ sgCall'.version = sgCall.version
    BY <1>1, <2>2 DEF Acceptances
  <2>4. sgLive = {}
    BY <1>1, <1>3 DEF Opens, Mine, SgInv, ReceiptsAreSound, Acceptances
  <2>5. ReceiptsAreSound'
    BY <1>1, <2>1, <2>4, ReceiptsKept
  <2>6. DecisionIsSound(sgCall)'
    BY <2>1, <2>3 DEF DecisionIsSound, Resumes, Mine, ReceiptIs
  <2>7. RowIsSound'
    BY <1>1, <1>3 DEF RowIsSound, Opens
  <2>8. SgTypes'
    BY <1>1, <1>2, <2>1, <2>3 DEF SgInv, SgTypes, SgCalls, ReceiptIs
  <2>9. TurnsAreTaken'
    BY <1>1 DEF TurnsAreTaken
  <2> QED BY <1>1, <2>5, <2>6, <2>7, <2>8, <2>9 DEF SgInv
<1>4. CASE ~Opens(sgCall)
  <2>1. sgReceipt' = sgReceipt
    BY <1>1, <1>4 DEF SgPrepare
  <2>2. /\ sgCall' \in SgCalls /\ DecisionIsSound(sgCall)'
    <3>1. CASE Resumes(sgCall)
      <4>1. sgCall' = [sgCall EXCEPT !.at = "look"]
        BY <3>1 DEF BeginAccept
      <4>2. /\ sgCall'.at = "look" /\ sgCall' \in Acceptances
            /\ sgCall'.request = sgCall.request /\ sgCall'.version = sgCall.version
        BY <1>1, <4>1 DEF Acceptances
      <4> QED BY <2>1, <3>1, <4>2 DEF DecisionIsSound, Resumes, Mine, SgCalls
    <3>2. CASE ~Resumes(sgCall)
      BY <1>4, <3>2 DEF BeginAccept, SgIdle, SgCalls, DecisionIsSound
    <3> QED BY <3>1, <3>2
  <2>3. SgTypes'
    BY <1>1, <1>2, <2>1, <2>2 DEF SgInv, SgTypes
  <2>4. sgSaved' \subseteq sgLive' /\ \A r \in SgRequest : sgLive' \subseteq sgReceipt[r].staged
    BY <1>1 DEF SgInv, ReceiptsAreSound
  <2> QED BY <1>1, <2>1, <2>2, <2>3, <2>4, TurnKeeps
<1> QED BY <1>3, <1>4

\* The edit and the checkpoint go into the receipt that asked for them.
LEMMA StageKeeps ==
  ASSUME OneAtATime, SgInv, Stage \/ SgRecord
  PROVE  SgInv'
<1>1. /\ sgCall.at \in {"stage", "record"} /\ sgOrphans = {} /\ sgCall \in Acceptances
      /\ UNCHANGED <<sgRow, sgRoom, sgLive, sgSaved, sgOrphans, sgUsed>>
  BY Alone, AcceptanceTyped DEF Stage, SgRecord, SgInv, SgTypes
<1>2. Resumes(sgCall) /\ sgCall.request \in SgRequest
  BY <1>1 DEF SgInv, DecisionIsSound, Acceptances
<1>3. /\ sgCall'.at = IF sgCall.at = "stage" THEN "apply" ELSE "finish"
      /\ sgCall' \in Acceptances /\ sgCall'.edits = sgCall.edits
      /\ sgCall'.request = sgCall.request /\ sgCall'.version = sgCall.version
  BY <1>1, <1>2 DEF Stage, SgRecord, Acceptances
<1>4. sgLive \subseteq Mine(sgCall).staged /\ \A e, f \in Mine(sgCall).staged : e = f
  BY <1>2 DEF SgInv, ReceiptsAreSound, Mine
<1>5. RowIsSound'
  <2>1. sgRow.outcome # "accepted"
    BY <1>2 DEF SgInv, RowIsSound, OneAtATime, Resumes, Mine
  <2> QED BY <1>1, <2>1 DEF RowIsSound
<1>6. ReceiptsAreSound' /\ DecisionIsSound(sgCall)' /\ sgReceipt' \in [SgRequest -> SgReceipts]
  <2>1. CASE sgCall.at = "stage"
    <3>1. ReceiptIs(sgCall, "prepared", sgCall.version, sgCall.edits, Mine(sgCall).point)
      <4>1. StageJob(sgCall)
        BY <2>1 DEF Stage, SgRecord
      <4> QED BY <1>1, <1>2, <4>1, StageLeaves DEF SgInv
    <3>2. (\E e : sgCall.edits = {e}) /\ Mine(sgCall).staged = {}
      BY <2>1 DEF SgInv, DecisionIsSound
    <3>3. Mine(sgCall).point = TRUE => sgSaved # {}
      BY <1>2 DEF SgInv, ReceiptsAreSound, Mine
    <3>4. ReceiptsAreSound'
      BY <1>1, <1>4, <3>1, <3>2, <3>3, ReceiptsKept
    <3>5. DecisionIsSound(sgCall)'
      BY <1>3, <2>1, <3>1, <3>2 DEF DecisionIsSound, Resumes, Mine, ReceiptIs
    <3> QED BY <3>1, <3>4, <3>5 DEF ReceiptIs
  <2>2. CASE sgCall.at = "record"
    <3>1. ReceiptIs(sgCall, "prepared", sgCall.version, Mine(sgCall).staged, TRUE)
      <4>1. RecordJob(sgCall)
        BY <2>2 DEF Stage, SgRecord
      <4> QED BY <1>1, <1>2, <4>1, RecordLeaves DEF SgInv
    <3>2. sgSaved # {}
      BY <2>2 DEF SgInv, DecisionIsSound
    <3>3. ReceiptsAreSound'
      BY <1>1, <1>4, <3>1, <3>2, ReceiptsKept
    <3>4. DecisionIsSound(sgCall)'
      BY <1>3, <2>2, <3>1 DEF DecisionIsSound, Resumes, Mine, ReceiptIs
    <3> QED BY <3>1, <3>3, <3>4 DEF ReceiptIs
  <2> QED BY <1>1, <2>1, <2>2
<1>7. SgTypes'
  BY <1>1, <1>3, <1>6 DEF SgInv, SgTypes, SgCalls
<1>8. TurnsAreTaken'
  BY <1>1 DEF TurnsAreTaken
<1> QED BY <1>1, <1>5, <1>6, <1>7, <1>8 DEF SgInv

\* finish_suggestion_accept: the outcome with the receipt that did it.
LEMMA OutcomeKeeps ==
  ASSUME OneAtATime, SgInv, NEW c \in Acceptances, DecisionIsSound(c), c.at = "finish", FinishJob(c),
         UNCHANGED <<sgLive, sgSaved, sgUsed>>, sgRoom' \in SgRows,
         sgCall' \in SgCalls, sgCall'.at \in {"idle", "begin", "pending"},
         sgOrphans' \subseteq sgOrphans, \A d \in sgOrphans' : d.at = "begin"
  PROVE  SgInv'
<1>1. Resumes(c) /\ c.request \in SgRequest /\ Mine(c).point
  BY DEF DecisionIsSound, Acceptances
<1>2. /\ sgLive \subseteq Mine(c).staged /\ (\A e, f \in Mine(c).staged : e = f) /\ sgSaved # {}
  BY <1>1 DEF SgInv, ReceiptsAreSound, Mine
<1>3. /\ sgReceipt' \in [SgRequest -> SgReceipts] /\ sgRow' \in SgRows
      /\ ReceiptsAreSound' /\ RowIsSound'
  <2>1. CASE Finishes(c)
    <3>1. /\ ReceiptIs(c, "committed", c.version, Mine(c).staged, Mine(c).point)
          /\ sgRow' \in SgRows /\ sgRow'.request = c.request
      BY <2>1, FinishLeaves DEF SgInv
    <3>2. ReceiptsAreSound'
      BY <1>2, <3>1, ReceiptsKept
    <3>3. RowIsSound'
      BY <1>1, <1>2, <3>1 DEF RowIsSound, ReceiptIs
    <3> QED BY <3>1, <3>2, <3>3 DEF ReceiptIs
  <2>2. CASE ~Finishes(c)
    <3>1. sgReceipt' = sgReceipt /\ sgRow' = sgRow
      BY <2>2 DEF FinishJob
    <3> QED BY <3>1 DEF SgInv, SgTypes, ReceiptsAreSound, RowIsSound
  <2> QED BY <2>1, <2>2
<1>4. SgTypes'
  BY <1>3 DEF SgInv, SgTypes
<1>5. TurnsAreTaken'
  BY DEF TurnsAreTaken
<1>6. \A d \in {sgCall'} \cup sgOrphans' : DecisionIsSound(d)'
  <2>1. ASSUME NEW d \in {sgCall'} \cup sgOrphans' PROVE DecisionIsSound(d)'
    BY <2>1, BeginsAreSound
  <2> QED BY <2>1
<1> QED BY <1>3, <1>4, <1>5, <1>6 DEF SgInv

\* update_comment: the row is not accepted after it, and nothing was staged.
LEMMA WriteKeeps ==
  ASSUME SgInv, NEW c, DecisionIsSound(c), c.at = "write", c.new \in SgRows, WriteJob(c),
         UNCHANGED <<sgReceipt, sgLive, sgSaved, sgUsed>>, sgRoom' \in SgRows,
         sgCall' \in SgCalls, sgCall'.at \in {"idle", "begin", "pending"},
         sgOrphans' \subseteq sgOrphans, \A d \in sgOrphans' : d.at = "begin"
  PROVE  SgInv'
<1>1. sgRow' \in SgRows /\ sgRow'.outcome # "accepted"
  BY DEF WriteJob, DecisionIsSound, SgInv, SgTypes
<1>2. SgTypes' /\ RowIsSound' /\ ReceiptsAreSound'
  BY <1>1 DEF SgInv, SgTypes, RowIsSound, ReceiptsAreSound
<1>3. TurnsAreTaken'
  BY DEF TurnsAreTaken
<1>4. \A d \in {sgCall'} \cup sgOrphans' : DecisionIsSound(d)'
  <2>1. ASSUME NEW d \in {sgCall'} \cup sgOrphans' PROVE DecisionIsSound(d)'
    BY <2>1, BeginsAreSound
  <2> QED BY <2>1
<1> QED BY <1>2, <1>3, <1>4 DEF SgInv

\* The last job of a call whose caller has waited for it.
LEMMA LastJobKeeps ==
  ASSUME OneAtATime, SgInv, FinishAccept \/ WriteDecision
  PROVE  SgInv'
<1>1. /\ sgOrphans = {} /\ sgOrphans' = {} /\ sgCall' = SgIdle
      /\ UNCHANGED <<sgLive, sgSaved, sgUsed>> /\ DecisionIsSound(sgCall)
  BY Alone DEF FinishAccept, WriteDecision, SgInv
<1>2. sgCall' \in SgCalls /\ sgCall'.at = "idle"
  BY <1>1 DEF SgCalls, SgIdle
<1>3. PICK row \in SgRows : row = sgRoom
  BY DEF SgInv, SgTypes
<1>4. CASE FinishAccept
  <2>1. sgCall \in Acceptances /\ sgCall.at = "finish" /\ FinishJob(sgCall)
    BY <1>4, AcceptanceTyped DEF FinishAccept, SgInv, SgTypes
  <2>2. row.version \in 0 .. 1 /\ sgCall.request \in SgRequest
    BY <2>1 DEF SgRows, Acceptances
  <2>3. Accepted(sgCall.request, row.version) \in SgRows
    BY <2>2 DEF Accepted, SgRows
  <2>4. sgRoom' \in SgRows
    BY <1>3, <1>4, <2>3 DEF FinishAccept
  <2> QED BY <1>1, <1>2, <2>1, <2>4, OutcomeKeeps
<1>5. CASE WriteDecision
  <2>1. sgCall.at = "write" /\ WriteJob(sgCall) /\ sgReceipt' = sgReceipt
    BY <1>5 DEF WriteDecision
  <2>2. sgCall.new \in SgRows
    BY <2>1 DEF SgInv, SgTypes, SgCalls, SgIdle, Acceptances
  <2>3. sgRoom' \in SgRows
    BY <1>3, <1>5, <2>2 DEF WriteDecision
  <2> QED BY <1>1, <1>2, <2>1, <2>2, <2>3, WriteKeeps
<1> QED BY <1>4, <1>5

\* A job whose caller went away: whoever is at work now has found nothing yet.
LEMMA OrphanKeeps ==
  ASSUME OneAtATime, SgInv, NEW c \in sgOrphans, RunOrphan(c)
  PROVE  SgInv'
<1>1. /\ DecisionIsSound(c) /\ c \in SgCalls /\ c.at \in {"begin", "stage", "record", "finish", "write"}
      /\ UNCHANGED <<sgRoom, sgLive, sgSaved, sgCall, sgUsed>>
      /\ sgCall'.at \in {"idle", "begin", "pending"} /\ sgCall' \in SgCalls /\ sgRoom' \in SgRows
  BY DEF RunOrphan, SgInv, SgTypes, TurnsAreTaken
<1>2. c.at # "write" => c \in Acceptances /\ c.request \in SgRequest
  BY <1>1, AcceptanceTyped
<1>3. c.at # "begin" => \A d \in sgOrphans \ {c} : d.at = "begin"
  BY DEF SgInv, TurnsAreTaken
<1>4. CASE c.at = "write"
  <2>1. WriteJob(c) /\ sgReceipt' = sgReceipt /\ sgOrphans' = sgOrphans \ {c}
    BY <1>4 DEF RunOrphan
  <2>2. c.new \in SgRows
    BY <1>1, <1>4 DEF SgCalls, SgIdle, Acceptances
  <2> QED BY <1>1, <1>3, <1>4, <2>1, <2>2, WriteKeeps
<1>5. CASE c.at = "finish"
  <2>1. FinishJob(c) /\ sgOrphans' = sgOrphans \ {c}
    BY <1>5 DEF RunOrphan
  <2> QED BY <1>1, <1>2, <1>3, <1>5, <2>1, OutcomeKeeps
<1>6. CASE c.at = "begin"
  <2>1. SgPrepare(c) /\ sgRow' = sgRow /\ sgOrphans' = sgOrphans \ {c}
    BY <1>6 DEF RunOrphan
  <2>2. TurnsAreTaken'
    BY <1>1, <2>1 DEF SgInv, TurnsAreTaken
  <2>3. CASE Opens(c)
    <3>1. ReceiptIs(c, "prepared", c.version, {}, FALSE)
      BY <1>2, <1>6, <2>1, <2>3, PrepareLeaves DEF SgInv
    <3>2. sgLive = {} /\ Mine(c).status = "none" /\ sgRow.outcome # "accepted"
      BY <1>2, <1>6, <2>3 DEF Opens, Mine, SgInv, ReceiptsAreSound
    <3>3. ReceiptsAreSound' /\ RowIsSound'
      <4>1. RowIsSound'
        BY <2>1, <3>2 DEF RowIsSound
      <4>2. PICK staged : staged = {}
        OBVIOUS
      <4>3. (\A e, f \in staged : e = f) /\ sgLive \subseteq staged /\ ReceiptIs(c, "prepared", c.version, staged, FALSE)
        BY <3>1, <3>2, <4>2
      <4>4. ReceiptsAreSound'
        BY <1>1, <1>2, <1>6, <4>3, ReceiptsKept
      <4> QED BY <4>1, <4>4
    <3>4. ASSUME NEW d \in {sgCall'} \cup sgOrphans' PROVE DecisionIsSound(d)'
      <4>1. d \in SgCalls /\ DecisionIsSound(d)
        BY <1>1, <2>1, <3>4 DEF SgInv, SgTypes
      <4>2. CASE d.at \in {"idle", "begin", "pending"}
        BY <4>2, BeginsAreSound
      <4>3. CASE d.at = "write"
        <5>1. \A r \in SgRequest : ~SgStaged(r)'
          BY <1>2, <1>6, <3>1 DEF OneAtATime, SgStaged, ReceiptIs
        <5> QED BY <2>1, <4>1, <4>3, <5>1 DEF DecisionIsSound
      <4>4. CASE d.at \notin {"idle", "begin", "pending", "write"}
        <5>1. Resumes(d) /\ d.request \in SgRequest
          BY <4>1, <4>4, AcceptanceTyped DEF DecisionIsSound, SgCalls, SgIdle, Acceptances
        <5> QED BY <1>2, <1>6, <3>2, <5>1 DEF OneAtATime, Resumes, Mine
      <4> QED BY <4>2, <4>3, <4>4
    <3>5. SgTypes'
      BY <1>1, <2>1, <3>1 DEF SgInv, SgTypes, ReceiptIs
    <3>6. sgSaved' \subseteq sgLive'
      BY <1>1 DEF SgInv
    <3> QED BY <2>2, <3>3, <3>4, <3>5, <3>6 DEF SgInv
  <2>4. CASE ~Opens(c)
    <3>1. sgReceipt' = sgReceipt
      BY <2>1, <2>4 DEF SgPrepare
    <3>2. SgTypes' /\ sgSaved' \subseteq sgLive'
      BY <1>1, <2>1, <3>1 DEF SgInv, SgTypes
    <3>3. \A r \in SgRequest : sgLive' \subseteq sgReceipt[r].staged
      BY <1>1 DEF SgInv, ReceiptsAreSound
    <3>4. ASSUME NEW d \in {sgCall'} \cup sgOrphans' PROVE DecisionIsSound(d)'
      BY <1>1, <2>1, <3>1, <3>4, DecisionKept DEF SgInv
    <3> QED BY <1>1, <2>1, <2>2, <3>1, <3>2, <3>3, <3>4, TextKept
  <2> QED BY <2>3, <2>4
<1>7. CASE c.at \in {"stage", "record"}
  <2>1. Resumes(c) /\ c \in Acceptances /\ c.request \in SgRequest
    BY <1>1, <1>2, <1>7 DEF DecisionIsSound
  <2>2. sgRow' = sgRow
    BY <1>7 DEF RunOrphan
  <2>3. sgLive \subseteq Mine(c).staged /\ \A e, f \in Mine(c).staged : e = f
    BY <2>1 DEF SgInv, ReceiptsAreSound, Mine
  <2>4. RowIsSound'
    BY <2>1, <2>2 DEF SgInv, RowIsSound, OneAtATime, Resumes, Mine
  <2>5. CASE c.at = "stage"
    <3>1. StageJob(c) /\ sgOrphans' = sgOrphans \ {c}
      BY <2>5 DEF RunOrphan
    <3>2. ReceiptIs(c, "prepared", c.version, c.edits, Mine(c).point)
      BY <2>1, <3>1, StageLeaves DEF SgInv
    <3>3. (\E e : c.edits = {e}) /\ Mine(c).staged = {}
      BY <1>1, <2>5 DEF DecisionIsSound
    <3>4. Mine(c).point = TRUE => sgSaved # {}
      BY <2>1 DEF SgInv, ReceiptsAreSound, Mine
    <3>5. ReceiptsAreSound'
      BY <1>1, <2>1, <2>3, <3>2, <3>3, <3>4, ReceiptsKept
    <3>6. ASSUME NEW d \in {sgCall'} \cup sgOrphans' PROVE DecisionIsSound(d)'
      BY <1>1, <1>3, <2>5, <3>1, <3>6, BeginsAreSound
    <3>7. SgTypes' /\ TurnsAreTaken' /\ sgSaved' \subseteq sgLive'
      BY <1>1, <2>2, <3>1, <3>2 DEF SgInv, SgTypes, TurnsAreTaken, ReceiptIs
    <3> QED BY <2>4, <3>5, <3>6, <3>7 DEF SgInv
  <2>6. CASE c.at = "record"
    <3>1. PICK e \in Acceptances : e = [c EXCEPT !.at = "finish"] /\ e.at = "finish"
                                   /\ e.request = c.request /\ e.version = c.version
      <4>1. PICK e : e = [c EXCEPT !.at = "finish"]
        OBVIOUS
      <4>2. e \in Acceptances /\ e.at = "finish" /\ e.request = c.request /\ e.version = c.version
        BY <2>1, <4>1 DEF Acceptances
      <4> QED BY <4>1, <4>2
    <3>2. RecordJob(c) /\ sgOrphans' = (sgOrphans \ {c}) \cup {e}
      BY <2>1, <2>6, <3>1 DEF RunOrphan
    <3>3. ReceiptIs(c, "prepared", c.version, Mine(c).staged, TRUE)
      BY <2>1, <3>2, RecordLeaves DEF SgInv
    <3>4. sgSaved # {}
      BY <1>1, <2>6 DEF DecisionIsSound
    <3>5. ReceiptsAreSound'
      BY <1>1, <2>1, <2>3, <3>3, <3>4, ReceiptsKept
    <3>6. ASSUME NEW d \in {sgCall'} \cup sgOrphans' PROVE DecisionIsSound(d)'
      <4>1. CASE d = e
        BY <3>1, <3>3, <4>1 DEF DecisionIsSound, Resumes, Mine, ReceiptIs
      <4>2. CASE d # e
        BY <1>1, <1>3, <2>6, <3>2, <3>6, <4>2, BeginsAreSound
      <4> QED BY <4>1, <4>2
    <3>7. SgTypes' /\ sgSaved' \subseteq sgLive'
      BY <1>1, <2>2, <3>1, <3>2, <3>3 DEF SgInv, SgTypes, SgCalls, ReceiptIs
    <3>8. TurnsAreTaken'
      BY <1>1, <1>3, <2>6, <3>1, <3>2 DEF SgInv, TurnsAreTaken
    <3> QED BY <2>4, <3>5, <3>6, <3>7, <3>8 DEF SgInv
  <2> QED BY <1>7, <2>5, <2>6
<1> QED BY <1>1, <1>4, <1>5, <1>6, <1>7

---------------------------------------------------------------------------
\* The invariant says what is promised.
LEMMA SoundIsOnce == SgInv /\ OneAtATime => SgAcceptedOnce
<1> SUFFICES ASSUME SgInv, OneAtATime PROVE SgAcceptedOnce
  OBVIOUS
<1>1. PICK q : SgRequest = {q}
  BY DEF OneAtATime
<1>2. \A e, f \in sgLive : e = f
  BY <1>1 DEF SgInv, ReceiptsAreSound
<1>3. Cardinality(sgLive) <= 1
  <2>1. CASE sgLive = {}
    BY <2>1, FS_EmptySet
  <2>2. CASE sgLive # {}
    <3>1. PICK e : sgLive = {e}
      BY <1>2, <2>2
    <3> QED BY <3>1, FS_Singleton
  <2> QED BY <2>1, <2>2
<1> QED BY <1>3 DEF SgInv, RowIsSound, DecisionIsSound, SgAcceptedOnce

\* The first state has nothing under way.
LEMMA SgInitSound == SgInit => SgInv
<1> SUFFICES ASSUME SgInit PROVE SgInv
  OBVIOUS
<1>1. 0 \in 0 .. 1 /\ {} \in SUBSET Nat
  OBVIOUS
<1>2. Pending \in SgRows /\ Pending.outcome = ""
  BY <1>1 DEF Pending, SgRows
<1>3. NoReceipt \in SgReceipts
  <2>1. FALSE \in BOOLEAN
    OBVIOUS
  <2> QED BY <1>1, <2>1, Zenon DEF NoReceipt, SgReceipts
<1>4. NoReceipt.staged = {} /\ ~NoReceipt.point
  BY DEF NoReceipt
<1>5. SgTypes
  BY <1>2, <1>3 DEF SgInit, SgTypes, SgCalls
<1>6. ReceiptsAreSound /\ RowIsSound
  BY <1>2, <1>4 DEF SgInit, ReceiptsAreSound, RowIsSound
<1>7. TurnsAreTaken /\ \A c \in {sgCall} \cup sgOrphans : DecisionIsSound(c)
  BY DEF SgInit, TurnsAreTaken, DecisionIsSound, SgIdle
<1> QED BY <1>5, <1>6, <1>7 DEF SgInit, SgInv

\* Every step keeps the invariant.
LEMMA SgNextSound == OneAtATime /\ SgInv /\ [SgNext]_sgVars => SgInv'
<1> SUFFICES ASSUME OneAtATime, SgInv, [SgNext]_sgVars PROVE SgInv'
  OBVIOUS
<1>1. CASE SgNext
  BY <1>1, BeginKeeps, EndKeeps, SgCrashKeeps, DropKeeps, LookKeeps, PlanKeeps, ApplyKeeps, AskKeeps,
     BeginAcceptKeeps, StageKeeps, LastJobKeeps, OrphanKeeps DEF SgNext
<1>2. CASE UNCHANGED sgVars
  <2>1. SgTypes' /\ TurnsAreTaken' /\ sgSaved' \subseteq sgLive'
    BY <1>2 DEF sgVars, SgInv, SgTypes, TurnsAreTaken
  <2>2. \A c \in {sgCall'} \cup sgOrphans' : DecisionIsSound(c)'
    BY <1>2, DecisionKept DEF sgVars, SgInv
  <2>3. \A r \in SgRequest : sgLive' \subseteq sgReceipt[r].staged
    BY <1>2 DEF sgVars, SgInv, ReceiptsAreSound
  <2> QED BY <1>2, <2>1, <2>2, <2>3, TextKept DEF sgVars
<1> QED BY <1>1, <1>2

\* The inductive invariant: what is under way has found what its receipt says.
THEOREM AcceptanceInvariant ==
  ASSUME OneAtATime
  PROVE  SgSpec => []SgInv
BY SgInitSound, SgNextSound, PTL DEF SgSpec

\* A suggestion is accepted whole and once, through callers that go away with
\* their jobs on the way, failed checkpoints, refused jobs, retries, decisions
\* beside it and crashes, for any number of them.
THEOREM AcceptedOnce ==
  ASSUME OneAtATime
  PROVE  SgSpec => []SgAcceptedOnce
BY AcceptanceInvariant, SoundIsOnce, PTL

---------------------------------------------------------------------------
(***************************************************************************)
(* An agent's operation on a room: the row that says what became of it is  *)
(* true of the text, whatever crash, refusal, revocation or failed write   *)
(* meets it, and no acknowledged edit is lost (AgRowsAreTrue).             *)
(***************************************************************************)

\* What a document of the room is made of, its rows, and the places of a call.
AgWords == AgOp \cup AgEdit
AgDocs == [text : SUBSET AgWords, marks : SUBSET AgOp]
AgRooms == [text : SUBSET AgWords, marks : SUBSET AgOp, dirty : BOOLEAN]
AgStatuses == {"none", "prepared", "committed", "aborted"}
AgRecords == [status : AgStatuses, before : SUBSET AgWords, peak : BOOLEAN]
ApplySteps == {"prepare", "reserve", "backup", "patch", "write", "restore", "abort", "commit",
               "reread", "unpatch", "close"}
LoadSteps == {"recheck", "restore", "abort", "settle"}
AgCalls == [op : AgOp \cup {AgNone}, how : {"idle", "apply", "retry", "recover", "load"},
            pc : ApplySteps \cup LoadSteps \cup {"repeak", "idle"}]

\* The failures that stop a call where it is.
AgStopping == {"crash", "drop", "catalog"}
\* A commit whose answer is lost, or a grant that is given back, does not meet a
\* crash, a dropped request or a failure of the catalogue; a dropped request does
\* not meet a revocation.
AgFailuresApart ==
  \A F \in AgFaults : /\ "commit" \in F \/ "regrant" \in F => F \cap AgStopping = {}
                      /\ "drop" \in F => "revoke" \notin F
AgStops == agFaults \cap AgStopping # {}

\* The type of every variable.
AgTypes ==
  /\ agRow \in [AgOp -> AgRecords] /\ agSlot \in AgOp \cup {AgNone}
  /\ agCancel \in [AgOp -> {"none", "cancel_requested", "already_committed"}]
  /\ agRights \in [AgOp -> BOOLEAN]
  /\ agDurable \in AgDocs /\ agBackup \in [AgOp -> AgDocs \cup {AgNone}]
  /\ agRoom \in {"out", "load", "live", "fenced"}
  /\ agDoc \in AgRooms
  /\ agCall \in AgCalls
  /\ agAcked \subseteq AgEdit
  /\ agFaults \in AgFaults

\* The status of an operation's row, and the call that applies it.
Is(o, status) == agRow[o].status = status
Applies == agCall.how = "apply"
AppliesTo(o) == Applies /\ agCall.op = o

\* Which call may stand at which place, and with which row.
CallIsSound ==
  /\ agCall.pc = "idle" <=> agCall = AgNoCall
  /\ agCall.how = "idle" => agCall = AgNoCall
  /\ Applies => agCall.pc \in ApplySteps
  /\ agCall.how \in {"retry", "recover", "load"} =>
       agCall.pc \in LoadSteps \/ (agCall.how = "retry" /\ agCall.pc = "repeak")
  /\ ~AgFree => agCall.op \in AgOp
  /\ agRoom \in {"out", "fenced"} => AgFree
  /\ agRoom = "load" <=> OnLoad
  /\ AgAt("prepare") => Is(agCall.op, "none")
  /\ agCall.pc \notin {"idle", "prepare", "reread"} => Is(agCall.op, "prepared")
  /\ AgAt("reread") => Is(agCall.op, "prepared") \/ (Is(agCall.op, "committed") /\ agSlot = AgNone)
  /\ \A o \in AgOp : Is(o, "prepared") <=> agSlot = o

\* A text to which an operation may be put back.
SafeText(o, text) ==
  \A c \in AgOp : /\ Is(c, "committed") => c \in text
                  /\ c = o \/ Is(c, "none") \/ Is(c, "aborted") => c \notin text
\* A backup that takes the operation out again without taking anything else.
BackupIsGood(o) ==
  /\ agBackup[o] # AgNone /\ SafeText(o, agBackup[o].text)
  /\ agAcked \subseteq agBackup[o].text
  /\ \A c \in AgOp : c = o \/ Is(c, "none") => c \notin agBackup[o].marks

\* The text of the room and of the journal holds every committed operation, none
\* that was refused, and every edit that was acknowledged.
DocIsSound ==
  /\ agRoom # "out" /\ ~agDoc.dirty => agDoc.text = agDurable.text /\ agDoc.marks = agDurable.marks
  /\ agRoom = "load" => ~agDoc.dirty
  /\ agAcked \subseteq agDurable.text
  /\ agRoom # "out" => agAcked \subseteq agDoc.text
  /\ agRoom = "out" => agDoc.text = {} /\ agDoc.marks = {}
  /\ \A c \in AgOp :
       /\ Is(c, "committed") => c \in agDurable.text /\ (agRoom # "out" => c \in agDoc.text)
       /\ Is(c, "none") \/ Is(c, "aborted") => c \notin agDurable.text \cup agDoc.text
       /\ Is(c, "none") => c \notin agDurable.marks \cup agDoc.marks
  /\ AgCancelAnswersHold

PreparedIsSound(o) ==
  /\ SafeText(o, agRow[o].before)
  /\ o \notin agDurable.marks => o \notin agDurable.text
  /\ o \notin agDoc.marks => o \notin agDoc.text
  /\ o \in agDoc.marks /\ o \notin agDoc.text => o \in agDurable.marks
  /\ o \in agDurable.marks \cup agDoc.marks => agBackup[o] # AgNone
  /\ "drop" \notin agFaults =>
       /\ agRoom = "live" /\ o \in agDoc.marks =>
            AppliesTo(o) /\ agCall.pc \in {"write", "restore", "commit", "reread", "unpatch", "close"}
       /\ o \in agDurable.marks => BackupIsGood(o)
       /\ agRoom = "live" /\ o \in agDurable.marks /\ ~AppliesTo(o) => ~agRights[o]
  /\ "drop" \in agFaults /\ agRoom = "live" /\ o \in agDurable.marks => o \in agDoc.marks
  /\ AgStops =>
       /\ o \in agDurable.marks /\ o \notin agDurable.text => Refused(o)
       /\ o \in agDoc.marks /\ o \notin agDoc.text => Refused(o)
       /\ agCall.pc \in {"reread", "unpatch", "close"} => Refused(o)
  /\ ~AgStops => agRoom # "out" /\ (AppliesTo(o) \/ (agRoom = "fenced" /\ agDoc.dirty))

\* With lost commits nothing stops, so no row is found prepared.
NothingStops ==
  /\ "drop" \in agFaults => \A o \in AgOp : agRights[o]
  /\ ~AgStops => agRoom \in {"live", "fenced"} /\ (agRoom = "fenced" => agDoc.dirty) /\ agCall.how \in {"idle", "apply"}

\* What the call that holds the gates has established.
StepIsSound(o) ==
  /\ Applies /\ agCall.pc \notin {"prepare", "abort"} /\ Is(o, "prepared") => agAcked \subseteq agRow[o].before
  /\ Applies /\ agCall.pc \in {"reserve", "backup", "patch"} =>
       agDoc.text = agRow[o].before /\ o \notin agDoc.marks \cup agDurable.marks
  /\ Applies /\ agCall.pc \in {"patch", "write", "commit", "reread", "unpatch", "close"} /\ Is(o, "prepared") =>
       BackupIsGood(o)
  /\ agCall.pc = "write" => o \in agDoc.text \cap agDoc.marks /\ o \notin agDurable.marks /\ agDoc.dirty
  /\ agCall.pc \in {"commit", "reread", "unpatch"} => o \in agDoc.text \cap agDoc.marks /\ ~agDoc.dirty
  /\ agCall.pc = "close" => agDoc.text = agRow[o].before /\ ~agDoc.dirty
  /\ agCall.pc = "restore" =>
       BackupIsGood(o) /\ IF Applies THEN o \in agDoc.text \cap agDoc.marks ELSE ~agRights[o]
  /\ agCall.pc = "abort" => o \notin agDoc.text \cup agDoc.marks \cup agDurable.text \cup agDurable.marks
  /\ agCall.pc = "settle" => o \in agDurable.marks /\ (OnLoad \/ "drop" \in agFaults)

\* The inductive invariant.
AgInv ==
  /\ AgTypes /\ CallIsSound /\ DocIsSound /\ NothingStops
  /\ \A o \in AgOp : Is(o, "prepared") => PreparedIsSound(o)
  /\ ~AgFree => StepIsSound(agCall.op)

\* The kinds of calls and the places they may stand at.
AgHows == {"idle", "apply", "retry", "recover", "load"}
AgSteps == ApplySteps \cup LoadSteps \cup {"repeak", "idle"}

\* What each way to move the call makes of its fields.
LEMMA AgCallChanges ==
  ASSUME AgTypes
  PROVE  /\ agCall.op \in AgOp \cup {AgNone} /\ agCall.how \in AgHows /\ agCall.pc \in AgSteps
         /\ AgNoCall \in AgCalls /\ AgNoCall.op = AgNone /\ AgNoCall.how = "idle" /\ AgNoCall.pc = "idle"
         /\ \A step \in AgSteps : AgStep(step) =>
              agCall' \in AgCalls /\ agCall'.op = agCall.op /\ agCall'.how = agCall.how /\ agCall'.pc = step
         /\ \A o \in AgOp, how \in AgHows, pc \in AgSteps : agCall' = [op |-> o, how |-> how, pc |-> pc] =>
              agCall' \in AgCalls /\ agCall'.op = o /\ agCall'.how = how /\ agCall'.pc = pc
         /\ agCall' = [agCall EXCEPT !.how = "apply", !.pc = "backup"] =>
              agCall' \in AgCalls /\ agCall'.op = agCall.op /\ agCall'.how = "apply" /\ agCall'.pc = "backup"
<1> USE DEF AgTypes, AgCalls, AgHows, AgSteps, ApplySteps, LoadSteps
<1>1. /\ agCall.op \in AgOp \cup {AgNone} /\ agCall.how \in AgHows /\ agCall.pc \in AgSteps
      /\ AgNoCall \in AgCalls /\ AgNoCall.op = AgNone /\ AgNoCall.how = "idle" /\ AgNoCall.pc = "idle"
  BY DEF AgNoCall
<1>2. ASSUME NEW step \in AgSteps, AgStep(step)
      PROVE  agCall' \in AgCalls /\ agCall'.op = agCall.op /\ agCall'.how = agCall.how /\ agCall'.pc = step
  BY <1>2 DEF AgStep
<1>3. ASSUME NEW o \in AgOp, NEW how \in AgHows, NEW pc \in AgSteps, agCall' = [op |-> o, how |-> how, pc |-> pc]
      PROVE  agCall' \in AgCalls /\ agCall'.op = o /\ agCall'.how = how /\ agCall'.pc = pc
  BY <1>3
<1>4. ASSUME agCall' = [agCall EXCEPT !.how = "apply", !.pc = "backup"]
      PROVE  agCall' \in AgCalls /\ agCall'.op = agCall.op /\ agCall'.how = "apply" /\ agCall'.pc = "backup"
  <2>1. agCall' = [op |-> agCall.op, how |-> "apply", pc |-> "backup"]
    BY <1>4
  <2> QED BY <2>1
<1> QED BY <1>1, <1>2, <1>3, <1>4

\* What each way to write a document makes of its fields.
LEMMA AgDocChanges ==
  ASSUME AgTypes
  PROVE  /\ agDoc.text \subseteq AgWords /\ agDoc.marks \subseteq AgOp /\ agDoc.dirty \in BOOLEAN
         /\ \A d \in AgDocs : d.text \subseteq AgWords /\ d.marks \subseteq AgOp /\ d # AgNone
         /\ \A t \in SUBSET AgWords, m \in SUBSET AgOp :
              Doc(t, m) \in AgDocs /\ Doc(t, m).text = t /\ Doc(t, m).marks = m
         /\ AgContent \in AgDocs /\ AgContent.text = agDoc.text /\ AgContent.marks = agDoc.marks
         /\ \A d \in AgDocs : /\ Become(d, TRUE) => /\ agDoc' \in AgRooms /\ agDoc'.text = d.text
                                                    /\ agDoc'.marks = d.marks /\ agDoc'.dirty
                              /\ Become(d, FALSE) => /\ agDoc' \in AgRooms /\ agDoc'.text = d.text
                                                     /\ agDoc'.marks = d.marks /\ ~agDoc'.dirty
<1> USE AgAssumption DEF AgTypes, AgDocs, AgRooms, AgWords
<1>1. agDoc.text \subseteq AgWords /\ agDoc.marks \subseteq AgOp /\ agDoc.dirty \in BOOLEAN
  OBVIOUS
<1>2. \A d \in AgDocs : d.text \subseteq AgWords /\ d.marks \subseteq AgOp /\ d # AgNone
  OBVIOUS
<1>3. \A t \in SUBSET AgWords, m \in SUBSET AgOp :
         Doc(t, m) \in AgDocs /\ Doc(t, m).text = t /\ Doc(t, m).marks = m
  BY DEF Doc
<1>4. AgContent \in AgDocs /\ AgContent.text = agDoc.text /\ AgContent.marks = agDoc.marks
  BY <1>1, <1>3 DEF AgContent
<1>5. ASSUME NEW d \in AgDocs
      PROVE  /\ Become(d, TRUE) => /\ agDoc' \in AgRooms /\ agDoc'.text = d.text
                                   /\ agDoc'.marks = d.marks /\ agDoc'.dirty
             /\ Become(d, FALSE) => /\ agDoc' \in AgRooms /\ agDoc'.text = d.text
                                    /\ agDoc'.marks = d.marks /\ ~agDoc'.dirty
  <2>1. d.text \in SUBSET AgWords /\ d.marks \in SUBSET AgOp
    BY <1>2, <1>5
  <2>2. \A x \in BOOLEAN : [text |-> d.text, marks |-> d.marks, dirty |-> x] \in AgRooms
    BY <2>1
  <2>3. ASSUME Become(d, TRUE)
        PROVE  agDoc' \in AgRooms /\ agDoc'.text = d.text /\ agDoc'.marks = d.marks /\ agDoc'.dirty
    <3>1. agDoc' = [text |-> d.text, marks |-> d.marks, dirty |-> TRUE]
      BY <2>3 DEF Become
    <3> QED BY <2>2, <3>1
  <2>4. ASSUME Become(d, FALSE)
        PROVE  agDoc' \in AgRooms /\ agDoc'.text = d.text /\ agDoc'.marks = d.marks /\ ~agDoc'.dirty
    <3>1. agDoc' = [text |-> d.text, marks |-> d.marks, dirty |-> FALSE]
      BY <2>4 DEF Become
    <3> QED BY <2>2, <3>1
  <2> QED BY <2>3, <2>4
<1> QED BY <1>1, <1>2, <1>3, <1>4, <1>5

\* What each way to write a row makes of its fields.
LEMMA AgRowChanges ==
  ASSUME AgTypes, agCall.op \in AgOp
  PROVE  /\ \A o \in AgOp : agRow[o] \in AgRecords /\ agRow[o].status \in AgStatuses /\ agRow[o].before \subseteq AgWords
         /\ \A st \in AgStatuses : Settled(st) =>
              /\ agRow' \in [AgOp -> AgRecords] /\ agSlot' = AgNone /\ agRow'[agCall.op].status = st
              /\ \A o \in AgOp \ {agCall.op} : agRow'[o] = agRow[o]
         /\ agRow' = [agRow EXCEPT ![agCall.op].peak = TRUE] =>
              /\ agRow' \in [AgOp -> AgRecords]
              /\ \A o \in AgOp : agRow'[o].status = agRow[o].status /\ agRow'[o].before = agRow[o].before
         /\ agRow' = [agRow EXCEPT ![agCall.op] = [status |-> "prepared", before |-> agDoc.text, peak |-> FALSE]] =>
              /\ agRow' \in [AgOp -> AgRecords]
              /\ agRow'[agCall.op].status = "prepared" /\ agRow'[agCall.op].before = agDoc.text
              /\ \A o \in AgOp \ {agCall.op} : agRow'[o] = agRow[o]
         /\ \A d \in AgDocs \cup {AgNone} : agBackup' = [agBackup EXCEPT ![agCall.op] = d] =>
              /\ agBackup' \in [AgOp -> AgDocs \cup {AgNone}]
              /\ agBackup'[agCall.op] = d /\ \A o \in AgOp \ {agCall.op} : agBackup'[o] = agBackup[o]
<1> USE DEF AgTypes
<1>1. \A o \in AgOp : agRow[o] \in AgRecords /\ agRow[o].status \in AgStatuses /\ agRow[o].before \subseteq AgWords
  BY DEF AgRecords
<1>2. ASSUME NEW st \in AgStatuses, Settled(st)
      PROVE  /\ agRow' \in [AgOp -> AgRecords] /\ agSlot' = AgNone /\ agRow'[agCall.op].status = st
             /\ \A o \in AgOp \ {agCall.op} : agRow'[o] = agRow[o]
  <2>1. [agRow[agCall.op] EXCEPT !.status = st] \in AgRecords /\ [agRow[agCall.op] EXCEPT !.status = st].status = st
    BY <1>1 DEF AgRecords
  <2> QED BY <1>2, <2>1 DEF Settled
<1>3. ASSUME agRow' = [agRow EXCEPT ![agCall.op].peak = TRUE]
      PROVE  /\ agRow' \in [AgOp -> AgRecords]
             /\ \A o \in AgOp : agRow'[o].status = agRow[o].status /\ agRow'[o].before = agRow[o].before
  <2>1. PICK r : r = [agRow[agCall.op] EXCEPT !.peak = TRUE]
    OBVIOUS
  <2>2. r \in AgRecords /\ r.status = agRow[agCall.op].status /\ r.before = agRow[agCall.op].before
    BY <1>1, <2>1 DEF AgRecords
  <2>3. agRow' = [agRow EXCEPT ![agCall.op] = r]
    BY <1>3, <2>1
  <2> QED BY <2>2, <2>3
<1>4. ASSUME agRow' = [agRow EXCEPT ![agCall.op] = [status |-> "prepared", before |-> agDoc.text, peak |-> FALSE]]
      PROVE  /\ agRow' \in [AgOp -> AgRecords]
             /\ agRow'[agCall.op].status = "prepared" /\ agRow'[agCall.op].before = agDoc.text
             /\ \A o \in AgOp \ {agCall.op} : agRow'[o] = agRow[o]
  <2>1. PICK r : r = [status |-> "prepared", before |-> agDoc.text, peak |-> FALSE]
    OBVIOUS
  <2>2. r \in AgRecords /\ r.status = "prepared" /\ r.before = agDoc.text
    BY <2>1 DEF AgRecords, AgStatuses, AgRooms
  <2> QED BY <1>4, <2>1, <2>2
<1>5. ASSUME NEW d \in AgDocs \cup {AgNone}, agBackup' = [agBackup EXCEPT ![agCall.op] = d]
      PROVE  /\ agBackup' \in [AgOp -> AgDocs \cup {AgNone}]
             /\ agBackup'[agCall.op] = d /\ \A o \in AgOp \ {agCall.op} : agBackup'[o] = agBackup[o]
  BY <1>5
<1> QED BY <1>1, <1>2, <1>3, <1>4, <1>5

\* What a step makes of the room's document and of the journal, field by field.
RoomIs(text, marks) == agDoc' \in AgRooms /\ agDoc'.text = text /\ agDoc'.marks = marks
JournalIs(text, marks) == agDurable' \in AgDocs /\ agDurable'.text = text /\ agDurable'.marks = marks
JournalStays == agDurable' = agDurable

\* A document that is put in the room or the journal, by its fields.
LEMMA AgRoomIs ==
  ASSUME AgTypes, NEW t \in SUBSET AgWords, NEW m \in SUBSET AgOp
  PROVE  /\ Become(Doc(t, m), TRUE) => RoomIs(t, m) /\ agDoc'.dirty
         /\ Become(Doc(t, m), FALSE) => RoomIs(t, m) /\ ~agDoc'.dirty
         /\ agDurable' = Doc(t, m) => JournalIs(t, m)
<1>1. PICK d : d = Doc(t, m)
  OBVIOUS
<1>2. d \in AgDocs /\ d.text = t /\ d.marks = m
  BY <1>1, AgDocChanges
<1> QED BY <1>1, <1>2, AgDocChanges DEF RoomIs, JournalIs

\* What each step does to the documents, field by field.
LEMMA AgPatchDoes ==
  ASSUME AgTypes, agCall.op \in AgOp, AgPatch
  PROVE  /\ UNCHANGED <<agRow, agSlot, agCancel, agRights, agDurable, agBackup, agRoom, agAcked, agFaults>>
         /\ AgAt("patch")
         /\ \/ AgStep("write") /\ RoomIs(agDoc.text \union {agCall.op}, {agCall.op}) /\ agDoc'.dirty
            \/ AgStep("abort") /\ agDoc' = agDoc
<1>1. agDoc.text \union {agCall.op} \in SUBSET AgWords /\ {agCall.op} \in SUBSET AgOp
  BY AgDocChanges DEF AgWords
<1> QED BY <1>1, AgRoomIs DEF AgPatch

\* The same of the write.
LEMMA AgWriteDoes ==
  ASSUME AgTypes, agCall.op \in AgOp, AgWrite
  PROVE  /\ UNCHANGED <<agRow, agSlot, agCancel, agRights, agBackup, agRoom, agAcked, agFaults>>
         /\ AgAt("write")
         /\ \/ /\ AgStep("commit") /\ JournalIs(agDoc.text, agDoc.marks)
               /\ RoomIs(agDoc.text, agDoc.marks) /\ ~agDoc'.dirty
            \/ /\ AgStep("restore") /\ agDoc' = agDoc
               /\ JournalIs(agDoc.text, agDoc.marks) \/ JournalStays
            \/ /\ AgStep("abort") /\ JournalStays /\ agDoc'.dirty
               /\ RoomIs(agDoc.text \ {agCall.op}, agDoc.marks \ {agCall.op})
<1>1. agDoc.text \in SUBSET AgWords /\ agDoc.marks \in SUBSET AgOp
      /\ agDoc.text \ {agCall.op} \in SUBSET AgWords /\ agDoc.marks \ {agCall.op} \in SUBSET AgOp
  BY AgDocChanges
<1>2. AgContent = Doc(agDoc.text, agDoc.marks)
  BY DEF AgContent
<1> QED BY <1>1, <1>2, AgRoomIs DEF AgWrite, JournalStays

\* The same of putting the backup back.
LEMMA AgRestoreDoes ==
  ASSUME AgTypes, agCall.op \in AgOp, AgRestore
  PROVE  /\ UNCHANGED <<agRow, agSlot, agCancel, agRights, agBackup, agAcked, agFaults>>
         /\ AgAt("restore")
         /\ RoomIs(agBackup[agCall.op].text, agBackup[agCall.op].marks)
         /\ \/ /\ AgStep("abort") /\ UNCHANGED agRoom
               /\ JournalIs(agBackup[agCall.op].text, agBackup[agCall.op].marks) /\ ~agDoc'.dirty
            \/ /\ Fence \/ Withdrawing
               /\ JournalIs(agBackup[agCall.op].text, agBackup[agCall.op].marks) \/ JournalStays
               /\ agDoc'.dirty
<1>1. PICK b : b = agBackup[agCall.op]
  OBVIOUS
<1>2. b \in AgDocs /\ b.text \in SUBSET AgWords /\ b.marks \in SUBSET AgOp
  BY <1>1, AgDocChanges DEF AgTypes, AgRestore
<1>3. b = Doc(b.text, b.marks)
  BY <1>2 DEF Doc, AgDocs
<1> QED BY <1>1, <1>2, <1>3, AgRoomIs DEF AgRestore, JournalStays

\* The same of taking the text out again.
LEMMA AgUnpatchDoes ==
  ASSUME AgTypes, agCall.op \in AgOp, AgUnpatch
  PROVE  /\ UNCHANGED <<agRow, agSlot, agCancel, agRights, agBackup, agAcked, agFaults>>
         /\ AgAt("unpatch") /\ RoomIs(agRow[agCall.op].before, agDoc.marks)
         /\ \/ /\ AgStep("close") /\ ~agDoc'.dirty /\ UNCHANGED agRoom
               /\ JournalIs(agRow[agCall.op].before, agDoc.marks)
            \/ /\ Fence /\ agDoc'.dirty
               /\ JournalIs(agRow[agCall.op].before, agDoc.marks) \/ JournalStays
<1>1. agRow[agCall.op].before \in SUBSET AgWords /\ agDoc.marks \in SUBSET AgOp
  BY AgDocChanges, AgRowChanges
<1> QED BY <1>1, AgRoomIs DEF AgUnpatch, JournalStays

\* The same of loading the room.
LEMMA AgLoadDoes ==
  ASSUME AgTypes, AgLoad
  PROVE  /\ UNCHANGED <<agRow, agSlot, agCancel, agRights, agDurable, agBackup, agAcked, agFaults>>
         /\ agRoom = "out" /\ RoomIs(agDurable.text, agDurable.marks) /\ ~agDoc'.dirty
         /\ \/ agSlot = AgNone /\ agRoom' = "live" /\ UNCHANGED agCall
            \/ agSlot # AgNone /\ agRoom' = "load" /\ agCall' = [op |-> agSlot, how |-> "load", pc |-> "recheck"]
<1>1. agDurable.text \in SUBSET AgWords /\ agDurable.marks \in SUBSET AgOp
  BY AgDocChanges DEF AgTypes
<1>2. agDurable = Doc(agDurable.text, agDurable.marks)
  BY DEF Doc, AgDocs, AgTypes
<1> QED BY <1>1, <1>2, AgRoomIs DEF AgLoad

\* The same of the save of the room.
LEMMA AgSweepDoes ==
  ASSUME AgTypes, AgSweep
  PROVE  /\ UNCHANGED <<agRow, agSlot, agCancel, agRights, agBackup, agRoom, agCall, agFaults>>
         /\ agRoom = "live" /\ agDoc.dirty /\ ~CheckpointHeld
         /\ RoomIs(agDoc.text, agDoc.marks) /\ ~agDoc'.dirty /\ JournalIs(agDoc.text, agDoc.marks)
         /\ agAcked' = agAcked \union (agDoc.text \cap AgEdit)
<1>1. agDoc.text \in SUBSET AgWords /\ agDoc.marks \in SUBSET AgOp
  BY AgDocChanges
<1>2. AgContent = Doc(agDoc.text, agDoc.marks)
  BY DEF AgContent
<1> QED BY <1>1, <1>2, AgRoomIs DEF AgSweep

\* The same of an edit.
LEMMA AgPersonEditsDoes ==
  ASSUME AgTypes, NEW e \in AgEdit, AgPersonEdits(e)
  PROVE  /\ UNCHANGED <<agRow, agSlot, agCancel, agRights, agDurable, agBackup, agRoom, agCall, agAcked, agFaults>>
         /\ agRoom = "live" /\ AgFree
         /\ RoomIs(agDoc.text \union {e}, agDoc.marks) /\ agDoc'.dirty
<1>1. agDoc.text \union {e} \in SUBSET AgWords /\ agDoc.marks \in SUBSET AgOp
  BY AgDocChanges DEF AgWords
<1> QED BY <1>1, AgRoomIs DEF AgPersonEdits

\* The same of leaving the room.
LEMMA AgLeaveDoes ==
  ASSUME AgTypes, AgLeave
  PROVE  /\ UNCHANGED <<agRow, agSlot, agCancel, agRights, agDurable, agBackup, agAcked, agFaults>>
         /\ (agRoom # "out" /\ "crash" \in agFaults) \/ (agRoom = "fenced" /\ ~agDoc.dirty)
         /\ agRoom' = "out" /\ agCall' = AgNoCall /\ RoomIs({}, {}) /\ ~agDoc'.dirty
<1>1. {} \in SUBSET AgWords /\ {} \in SUBSET AgOp
  OBVIOUS
<1> QED BY <1>1, AgRoomIs DEF AgLeave, Fails

\* What the hypothesis says of the failures of this behaviour.
LEMMA AgFailuresMeet ==
  ASSUME AgFailuresApart, AgTypes
  PROVE  /\ "commit" \in agFaults \/ "regrant" \in agFaults => ~AgStops
         /\ "crash" \in agFaults \/ "drop" \in agFaults \/ "catalog" \in agFaults => AgStops
         /\ "drop" \in agFaults => "revoke" \notin agFaults
BY DEF AgFailuresApart, AgTypes, AgStops, AgStopping

\* The failures of a behaviour are chosen once.
LEMMA AgFaultsStay == ASSUME [AgNext]_agVars PROVE agFaults' = agFaults
BY DEF AgNext, agVars, AgApply, AgRecover, AgCancelOperation, AgRevoke, AgPrepare, AgReserve, AgPutBackup, AgPatch, AgWrite, AgRestore, AgAbort, AgCommit, AgReread, AgUnpatch, AgClose, AgRecheck, AgRepeak, AgSettle, AgLoad, AgSweep, AgDrop, AgLeave, AgPersonEdits

\* Every step keeps the types.
LEMMA AgTypesKept ==
  ASSUME AgFailuresApart, AgInv, [AgNext]_agVars
  PROVE  AgTypes'
<1>0. AgTypes /\ CallIsSound
  BY DEF AgInv
<1>s. agFaults' = agFaults /\ (AgStops' <=> AgStops)
  BY AgFaultsStay DEF AgStops
<1>c. ~AgFree => agCall.op \in AgOp
  BY <1>0 DEF CallIsSound
<1> USE <1>0, <1>c, <1>s, AgAssumption, AgCallChanges, AgRowChanges, AgDocChanges, AgFailuresMeet DEF AgInv, CallIsSound, AgFree, AgAt, OnLoad, Fails, NoFault, AgReturn, Fence, Withdrawing, Fail, Marked, CheckpointHeld, Refused, Applies, AppliesTo, Is, ApplySteps, LoadSteps, AgHows, AgSteps, AgStatuses, agVars, agCatalogue, RoomIs, JournalIs, JournalStays
<1>1. ASSUME NEW o \in AgOp, AgApply(o) PROVE AgTypes'
  BY <1>1 DEF AgApply, AgTypes
<1>2. ASSUME NEW o \in AgOp, AgRecover(o) PROVE AgTypes'
  <2>1. agCall' \in AgCalls /\ agCall'.op = o /\ agCall'.how = "recover" /\ agCall'.pc = "recheck"
    BY <1>2 DEF AgRecover
  <2>2. /\ UNCHANGED <<agRow, agSlot, agCancel, agRights, agDurable, agBackup, agRoom, agDoc, agAcked, agFaults>>
        /\ agRoom = "live" /\ agRow[o].status = "prepared" /\ agCall = AgNoCall
    BY <1>2 DEF AgRecover
  <2> QED BY <2>1, <2>2 DEF AgTypes
<1>3. ASSUME NEW o \in AgOp, AgCancelOperation(o) PROVE AgTypes'
  BY <1>3 DEF AgCancelOperation, AgTypes, Answer
<1>4. ASSUME NEW o \in AgOp, AgRevoke(o) PROVE AgTypes'
  <2>1. agRights' \in [AgOp -> BOOLEAN]
    <3>1. agRights' = [agRights EXCEPT ![o] = FALSE] \/ agRights' = [agRights EXCEPT ![o] = TRUE]
      BY <1>4 DEF AgRevoke
    <3>2. agRights \in [AgOp -> BOOLEAN]
      BY DEF AgTypes
    <3> QED BY <3>1, <3>2
  <2> QED BY <1>4, <2>1 DEF AgRevoke, AgTypes
<1>5. CASE AgPrepare
  BY <1>5 DEF AgPrepare, AgTypes
<1>6. CASE AgReserve
  BY <1>6 DEF AgReserve, AgTypes
<1>7. CASE AgPutBackup
  BY <1>7 DEF AgPutBackup, AgTypes
<1>8. CASE AgPatch
  <2>1. agCall.op \in AgOp
    BY <1>8 DEF AgPatch, AgNoCall
  <2> QED BY <1>8, <2>1, AgPatchDoes DEF AgTypes
<1>9. CASE AgWrite
  <2>1. agCall.op \in AgOp
    BY <1>9 DEF AgWrite, AgNoCall
  <2> QED BY <1>9, <2>1, AgWriteDoes DEF AgTypes
<1>10. CASE AgRestore
  <2>1. agCall.op \in AgOp
    BY <1>10 DEF AgRestore, AgNoCall
  <2> QED BY <1>10, <2>1, AgRestoreDoes DEF AgTypes
<1>11. CASE AgAbort
  BY <1>11 DEF AgAbort, AgTypes
<1>12. CASE AgCommit
  BY <1>12 DEF AgCommit, AgTypes
<1>13. CASE AgReread
  BY <1>13 DEF AgReread, AgTypes
<1>14. CASE AgUnpatch
  <2>1. agCall.op \in AgOp
    BY <1>14 DEF AgUnpatch, AgNoCall
  <2> QED BY <1>14, <2>1, AgUnpatchDoes DEF AgTypes
<1>15. CASE AgClose
  BY <1>15 DEF AgClose, AgTypes
<1>16. CASE AgRecheck
  BY <1>16 DEF AgRecheck, AgTypes
<1>17. CASE AgRepeak
  BY <1>17 DEF AgRepeak, AgTypes
<1>18. CASE AgSettle
  BY <1>18 DEF AgSettle, AgTypes
<1>19. CASE AgLoad
  BY <1>19, AgLoadDoes DEF AgTypes
<1>20. CASE AgSweep
  BY <1>20, AgSweepDoes DEF AgTypes
<1>21. CASE AgDrop
  BY <1>21 DEF AgDrop, AgTypes
<1>22. CASE AgLeave
  BY <1>22, AgLeaveDoes DEF AgTypes
<1>23. ASSUME NEW e \in AgEdit, AgPersonEdits(e) PROVE AgTypes'
  BY <1>23, AgPersonEditsDoes DEF AgTypes
<1>24. CASE UNCHANGED agVars
  BY <1>24 DEF AgTypes, DocIsSound, NothingStops, PreparedIsSound, SafeText, BackupIsGood, StepIsSound, AgCancelAnswersHold
<1> QED BY <1>1, <1>2, <1>3, <1>4, <1>5, <1>6, <1>7, <1>8, <1>9, <1>10, <1>11, <1>12, <1>13, <1>14, <1>15, <1>16, <1>17, <1>18, <1>19, <1>20, <1>21, <1>22, <1>23, <1>24 DEF AgNext

\* Every step keeps the place of the call.
LEMMA AgCallIsSoundKept ==
  ASSUME AgFailuresApart, AgInv, [AgNext]_agVars
  PROVE  CallIsSound'
<1>0. AgTypes /\ CallIsSound
  BY DEF AgInv
<1>s. agFaults' = agFaults /\ (AgStops' <=> AgStops)
  BY AgFaultsStay DEF AgStops
<1>c. ~AgFree => agCall.op \in AgOp
  BY <1>0 DEF CallIsSound
<1> USE <1>0, <1>c, <1>s, AgAssumption, AgCallChanges, AgRowChanges, AgFailuresMeet DEF AgInv, CallIsSound, AgFree, AgAt, OnLoad, Fails, NoFault, AgReturn, Fence, Withdrawing, Fail, Marked, CheckpointHeld, Refused, Applies, AppliesTo, Is, ApplySteps, LoadSteps, AgHows, AgSteps, AgStatuses, agVars, agCatalogue, RoomIs, JournalIs, JournalStays
<1>1. ASSUME NEW o \in AgOp, AgApply(o) PROVE CallIsSound'
  BY <1>1 DEF AgApply, NothingStops
<1>2. ASSUME NEW o \in AgOp, AgRecover(o) PROVE CallIsSound'
  BY <1>2 DEF AgRecover, NothingStops
<1>3. ASSUME NEW o \in AgOp, AgCancelOperation(o) PROVE CallIsSound'
  BY <1>3 DEF AgCancelOperation, NothingStops, Answer
<1>4. ASSUME NEW o \in AgOp, AgRevoke(o) PROVE CallIsSound'
  BY <1>4 DEF AgRevoke, NothingStops
<1>5. CASE AgPrepare
  BY <1>5 DEF AgPrepare, NothingStops
<1>6. CASE AgReserve
  BY <1>6 DEF AgReserve, NothingStops
<1>7. CASE AgPutBackup
  BY <1>7 DEF AgPutBackup, NothingStops
<1>8. CASE AgPatch
  <2>1. agCall.op \in AgOp
    BY <1>8 DEF AgPatch, AgNoCall
  <2> QED BY <1>8, <2>1, AgPatchDoes DEF NothingStops
<1>9. CASE AgWrite
  <2>1. agCall.op \in AgOp
    BY <1>9 DEF AgWrite, AgNoCall
  <2> QED BY <1>9, <2>1, AgWriteDoes DEF NothingStops
<1>10. CASE AgRestore
  <2>1. agCall.op \in AgOp
    BY <1>10 DEF AgRestore, AgNoCall
  <2> QED BY <1>10, <2>1, AgRestoreDoes DEF NothingStops
<1>11. CASE AgAbort
  BY <1>11 DEF AgAbort, NothingStops
<1>12. CASE AgCommit
  BY <1>12 DEF AgCommit, NothingStops
<1>13. CASE AgReread
  BY <1>13 DEF AgReread, NothingStops
<1>14. CASE AgUnpatch
  <2>1. agCall.op \in AgOp
    BY <1>14 DEF AgUnpatch, AgNoCall
  <2> QED BY <1>14, <2>1, AgUnpatchDoes DEF NothingStops
<1>15. CASE AgClose
  BY <1>15 DEF AgClose, NothingStops
<1>16. CASE AgRecheck
  BY <1>16 DEF AgRecheck, NothingStops
<1>17. CASE AgRepeak
  BY <1>17 DEF AgRepeak, NothingStops
<1>18. CASE AgSettle
  BY <1>18 DEF AgSettle, NothingStops
<1>19. CASE AgLoad
  <2>1. CASE agSlot = AgNone
    BY <1>19, <2>1, AgLoadDoes
  <2>2. CASE agSlot # AgNone
    <3>1. agSlot \in AgOp /\ Is(agSlot, "prepared")
      BY <2>2 DEF AgTypes
    <3>2. agCall' \in AgCalls /\ agCall'.op = agSlot /\ agCall'.how = "load" /\ agCall'.pc = "recheck"
      BY <1>19, <2>2, <3>1, AgLoadDoes
    <3> QED BY <1>19, <2>2, <3>1, <3>2, AgLoadDoes
  <2> QED BY <2>1, <2>2
<1>20. CASE AgSweep
  BY <1>20, AgSweepDoes DEF NothingStops
<1>21. CASE AgDrop
  BY <1>21 DEF AgDrop, NothingStops
<1>22. CASE AgLeave
  BY <1>22, AgLeaveDoes DEF NothingStops
<1>23. ASSUME NEW e \in AgEdit, AgPersonEdits(e) PROVE CallIsSound'
  BY <1>23, AgPersonEditsDoes DEF NothingStops
<1>24. CASE UNCHANGED agVars
  BY <1>24 DEF AgTypes, DocIsSound, NothingStops, PreparedIsSound, SafeText, BackupIsGood, StepIsSound, AgCancelAnswersHold
<1> QED BY <1>1, <1>2, <1>3, <1>4, <1>5, <1>6, <1>7, <1>8, <1>9, <1>10, <1>11, <1>12, <1>13, <1>14, <1>15, <1>16, <1>17, <1>18, <1>19, <1>20, <1>21, <1>22, <1>23, <1>24 DEF AgNext

\* Every step keeps what the documents hold.
LEMMA AgDocIsSoundKept ==
  ASSUME AgFailuresApart, AgInv, [AgNext]_agVars
  PROVE  DocIsSound'
<1>0. AgTypes /\ CallIsSound
  BY DEF AgInv
<1>s. agFaults' = agFaults /\ (AgStops' <=> AgStops)
  BY AgFaultsStay DEF AgStops
<1>c. ~AgFree => agCall.op \in AgOp
  BY <1>0 DEF CallIsSound
<1> USE <1>0, <1>c, <1>s, AgAssumption, AgCallChanges, AgRowChanges, AgDocChanges, AgFailuresMeet DEF AgInv, CallIsSound, AgFree, AgAt, OnLoad, Fails, NoFault, AgReturn, Fence, Withdrawing, Fail, Marked, CheckpointHeld, Refused, Applies, AppliesTo, Is, ApplySteps, LoadSteps, AgHows, AgSteps, AgStatuses, agVars, agCatalogue, RoomIs, JournalIs, JournalStays
<1>1. ASSUME NEW o \in AgOp, AgApply(o) PROVE DocIsSound'
  BY <1>1 DEF AgApply, DocIsSound, AgCancelAnswersHold, AgTypes
<1>2. ASSUME NEW o \in AgOp, AgRecover(o) PROVE DocIsSound'
  <2>1. agCall' \in AgCalls /\ agCall'.op = o /\ agCall'.how = "recover" /\ agCall'.pc = "recheck"
    BY <1>2 DEF AgRecover
  <2>2. /\ UNCHANGED <<agRow, agSlot, agCancel, agRights, agDurable, agBackup, agRoom, agDoc, agAcked, agFaults>>
        /\ agRoom = "live" /\ agRow[o].status = "prepared" /\ agCall = AgNoCall
    BY <1>2 DEF AgRecover
  <2> QED BY <2>1, <2>2 DEF DocIsSound, AgCancelAnswersHold
<1>3. ASSUME NEW o \in AgOp, AgCancelOperation(o) PROVE DocIsSound'
  BY <1>3 DEF AgCancelOperation, DocIsSound, AgCancelAnswersHold, AgTypes, StepIsSound, PreparedIsSound, SafeText, BackupIsGood, Answer
<1>4. ASSUME NEW o \in AgOp, AgRevoke(o) PROVE DocIsSound'
  BY <1>4 DEF AgRevoke, DocIsSound, AgCancelAnswersHold, AgTypes, StepIsSound, PreparedIsSound, SafeText, BackupIsGood
<1>5. CASE AgPrepare
  BY <1>5 DEF AgPrepare, DocIsSound, AgCancelAnswersHold, AgTypes, StepIsSound, PreparedIsSound, SafeText, BackupIsGood
<1>6. CASE AgReserve
  BY <1>6 DEF AgReserve, DocIsSound, AgCancelAnswersHold, AgTypes, StepIsSound, PreparedIsSound, SafeText, BackupIsGood
<1>7. CASE AgPutBackup
  BY <1>7 DEF AgPutBackup, DocIsSound, AgCancelAnswersHold, AgTypes, StepIsSound, PreparedIsSound, SafeText, BackupIsGood
<1>8. CASE AgPatch
  <2>1. agCall.op \in AgOp
    BY <1>8 DEF AgPatch, AgNoCall
  <2> QED BY <1>8, <2>1, AgPatchDoes DEF DocIsSound, AgCancelAnswersHold, AgTypes, StepIsSound, PreparedIsSound, SafeText, BackupIsGood
<1>9. CASE AgWrite
  <2>1. agCall.op \in AgOp
    BY <1>9 DEF AgWrite, AgNoCall
  <2> QED BY <1>9, <2>1, AgWriteDoes DEF DocIsSound, AgCancelAnswersHold, AgTypes, StepIsSound, PreparedIsSound, SafeText, BackupIsGood
<1>10. CASE AgRestore
  <2>1. agCall.op \in AgOp
    BY <1>10 DEF AgRestore, AgNoCall
  <2> DEFINE back == agBackup[agCall.op]
  <2>2. /\ SafeText(agCall.op, back.text) /\ agAcked \subseteq back.text /\ agRoom # "out"
        /\ Is(agCall.op, "prepared") /\ \A c \in AgOp : Is(c, "none") => c \notin back.marks
    BY <1>10, <2>1 DEF AgRestore, StepIsSound, BackupIsGood
  <2>3. UNCHANGED <<agRow, agCancel, agAcked>> /\ agDoc'.text = back.text /\ agDoc'.marks = back.marks
    BY <1>10, <2>1, AgRestoreDoes
  <2>4. \/ agDurable'.text = back.text /\ agDurable'.marks = back.marks /\ ~agDoc'.dirty /\ agRoom' = agRoom
        \/ /\ \/ agDurable'.text = back.text /\ agDurable'.marks = back.marks
              \/ agDurable' = agDurable
           /\ agDoc'.dirty /\ agRoom' \notin {"load", "out"}
    BY <1>10, <2>1, <2>2, AgRestoreDoes
  <2> HIDE DEF back
  <2> QED BY <2>2, <2>3, <2>4 DEF DocIsSound, AgCancelAnswersHold, SafeText
<1>11. CASE AgAbort
  BY <1>11 DEF AgAbort, DocIsSound, AgCancelAnswersHold, AgTypes, StepIsSound, PreparedIsSound, SafeText, BackupIsGood
<1>12. CASE AgCommit
  BY <1>12 DEF AgCommit, DocIsSound, AgCancelAnswersHold, AgTypes, StepIsSound, PreparedIsSound, SafeText, BackupIsGood
<1>13. CASE AgReread
  BY <1>13 DEF AgReread, DocIsSound, AgCancelAnswersHold, AgTypes, StepIsSound, PreparedIsSound, SafeText, BackupIsGood
<1>14. CASE AgUnpatch
  <2>1. agCall.op \in AgOp
    BY <1>14 DEF AgUnpatch, AgNoCall
  <2> QED BY <1>14, <2>1, AgUnpatchDoes DEF DocIsSound, AgCancelAnswersHold, AgTypes, StepIsSound, PreparedIsSound, SafeText, BackupIsGood
<1>15. CASE AgClose
  BY <1>15 DEF AgClose, DocIsSound, AgCancelAnswersHold, AgTypes, StepIsSound, PreparedIsSound, SafeText, BackupIsGood
<1>16. CASE AgRecheck
  BY <1>16 DEF AgRecheck, DocIsSound, AgCancelAnswersHold, AgTypes, StepIsSound, PreparedIsSound, SafeText, BackupIsGood
<1>17. CASE AgRepeak
  BY <1>17 DEF AgRepeak, DocIsSound, AgCancelAnswersHold, AgTypes, StepIsSound, PreparedIsSound, SafeText, BackupIsGood
<1>18. CASE AgSettle
  BY <1>18 DEF AgSettle, DocIsSound, AgCancelAnswersHold, AgTypes, StepIsSound, PreparedIsSound, SafeText, BackupIsGood
<1>19. CASE AgLoad
  BY <1>19, AgLoadDoes DEF DocIsSound, AgCancelAnswersHold, AgTypes, StepIsSound, PreparedIsSound, SafeText, BackupIsGood
<1>20. CASE AgSweep
  BY <1>20, AgSweepDoes DEF DocIsSound, AgCancelAnswersHold, AgTypes, StepIsSound, PreparedIsSound, SafeText, BackupIsGood
<1>21. CASE AgDrop
  BY <1>21 DEF AgDrop, DocIsSound, AgCancelAnswersHold, AgTypes, StepIsSound, PreparedIsSound, SafeText, BackupIsGood
<1>22. CASE AgLeave
  BY <1>22, AgLeaveDoes DEF DocIsSound, AgCancelAnswersHold, AgTypes, StepIsSound, PreparedIsSound, SafeText, BackupIsGood
<1>23. ASSUME NEW e \in AgEdit, AgPersonEdits(e) PROVE DocIsSound'
  BY <1>23, AgPersonEditsDoes DEF DocIsSound, AgCancelAnswersHold, AgTypes, StepIsSound, PreparedIsSound, SafeText, BackupIsGood
<1>24. CASE UNCHANGED agVars
  BY <1>24 DEF AgTypes, DocIsSound, NothingStops, PreparedIsSound, SafeText, BackupIsGood, StepIsSound, AgCancelAnswersHold
<1> QED BY <1>1, <1>2, <1>3, <1>4, <1>5, <1>6, <1>7, <1>8, <1>9, <1>10, <1>11, <1>12, <1>13, <1>14, <1>15, <1>16, <1>17, <1>18, <1>19, <1>20, <1>21, <1>22, <1>23, <1>24 DEF AgNext

\* Every step keeps what holds while nothing stops a call.
LEMMA AgNothingStopsKept ==
  ASSUME AgFailuresApart, AgInv, [AgNext]_agVars
  PROVE  NothingStops'
<1>0. AgTypes /\ CallIsSound
  BY DEF AgInv
<1>s. agFaults' = agFaults /\ (AgStops' <=> AgStops)
  BY AgFaultsStay DEF AgStops
<1>c. ~AgFree => agCall.op \in AgOp
  BY <1>0 DEF CallIsSound
<1> USE <1>0, <1>c, <1>s, AgAssumption, AgCallChanges, AgRowChanges, AgDocChanges, AgFailuresMeet DEF AgInv, CallIsSound, AgFree, AgAt, OnLoad, Fails, NoFault, AgReturn, Fence, Withdrawing, Fail, Marked, CheckpointHeld, Refused, Applies, AppliesTo, Is, ApplySteps, LoadSteps, AgHows, AgSteps, AgStatuses, agVars, agCatalogue, RoomIs, JournalIs, JournalStays
<1>1. ASSUME NEW o \in AgOp, AgApply(o) PROVE NothingStops'
  BY <1>1 DEF AgApply, NothingStops, PreparedIsSound
<1>2. ASSUME NEW o \in AgOp, AgRecover(o) PROVE NothingStops'
  BY <1>2 DEF AgRecover, NothingStops, PreparedIsSound
<1>3. ASSUME NEW o \in AgOp, AgCancelOperation(o) PROVE NothingStops'
  BY <1>3 DEF AgCancelOperation, NothingStops, PreparedIsSound, Answer
<1>4. ASSUME NEW o \in AgOp, AgRevoke(o) PROVE NothingStops'
  BY <1>4 DEF AgRevoke, NothingStops, PreparedIsSound
<1>5. CASE AgPrepare
  BY <1>5 DEF AgPrepare, NothingStops, PreparedIsSound
<1>6. CASE AgReserve
  BY <1>6 DEF AgReserve, NothingStops, PreparedIsSound
<1>7. CASE AgPutBackup
  BY <1>7 DEF AgPutBackup, NothingStops, PreparedIsSound
<1>8. CASE AgPatch
  <2>1. agCall.op \in AgOp
    BY <1>8 DEF AgPatch, AgNoCall
  <2> QED BY <1>8, <2>1, AgPatchDoes DEF NothingStops, PreparedIsSound
<1>9. CASE AgWrite
  <2>1. agCall.op \in AgOp
    BY <1>9 DEF AgWrite, AgNoCall
  <2> QED BY <1>9, <2>1, AgWriteDoes DEF NothingStops, PreparedIsSound
<1>10. CASE AgRestore
  <2>1. agCall.op \in AgOp
    BY <1>10 DEF AgRestore, AgNoCall
  <2> QED BY <1>10, <2>1, AgRestoreDoes DEF NothingStops, PreparedIsSound
<1>11. CASE AgAbort
  BY <1>11 DEF AgAbort, NothingStops, PreparedIsSound
<1>12. CASE AgCommit
  BY <1>12 DEF AgCommit, NothingStops, PreparedIsSound
<1>13. CASE AgReread
  BY <1>13 DEF AgReread, NothingStops, PreparedIsSound
<1>14. CASE AgUnpatch
  <2>1. agCall.op \in AgOp
    BY <1>14 DEF AgUnpatch, AgNoCall
  <2> QED BY <1>14, <2>1, AgUnpatchDoes DEF NothingStops, PreparedIsSound
<1>15. CASE AgClose
  BY <1>15 DEF AgClose, NothingStops, PreparedIsSound
<1>16. CASE AgRecheck
  BY <1>16 DEF AgRecheck, NothingStops, PreparedIsSound
<1>17. CASE AgRepeak
  BY <1>17 DEF AgRepeak, NothingStops, PreparedIsSound
<1>18. CASE AgSettle
  BY <1>18 DEF AgSettle, NothingStops, PreparedIsSound
<1>19. CASE AgLoad
  BY <1>19, AgLoadDoes DEF NothingStops, PreparedIsSound
<1>20. CASE AgSweep
  BY <1>20, AgSweepDoes DEF NothingStops, PreparedIsSound
<1>21. CASE AgDrop
  BY <1>21 DEF AgDrop, NothingStops, PreparedIsSound
<1>22. CASE AgLeave
  BY <1>22, AgLeaveDoes DEF NothingStops, PreparedIsSound
<1>23. ASSUME NEW e \in AgEdit, AgPersonEdits(e) PROVE NothingStops'
  BY <1>23, AgPersonEditsDoes DEF NothingStops, PreparedIsSound
<1>24. CASE UNCHANGED agVars
  BY <1>24 DEF AgTypes, DocIsSound, NothingStops, PreparedIsSound, SafeText, BackupIsGood, StepIsSound, AgCancelAnswersHold
<1> QED BY <1>1, <1>2, <1>3, <1>4, <1>5, <1>6, <1>7, <1>8, <1>9, <1>10, <1>11, <1>12, <1>13, <1>14, <1>15, <1>16, <1>17, <1>18, <1>19, <1>20, <1>21, <1>22, <1>23, <1>24 DEF AgNext

\* Every step keeps what is asked of a prepared row.
LEMMA AgPreparedKept ==
  ASSUME AgFailuresApart, AgInv, [AgNext]_agVars
  PROVE  (\A p \in AgOp : Is(p, "prepared") => PreparedIsSound(p))'
<1>0. AgTypes /\ CallIsSound
  BY DEF AgInv
<1>s. agFaults' = agFaults /\ (AgStops' <=> AgStops)
  BY AgFaultsStay DEF AgStops
<1>c. ~AgFree => agCall.op \in AgOp
  BY <1>0 DEF CallIsSound
<1> USE <1>0, <1>c, <1>s, AgAssumption, AgCallChanges, AgRowChanges, AgDocChanges, AgFailuresMeet DEF AgInv, CallIsSound, AgFree, AgAt, OnLoad, Fails, NoFault, AgReturn, Fence, Withdrawing, Fail, Marked, CheckpointHeld, Refused, Applies, AppliesTo, Is, ApplySteps, LoadSteps, AgHows, AgSteps, AgStatuses, agVars, agCatalogue, RoomIs, JournalIs, JournalStays
<1>1. ASSUME NEW o \in AgOp, AgApply(o) PROVE (\A p \in AgOp : Is(p, "prepared") => PreparedIsSound(p))'
  BY <1>1 DEF AgApply, PreparedIsSound, DocIsSound, SafeText, BackupIsGood, StepIsSound, NothingStops
<1>2. ASSUME NEW o \in AgOp, AgRecover(o) PROVE (\A p \in AgOp : Is(p, "prepared") => PreparedIsSound(p))'
  <2>1. agCall' \in AgCalls /\ agCall'.op = o /\ agCall'.how = "recover" /\ agCall'.pc = "recheck"
    BY <1>2 DEF AgRecover
  <2>2. /\ UNCHANGED <<agRow, agSlot, agCancel, agRights, agDurable, agBackup, agRoom, agDoc, agAcked, agFaults>>
        /\ agRoom = "live" /\ agRow[o].status = "prepared" /\ agCall = AgNoCall
    BY <1>2 DEF AgRecover
  <2> QED BY <2>1, <2>2 DEF PreparedIsSound, SafeText, BackupIsGood
<1>3. ASSUME NEW o \in AgOp, AgCancelOperation(o) PROVE (\A p \in AgOp : Is(p, "prepared") => PreparedIsSound(p))'
  BY <1>3 DEF AgCancelOperation, PreparedIsSound, DocIsSound, SafeText, BackupIsGood, StepIsSound, NothingStops, Answer
<1>4. ASSUME NEW o \in AgOp, AgRevoke(o) PROVE (\A p \in AgOp : Is(p, "prepared") => PreparedIsSound(p))'
  <2>1. UNCHANGED <<agRow, agSlot, agCancel, agDurable, agBackup, agRoom, agDoc, agCall, agAcked, agFaults>>
    BY <1>4 DEF AgRevoke
  <2>2. ASSUME NEW p \in AgOp, AgStops, agRights'[p] PROVE agRights[p]
    <3>1. agRights' = [agRights EXCEPT ![o] = FALSE] /\ agRights \in [AgOp -> BOOLEAN]
      BY <1>4, <2>2 DEF AgRevoke, AgTypes
    <3> QED BY <2>2, <3>1
  <2>3. ASSUME NEW p \in AgOp, Is(p, "prepared")' PROVE PreparedIsSound(p)'
    <3>1. PreparedIsSound(p)
      BY <2>1, <2>3
    <3>2. AgStops => (Refused(p) => Refused(p)')
      BY <2>1, <2>2
    <3>3. "drop" \notin agFaults =>
            (agRoom = "live" /\ p \in agDurable.marks /\ ~AppliesTo(p) => ~agRights'[p])
      BY <2>1, <2>2, <3>1 DEF PreparedIsSound
    <3> QED BY <2>1, <3>1, <3>2, <3>3 DEF PreparedIsSound, SafeText, BackupIsGood
  <2> QED BY <2>3
<1>5. CASE AgPrepare
  <2>1. agCall.op \in AgOp /\ Is(agCall.op, "none") /\ agRoom # "out" /\ agRoom # "load" /\ Applies
    BY <1>5 DEF AgPrepare, AgNoCall
  <2>2. UNCHANGED <<agCancel, agRights, agDurable, agBackup, agDoc, agAcked, agFaults>>
    BY <1>5 DEF AgPrepare
  <2>3. CASE agSlot = AgNone
    <3>0. PICK q \in AgOp : q = agCall.op
      BY <2>1
    <3>1. /\ agRow'[q].status = "prepared" /\ agRow'[q].before = agDoc.text
          /\ \A o \in AgOp \ {q} : agRow'[o] = agRow[o]
      BY <1>5, <2>1, <2>3, <3>0 DEF AgPrepare
    <3>2. agCall'.pc = "reserve" /\ agCall'.how = agCall.how /\ agRoom' = agRoom /\ agCall'.op = q
      BY <1>5, <2>1, <2>3, <3>0 DEF AgPrepare
    <3>3. ASSUME NEW p \in AgOp, Is(p, "prepared")' PROVE p = q
      BY <2>3, <3>1, <3>3
    <3>5. q \notin agDoc.marks \cup agDurable.marks \cup agDoc.text \cup agDurable.text
      BY <2>1, <3>0 DEF DocIsSound
    <3>4. SafeText(q, agRow[q].before)'
      <4>1. ASSUME NEW c \in AgOp, agRow'[c].status = "committed" PROVE c \in agDoc.text
        BY <2>1, <3>1, <4>1 DEF DocIsSound
      <4>2. ASSUME NEW c \in AgOp, c = q \/ agRow'[c].status = "none" \/ agRow'[c].status = "aborted"
            PROVE  c \notin agDoc.text
        BY <2>1, <3>1, <3>5, <4>2 DEF DocIsSound
      <4> QED BY <3>1, <4>1, <4>2 DEF SafeText
    <3>6. PreparedIsSound(q)'
      BY <2>1, <2>2, <3>2, <3>4, <3>5 DEF PreparedIsSound
    <3> QED BY <3>3, <3>6
  <2>4. CASE agSlot # AgNone
    <3>1. agCall' = AgNoCall /\ agRoom' = agRoom /\ UNCHANGED <<agRow, agSlot>>
      BY <1>5, <2>1, <2>4 DEF AgPrepare
    <3>2. ASSUME NEW p \in AgOp, Is(p, "prepared")' PROVE PreparedIsSound(p)'
      <4>1. PreparedIsSound(p) /\ p # agCall.op
        BY <2>1, <3>1, <3>2
      <4>2. agCall.pc = "prepare"
        BY <1>5 DEF AgPrepare
      <4> QED BY <2>1, <2>2, <3>1, <4>1, <4>2 DEF PreparedIsSound, SafeText, BackupIsGood
    <3> QED BY <3>2
  <2> QED BY <2>3, <2>4
<1>6. CASE AgReserve
  BY <1>6 DEF AgReserve, PreparedIsSound, DocIsSound, SafeText, BackupIsGood, StepIsSound, NothingStops
<1>7. CASE AgPutBackup
  BY <1>7 DEF AgPutBackup, PreparedIsSound, DocIsSound, SafeText, BackupIsGood, StepIsSound, NothingStops
<1>8. CASE AgPatch
  <2>1. agCall.op \in AgOp
    BY <1>8 DEF AgPatch, AgNoCall
  <2> QED BY <1>8, <2>1, AgPatchDoes DEF PreparedIsSound, DocIsSound, SafeText, BackupIsGood, StepIsSound, NothingStops
<1>9. CASE AgWrite
  <2>1. agCall.op \in AgOp
    BY <1>9 DEF AgWrite, AgNoCall
  <2> QED BY <1>9, <2>1, AgWriteDoes DEF PreparedIsSound, DocIsSound, SafeText, BackupIsGood, StepIsSound, NothingStops
<1>10. CASE AgRestore
  <2>1. agCall.op \in AgOp
    BY <1>10 DEF AgRestore, AgNoCall
  <2>2. PICK q \in AgOp : q = agCall.op
    BY <2>1
  <2> DEFINE back == agBackup[q]
  <2>3. SafeText(q, back.text) /\ agAcked \subseteq back.text /\ q \notin back.marks /\ BackupIsGood(q)
    BY <1>10, <2>2 DEF AgRestore, StepIsSound, BackupIsGood
  <2>4. agRoom \in {"live", "load"} /\ Is(q, "prepared") /\ agCall.pc = "restore"
    BY <1>10, <2>1, <2>2 DEF AgRestore, AgTypes
  <2>5. UNCHANGED <<agRow, agSlot, agCancel, agRights, agBackup, agAcked, agFaults>>
        /\ agDoc'.text = back.text /\ agDoc'.marks = back.marks
    BY <1>10, <2>1, <2>2, AgRestoreDoes
  <2>6. \/ /\ agDurable'.text = back.text /\ agDurable'.marks = back.marks /\ ~agDoc'.dirty /\ agRoom' = agRoom
           /\ agCall'.pc = "abort" /\ agCall'.how = agCall.how /\ agCall'.op = q
        \/ /\ \/ agDurable'.text = back.text /\ agDurable'.marks = back.marks
              \/ agDurable' = agDurable
           /\ agDoc'.dirty /\ agCall' = AgNoCall
           /\ agRoom' = "fenced" \/ (agRoom' = "live" /\ ~Applies)
    BY <1>10, <2>1, <2>2, <2>4, AgRestoreDoes
  <2>7. PreparedIsSound(q) /\ q \notin back.text
    BY <2>3, <2>4 DEF SafeText
  <2> HIDE DEF back
  <2>8. PreparedIsSound(q)'
    <3>1. SafeText(q, agRow[q].before)' /\ (BackupIsGood(q) => BackupIsGood(q)')
      BY <2>5, <2>7 DEF PreparedIsSound, SafeText, BackupIsGood
    <3>2. agBackup'[q] # AgNone
      BY <2>3, <2>5 DEF BackupIsGood
    <3>3. CASE agRoom' = "live" /\ agCall' = AgNoCall /\ ~Applies
      <4>1. AgStops /\ agCall.how \in {"retry", "recover", "load"}
        BY <2>4, <3>3, AgCallChanges DEF NothingStops, AgNoCall
      <4>2. ~agRights[q]
        BY <1>10, <2>2, <2>4, <3>3 DEF StepIsSound, AgRestore
      <4>3. "drop" \notin agFaults
        BY <4>2 DEF NothingStops
      <4> QED BY <2>3, <2>5, <2>6, <2>7, <3>1, <3>2, <3>3, <4>1, <4>2, <4>3 DEF PreparedIsSound
    <3>4. CASE agRoom' = "fenced" /\ agCall' = AgNoCall
      BY <2>3, <2>4, <2>5, <2>6, <2>7, <3>1, <3>2, <3>4 DEF PreparedIsSound
    <3>5. CASE agCall'.pc = "abort"
      BY <2>3, <2>4, <2>5, <2>6, <2>7, <3>1, <3>2, <3>5 DEF PreparedIsSound
    <3> QED BY <2>6, <3>3, <3>4, <3>5
  <2>9. \A p \in AgOp : Is(p, "prepared")' => p = q
    BY <2>4, <2>5
  <2> QED BY <2>8, <2>9
<1>11. CASE AgAbort
  BY <1>11 DEF AgAbort, PreparedIsSound, DocIsSound, SafeText, BackupIsGood, StepIsSound, NothingStops
<1>12. CASE AgCommit
  BY <1>12 DEF AgCommit, PreparedIsSound, DocIsSound, SafeText, BackupIsGood, StepIsSound, NothingStops
<1>13. CASE AgReread
  BY <1>13 DEF AgReread, PreparedIsSound, DocIsSound, SafeText, BackupIsGood, StepIsSound, NothingStops
<1>14. CASE AgUnpatch
  <2>1. agCall.op \in AgOp
    BY <1>14 DEF AgUnpatch, AgNoCall
  <2> QED BY <1>14, <2>1, AgUnpatchDoes DEF PreparedIsSound, DocIsSound, SafeText, BackupIsGood, StepIsSound, NothingStops
<1>15. CASE AgClose
  BY <1>15 DEF AgClose, PreparedIsSound, DocIsSound, SafeText, BackupIsGood, StepIsSound, NothingStops
<1>16. CASE AgRecheck
  BY <1>16 DEF AgRecheck, PreparedIsSound, DocIsSound, SafeText, BackupIsGood, StepIsSound, NothingStops
<1>17. CASE AgRepeak
  BY <1>17 DEF AgRepeak, PreparedIsSound, DocIsSound, SafeText, BackupIsGood, StepIsSound, NothingStops
<1>18. CASE AgSettle
  BY <1>18 DEF AgSettle, PreparedIsSound, DocIsSound, SafeText, BackupIsGood, StepIsSound, NothingStops
<1>19. CASE AgLoad
  BY <1>19, AgLoadDoes DEF PreparedIsSound, DocIsSound, SafeText, BackupIsGood, StepIsSound, NothingStops
<1>20. CASE AgSweep
  BY <1>20, AgSweepDoes DEF PreparedIsSound, DocIsSound, SafeText, BackupIsGood, StepIsSound, NothingStops
<1>21. CASE AgDrop
  BY <1>21 DEF AgDrop, PreparedIsSound, DocIsSound, SafeText, BackupIsGood, StepIsSound, NothingStops
<1>22. CASE AgLeave
  BY <1>22, AgLeaveDoes DEF PreparedIsSound, DocIsSound, SafeText, BackupIsGood, StepIsSound, NothingStops
<1>23. ASSUME NEW e \in AgEdit, AgPersonEdits(e) PROVE (\A p \in AgOp : Is(p, "prepared") => PreparedIsSound(p))'
  BY <1>23, AgPersonEditsDoes DEF PreparedIsSound, DocIsSound, SafeText, BackupIsGood, StepIsSound, NothingStops
<1>24. CASE UNCHANGED agVars
  BY <1>24 DEF AgTypes, DocIsSound, NothingStops, PreparedIsSound, SafeText, BackupIsGood, StepIsSound, AgCancelAnswersHold
<1> QED BY <1>1, <1>2, <1>3, <1>4, <1>5, <1>6, <1>7, <1>8, <1>9, <1>10, <1>11, <1>12, <1>13, <1>14, <1>15, <1>16, <1>17, <1>18, <1>19, <1>20, <1>21, <1>22, <1>23, <1>24 DEF AgNext

\* Every step leaves the call what its next step relies on.
LEMMA AgStepKept ==
  ASSUME AgFailuresApart, AgInv, [AgNext]_agVars
  PROVE  (~AgFree => StepIsSound(agCall.op))'
<1>0. AgTypes /\ CallIsSound
  BY DEF AgInv
<1>s. agFaults' = agFaults /\ (AgStops' <=> AgStops)
  BY AgFaultsStay DEF AgStops
<1>c. ~AgFree => agCall.op \in AgOp
  BY <1>0 DEF CallIsSound
<1> USE <1>0, <1>c, <1>s, AgAssumption, AgCallChanges, AgRowChanges, AgDocChanges, AgFailuresMeet DEF AgInv, CallIsSound, AgFree, AgAt, OnLoad, Fails, NoFault, AgReturn, Fence, Withdrawing, Fail, Marked, CheckpointHeld, Refused, Applies, AppliesTo, Is, ApplySteps, LoadSteps, AgHows, AgSteps, AgStatuses, agVars, agCatalogue, RoomIs, JournalIs, JournalStays
<1>1. ASSUME NEW o \in AgOp, AgApply(o) PROVE (~AgFree => StepIsSound(agCall.op))'
  BY <1>1 DEF AgApply, PreparedIsSound, DocIsSound, SafeText, BackupIsGood, StepIsSound, NothingStops
<1>2. ASSUME NEW o \in AgOp, AgRecover(o) PROVE (~AgFree => StepIsSound(agCall.op))'
  BY <1>2 DEF AgRecover, PreparedIsSound, DocIsSound, SafeText, BackupIsGood, StepIsSound, NothingStops
<1>3. ASSUME NEW o \in AgOp, AgCancelOperation(o) PROVE (~AgFree => StepIsSound(agCall.op))'
  BY <1>3 DEF AgCancelOperation, PreparedIsSound, DocIsSound, SafeText, BackupIsGood, StepIsSound, NothingStops, Answer
<1>4. ASSUME NEW o \in AgOp, AgRevoke(o) PROVE (~AgFree => StepIsSound(agCall.op))'
  <2>1. UNCHANGED <<agRow, agSlot, agCancel, agDurable, agBackup, agRoom, agDoc, agCall, agAcked, agFaults>>
    BY <1>4 DEF AgRevoke
  <2>2. PICK q : q = agCall.op
    OBVIOUS
  <2>3. ASSUME ~AgFree PROVE StepIsSound(q)'
    <3>1. StepIsSound(q) /\ q \in AgOp
      BY <2>2, <2>3
    <3>2. Applies \/ (agRights'[q] => agRights[q])
      <4>1. CASE AgStops
        <5>1. agRights' = [agRights EXCEPT ![o] = FALSE] /\ agRights \in [AgOp -> BOOLEAN]
          BY <1>4, <4>1 DEF AgRevoke, AgTypes
        <5> QED BY <3>1, <5>1
      <4>2. CASE ~AgStops
        BY <2>3, <4>2 DEF NothingStops
      <4> QED BY <4>1, <4>2
    <3> QED BY <2>1, <3>1, <3>2 DEF StepIsSound, BackupIsGood, SafeText
  <2> QED BY <2>1, <2>2, <2>3
<1>5. CASE AgPrepare
  BY <1>5 DEF AgPrepare, PreparedIsSound, DocIsSound, SafeText, BackupIsGood, StepIsSound, NothingStops
<1>6. CASE AgReserve
  BY <1>6 DEF AgReserve, PreparedIsSound, DocIsSound, SafeText, BackupIsGood, StepIsSound, NothingStops
<1>7. CASE AgPutBackup
  BY <1>7 DEF AgPutBackup, PreparedIsSound, DocIsSound, SafeText, BackupIsGood, StepIsSound, NothingStops
<1>8. CASE AgPatch
  <2>1. agCall.op \in AgOp
    BY <1>8 DEF AgPatch, AgNoCall
  <2> QED BY <1>8, <2>1, AgPatchDoes DEF PreparedIsSound, DocIsSound, SafeText, BackupIsGood, StepIsSound, NothingStops
<1>9. CASE AgWrite
  <2>1. agCall.op \in AgOp
    BY <1>9 DEF AgWrite, AgNoCall
  <2> QED BY <1>9, <2>1, AgWriteDoes DEF PreparedIsSound, DocIsSound, SafeText, BackupIsGood, StepIsSound, NothingStops
<1>10. CASE AgRestore
  <2>1. agCall.op \in AgOp
    BY <1>10 DEF AgRestore, AgNoCall
  <2> QED BY <1>10, <2>1, AgRestoreDoes DEF PreparedIsSound, DocIsSound, SafeText, BackupIsGood, StepIsSound, NothingStops
<1>11. CASE AgAbort
  BY <1>11 DEF AgAbort, PreparedIsSound, DocIsSound, SafeText, BackupIsGood, StepIsSound, NothingStops
<1>12. CASE AgCommit
  BY <1>12 DEF AgCommit, PreparedIsSound, DocIsSound, SafeText, BackupIsGood, StepIsSound, NothingStops
<1>13. CASE AgReread
  BY <1>13 DEF AgReread, PreparedIsSound, DocIsSound, SafeText, BackupIsGood, StepIsSound, NothingStops
<1>14. CASE AgUnpatch
  <2>1. agCall.op \in AgOp
    BY <1>14 DEF AgUnpatch, AgNoCall
  <2> QED BY <1>14, <2>1, AgUnpatchDoes DEF PreparedIsSound, DocIsSound, SafeText, BackupIsGood, StepIsSound, NothingStops
<1>15. CASE AgClose
  BY <1>15 DEF AgClose, PreparedIsSound, DocIsSound, SafeText, BackupIsGood, StepIsSound, NothingStops
<1>16. CASE AgRecheck
  <2>1. UNCHANGED <<agRow, agSlot, agCancel, agRights, agDurable, agBackup, agDoc, agAcked, agFaults>>
    BY <1>16 DEF AgRecheck
  <2>2. PICK q \in AgOp : q = agCall.op
    BY <1>16 DEF AgRecheck, AgNoCall
  <2>3. /\ Is(q, "prepared") /\ PreparedIsSound(q) /\ agCall.pc = "recheck" /\ ~Applies
        /\ agCall.how \in {"retry", "recover", "load"} /\ AgStops /\ agRoom \in {"live", "load"}
    BY <1>16, <2>2 DEF AgRecheck, NothingStops, AgTypes
  <2>4. CASE AgStep("abort")
    <3>1. q \notin agDurable.marks /\ (OnLoad \/ ~agRights[q])
      BY <1>16, <2>2, <2>4 DEF AgRecheck
    <3>2. q \notin agDoc.marks
      BY <2>3, <3>1 DEF PreparedIsSound, NothingStops, DocIsSound
    <3> QED BY <2>1, <2>2, <2>3, <2>4, <3>1, <3>2 DEF StepIsSound, PreparedIsSound
  <2>5. CASE AgStep("restore")
    <3>1. BackupIsGood(q) /\ ~agRights[q]
      BY <1>16, <2>2, <2>3, <2>5 DEF AgRecheck, PreparedIsSound, NothingStops
    <3>2. BackupIsGood(q)'
      BY <2>1, <3>1 DEF BackupIsGood, SafeText
    <3> QED BY <2>1, <2>2, <2>3, <2>5, <3>1, <3>2 DEF StepIsSound
  <2>6. CASE AgStep("repeak")
    BY <2>3, <2>6 DEF StepIsSound
  <2>7. CASE AgStep("settle")
    <3>1. q \in agDurable.marks /\ (OnLoad \/ "drop" \in agFaults)
      BY <1>16, <2>2, <2>3, <2>7 DEF AgRecheck, PreparedIsSound
    <3> QED BY <2>1, <2>2, <2>3, <2>7, <3>1 DEF StepIsSound
  <2>8. CASE agCall' = [agCall EXCEPT !.how = "apply", !.pc = "backup"]
    <3>1. agDoc.text = agRow[q].before /\ q \notin agDurable.marks
      BY <1>16, <2>2, <2>8 DEF AgRecheck
    <3>2. q \notin agDoc.marks
      BY <2>3, <3>1 DEF PreparedIsSound, SafeText
    <3>3. agAcked \subseteq agRow[q].before
      BY <2>3, <3>1 DEF DocIsSound
    <3> QED BY <2>1, <2>2, <2>3, <2>8, <3>1, <3>2, <3>3 DEF StepIsSound
  <2>9. CASE AgReturn
    BY <2>9
  <2> QED BY <1>16, <2>4, <2>5, <2>6, <2>7, <2>8, <2>9 DEF AgRecheck
<1>17. CASE AgRepeak
  BY <1>17 DEF AgRepeak, PreparedIsSound, DocIsSound, SafeText, BackupIsGood, StepIsSound, NothingStops
<1>18. CASE AgSettle
  BY <1>18 DEF AgSettle, PreparedIsSound, DocIsSound, SafeText, BackupIsGood, StepIsSound, NothingStops
<1>19. CASE AgLoad
  BY <1>19, AgLoadDoes DEF PreparedIsSound, DocIsSound, SafeText, BackupIsGood, StepIsSound, NothingStops
<1>20. CASE AgSweep
  BY <1>20, AgSweepDoes DEF PreparedIsSound, DocIsSound, SafeText, BackupIsGood, StepIsSound, NothingStops
<1>21. CASE AgDrop
  BY <1>21 DEF AgDrop, PreparedIsSound, DocIsSound, SafeText, BackupIsGood, StepIsSound, NothingStops
<1>22. CASE AgLeave
  BY <1>22, AgLeaveDoes DEF PreparedIsSound, DocIsSound, SafeText, BackupIsGood, StepIsSound, NothingStops
<1>23. ASSUME NEW e \in AgEdit, AgPersonEdits(e) PROVE (~AgFree => StepIsSound(agCall.op))'
  BY <1>23, AgPersonEditsDoes DEF PreparedIsSound, DocIsSound, SafeText, BackupIsGood, StepIsSound, NothingStops
<1>24. CASE UNCHANGED agVars
  BY <1>24 DEF AgTypes, DocIsSound, NothingStops, PreparedIsSound, SafeText, BackupIsGood, StepIsSound, AgCancelAnswersHold
<1> QED BY <1>1, <1>2, <1>3, <1>4, <1>5, <1>6, <1>7, <1>8, <1>9, <1>10, <1>11, <1>12, <1>13, <1>14, <1>15, <1>16, <1>17, <1>18, <1>19, <1>20, <1>21, <1>22, <1>23, <1>24 DEF AgNext

\* The initial state has the invariant.
LEMMA AgInitSound == AgInit => AgInv
<1> SUFFICES ASSUME AgInit PROVE AgInv
  OBVIOUS
<1>1. AgTypes
  <2>1. Doc({}, {}) \in AgDocs /\ [text |-> {}, marks |-> {}, dirty |-> FALSE] \in AgRooms
    BY DEF Doc, AgDocs, AgRooms
  <2>2. [status |-> "none", before |-> {}, peak |-> FALSE] \in AgRecords
    BY DEF AgRecords, AgStatuses
  <2>3. AgNoCall \in AgCalls
    BY DEF AgNoCall, AgCalls
  <2> QED BY <2>1, <2>2, <2>3 DEF AgInit, AgTypes
<1>2. agDoc.text = {} /\ agDoc.marks = {} /\ agDurable.text = {} /\ agDurable.marks = {}
  BY DEF AgInit, Doc
<1>3. /\ \A o \in AgOp : agRow[o].status = "none" /\ agCancel[o] = "none" /\ agRights[o]
      /\ agCall = AgNoCall /\ agRoom = "live" /\ agAcked = {} /\ agSlot = AgNone
  BY DEF AgInit
<1>4. AgNoCall.op = AgNone /\ AgNoCall.how = "idle" /\ AgNoCall.pc = "idle"
  BY DEF AgNoCall
<1>5. CallIsSound
  BY <1>3, <1>4, AgAssumption DEF CallIsSound, AgFree, AgAt, OnLoad, Is, Applies
<1>6. DocIsSound
  BY <1>2, <1>3 DEF DocIsSound, Is, AgCancelAnswersHold
<1>7. NothingStops /\ AgFree /\ \A o \in AgOp : ~Is(o, "prepared")
  BY <1>3, <1>4 DEF NothingStops, AgFree, Is
<1> QED BY <1>1, <1>5, <1>6, <1>7 DEF AgInv

\* The invariant of agent operations holds in every state the code reaches when the
\* failures that contradict each other do not meet (room/agent.rs: apply, retry, recover).
THEOREM AgInvariant == ASSUME AgFailuresApart PROVE AgSpec => []AgInv
<1>1. AgInv /\ [AgNext]_agVars => AgInv'
  BY AgTypesKept, AgCallIsSoundKept, AgDocIsSoundKept, AgNothingStopsKept, AgPreparedKept, AgStepKept DEF AgInv
<1> QED BY <1>1, AgInitSound, PTL DEF AgSpec

\* What a row of catalog_operations says of an operation is true of the room's text
\* and of its journal, and no edit acknowledged beside it is discarded.
THEOREM AgRowsTrue == ASSUME AgFailuresApart PROVE AgSpec => []AgRowsAreTrue
<1>1. AgInv => AgRowsAreTrue
  BY DEF AgInv, AgRowsAreTrue, AgEditsSurvive, AgCommittedIsDurable, AgAbortedIsUndone, DocIsSound, PreparedIsSound, Is
<1> QED BY <1>1, AgInvariant, PTL

---------------------------------------------------------------------------
\* Sums: a function without one of its arguments, its value there or zero, and
\* the functions that have a sum.
Without(f, x) == [y \in DOMAIN f \ {x} |-> f[y]]
ValueAt(f, x) == IF x \in DOMAIN f THEN f[x] ELSE 0
Summable(f) == IsFiniteSet(DOMAIN f) /\ \A x \in DOMAIN f : f[x] \in Nat

\* The units of one value, and those of a sum.
UnitsOf(x, n) == {x} \X (1 .. n)
Units(f) == UNION {UnitsOf(x, f[x]) : x \in DOMAIN f}

\* A value is as many units.
LEMMA UnitsCounted ==
  ASSUME NEW x, NEW n \in Nat
  PROVE  IsFiniteSet(UnitsOf(x, n)) /\ Cardinality(UnitsOf(x, n)) = n
<1>1. IsFiniteSet({x}) /\ Cardinality({x}) = 1
  BY FS_Singleton
<1>2. IsFiniteSet(1 .. n) /\ Cardinality(1 .. n) = n
  BY FS_Interval
<1>3. /\ IsFiniteSet({x} \X (1 .. n))
      /\ Cardinality({x} \X (1 .. n)) = Cardinality({x}) * Cardinality(1 .. n)
  BY <1>1, <1>2, FS_Product
<1>. QED  BY <1>1, <1>2, <1>3 DEF UnitsOf

\* A sum has finitely many units, and is their number.
LEMMA UnitsFinite ==
  ASSUME NEW f, Summable(f)
  PROVE  IsFiniteSet(Units(f)) /\ Total(f) = Cardinality(Units(f)) /\ Total(f) \in Nat
<1>. DEFINE g == [x \in DOMAIN f |-> UnitsOf(x, f[x])]
            T == {UnitsOf(x, f[x]) : x \in DOMAIN f}
<1>1. g \in Surjection(DOMAIN f, T)
  BY DEF Surjection
<1>2. IsFiniteSet(T)
  BY <1>1, FS_Surjection DEF Summable
<1>3. \A U \in T : IsFiniteSet(U)
  BY UnitsCounted DEF Summable
<1>4. IsFiniteSet(UNION T)
  BY <1>2, <1>3, FS_UNION
<1>5. Total(f) = Cardinality(Units(f))
  BY DEF Total, Units, UnitsOf
<1>. QED  BY <1>4, <1>5, FS_CardinalityType DEF Units

\* A sum is the sum without one argument and the value there.
LEMMA TotalSplits ==
  ASSUME NEW f, NEW x, Summable(f)
  PROVE  Summable(Without(f, x)) /\ Total(f) = Total(Without(f, x)) + ValueAt(f, x)
<1>. DEFINE g == Without(f, x)
<1>1. DOMAIN g = DOMAIN f \ {x} /\ \A y \in DOMAIN g : g[y] = f[y]
  BY DEF Without
<1>2. Summable(g)
  BY <1>1, FS_RemoveElement DEF Summable
<1>3. CASE x \in DOMAIN f
  <2>1. Units(f) = Units(g) \cup UnitsOf(x, f[x])
    BY <1>1, <1>3 DEF Units
  <2>2. Units(g) \cap UnitsOf(x, f[x]) = {}
    BY <1>1 DEF Units, UnitsOf
  <2>3. f[x] \in Nat
    BY <1>3 DEF Summable
  <2>4. /\ IsFiniteSet(UnitsOf(x, f[x])) /\ Cardinality(UnitsOf(x, f[x])) = f[x]
    BY <2>3, UnitsCounted
  <2>5. IsFiniteSet(Units(g)) /\ Total(g) = Cardinality(Units(g)) /\ Total(g) \in Nat
    BY <1>2, UnitsFinite
  <2>6. Cardinality(Units(f)) = Cardinality(Units(g)) + f[x] - Cardinality({})
    BY <2>1, <2>2, <2>4, <2>5, FS_Union
  <2>7. Cardinality({}) = 0
    BY FS_EmptySet
  <2>8. Total(f) = Cardinality(Units(f))
    BY UnitsFinite
  <2>. QED  BY <1>2, <1>3, <2>3, <2>5, <2>6, <2>7, <2>8 DEF ValueAt
<1>4. CASE x \notin DOMAIN f
  <2>1. Units(g) = Units(f)
    BY <1>1, <1>4 DEF Units
  <2>. QED  BY <1>2, <1>4, <2>1, UnitsFinite DEF ValueAt
<1>. QED  BY <1>3, <1>4

\* Two functions that differ at one argument differ in sum by the values there.
LEMMA TotalChanges ==
  ASSUME NEW f, NEW g, NEW x, Summable(f), Summable(g), Without(f, x) = Without(g, x)
  PROVE  /\ Total(f) \in Nat /\ Total(g) \in Nat
         /\ ValueAt(f, x) \in Nat /\ ValueAt(g, x) \in Nat
         /\ Total(g) + ValueAt(f, x) = Total(f) + ValueAt(g, x)
<1>1. ValueAt(f, x) \in Nat /\ ValueAt(g, x) \in Nat
  BY DEF ValueAt, Summable
<1>2. /\ Total(f) = Total(Without(f, x)) + ValueAt(f, x)
      /\ Total(g) = Total(Without(g, x)) + ValueAt(g, x)
      /\ Summable(Without(f, x))
  BY TotalSplits
<1>3. Total(Without(f, x)) \in Nat
  BY <1>2, UnitsFinite
<1>. QED  BY <1>1, <1>2, <1>3

\* Nothing sums up to nothing.
LEMMA TotalOfNothing ==
  ASSUME NEW f, DOMAIN f = {}
  PROVE  Total(f) = 0
<1>1. UNION {{x} \X (1 .. f[x]) : x \in DOMAIN f} = {}
  OBVIOUS
<1>. QED  BY <1>1, FS_EmptySet DEF Total

---------------------------------------------------------------------------
\* The headroom the ledger and the reservations hold.
LedgerMeta(ledger) == Total([k \in DOMAIN ledger |-> ledger[k].meta])
HeldMeta(rs) == Total([r \in rs |-> r.meta])

\* A ledger, and a set of reservations.
IsLedger(ledger) ==
  /\ IsFiniteSet(DOMAIN ledger)
  /\ \A k \in DOMAIN ledger : ledger[k].bytes \in Nat /\ ledger[k].meta \in Nat
BytesAt(ledger, k) == IF k \in DOMAIN ledger THEN ledger[k].bytes ELSE 0
MetaAt(ledger, k) == IF k \in DOMAIN ledger THEN ledger[k].meta ELSE 0
IsReserved(rs) ==
  /\ IsFiniteSet(rs)
  /\ \A r \in rs : r.old \in Nat /\ r.new \in Nat /\ r.meta \in Nat

\* Ledgers that differ at one key hold as much more as the entry does.
LEMMA LedgerChanges ==
  ASSUME NEW l, NEW m, NEW k, IsLedger(l), IsLedger(m),
         DOMAIN l \ {k} = DOMAIN m \ {k},
         \A j \in DOMAIN l \ {k} : l[j] = m[j]
  PROVE  /\ LedgerBytes(l) \in Nat /\ LedgerBytes(m) \in Nat
         /\ LedgerMeta(l) \in Nat /\ LedgerMeta(m) \in Nat
         /\ LedgerBytes(m) = LedgerBytes(l) + BytesAt(m, k) - BytesAt(l, k)
         /\ LedgerMeta(m) = LedgerMeta(l) + MetaAt(m, k) - MetaAt(l, k)
<1>. DEFINE lb == [j \in DOMAIN l |-> l[j].bytes]
            mb == [j \in DOMAIN m |-> m[j].bytes]
            lm == [j \in DOMAIN l |-> l[j].meta]
            mm == [j \in DOMAIN m |-> m[j].meta]
<1>1. Summable(lb) /\ Summable(mb) /\ Summable(lm) /\ Summable(mm)
  BY DEF Summable, IsLedger
<1>2. Without(lb, k) = Without(mb, k) /\ Without(lm, k) = Without(mm, k)
  BY DEF Without
<1>3. /\ ValueAt(lb, k) = BytesAt(l, k) /\ ValueAt(mb, k) = BytesAt(m, k)
      /\ ValueAt(lm, k) = MetaAt(l, k) /\ ValueAt(mm, k) = MetaAt(m, k)
  BY DEF ValueAt, BytesAt, MetaAt
<1>4. /\ LedgerBytes(l) = Total(lb) /\ LedgerBytes(m) = Total(mb)
      /\ LedgerMeta(l) = Total(lm) /\ LedgerMeta(m) = Total(mm)
  BY DEF LedgerBytes, LedgerMeta
<1>. HIDE DEF lb, mb, lm, mm
<1>5. /\ Total(lb) \in Nat /\ Total(mb) \in Nat
      /\ ValueAt(lb, k) \in Nat /\ ValueAt(mb, k) \in Nat
      /\ Total(mb) + ValueAt(lb, k) = Total(lb) + ValueAt(mb, k)
  BY <1>1, <1>2, TotalChanges
<1>6. /\ Total(lm) \in Nat /\ Total(mm) \in Nat
      /\ ValueAt(lm, k) \in Nat /\ ValueAt(mm, k) \in Nat
      /\ Total(mm) + ValueAt(lm, k) = Total(lm) + ValueAt(mm, k)
  BY <1>1, <1>2, TotalChanges
<1>7. /\ Total(mb) = Total(lb) + ValueAt(mb, k) - ValueAt(lb, k)
      /\ Total(mm) = Total(lm) + ValueAt(mm, k) - ValueAt(lm, k)
  BY <1>5, <1>6
<1>. QED  BY <1>3, <1>4, <1>5, <1>6, <1>7

\* Reservations grow by one.
LEMMA ReservationsChange ==
  ASSUME NEW rs, NEW r \in rs, IsReserved(rs)
  PROVE  /\ IsReserved(rs \ {r})
         /\ Growth(rs \ {r}) \in Nat /\ HeldMeta(rs \ {r}) \in Nat
         /\ Growth(rs) = Growth(rs \ {r}) + Positive(r.new - r.old)
         /\ HeldMeta(rs) = HeldMeta(rs \ {r}) + r.meta
<1>. DEFINE g == [s \in rs |-> Positive(s.new - s.old)]
            h == [s \in rs |-> s.meta]
            gr == [s \in rs \ {r} |-> Positive(s.new - s.old)]
            hr == [s \in rs \ {r} |-> s.meta]
<1>1. Summable(g) /\ Summable(h)
  BY DEF Summable, IsReserved, Positive
<1>2. Without(g, r) = gr /\ Without(h, r) = hr
  BY DEF Without
<1>3. ValueAt(g, r) = Positive(r.new - r.old) /\ ValueAt(h, r) = r.meta
  BY DEF ValueAt
<1>4. /\ Growth(rs) = Total(g) /\ HeldMeta(rs) = Total(h)
      /\ Growth(rs \ {r}) = Total(gr) /\ HeldMeta(rs \ {r}) = Total(hr)
  BY DEF Growth, HeldMeta
<1>. HIDE DEF g, h, gr, hr
<1>5. Summable(gr) /\ Total(g) = Total(gr) + ValueAt(g, r)
  BY <1>1, <1>2, TotalSplits
<1>6. Summable(hr) /\ Total(h) = Total(hr) + ValueAt(h, r)
  BY <1>1, <1>2, TotalSplits
<1>7. Total(gr) \in Nat /\ Total(hr) \in Nat
  BY <1>5, <1>6, UnitsFinite
<1>8. IsReserved(rs \ {r})
  BY FS_RemoveElement DEF IsReserved
<1>. QED  BY <1>3, <1>4, <1>5, <1>6, <1>7, <1>8

\* What a ledger and reservations sum up to is a number of bytes.
LEMMA SumsAreNumbers ==
  ASSUME NEW l, NEW rs, IsLedger(l), IsReserved(rs)
  PROVE  /\ LedgerBytes(l) \in Nat /\ LedgerMeta(l) \in Nat
         /\ Growth(rs) \in Nat /\ HeldMeta(rs) \in Nat
<1>. DEFINE lb == [j \in DOMAIN l |-> l[j].bytes]
            lm == [j \in DOMAIN l |-> l[j].meta]
            g == [s \in rs |-> Positive(s.new - s.old)]
            h == [s \in rs |-> s.meta]
<1>1. Summable(lb) /\ Summable(lm) /\ Summable(g) /\ Summable(h)
  BY DEF Summable, IsLedger, IsReserved, Positive
<1>. HIDE DEF lb, lm, g, h
<1>2. Total(lb) \in Nat /\ Total(lm) \in Nat /\ Total(g) \in Nat /\ Total(h) \in Nat
  BY <1>1, UnitsFinite
<1>. QED  BY <1>2 DEF lb, lm, g, h, LedgerBytes, LedgerMeta, Growth, HeldMeta

\* With no headroom anywhere, none is summed up.
LEMMA NoHeadroom ==
  ASSUME NEW f, Summable(f), \A x \in DOMAIN f : f[x] = 0
  PROVE  Total(f) = 0
<1>1. UNION {{x} \X (1 .. f[x]) : x \in DOMAIN f} = {}
  <2>1. \A x \in DOMAIN f : 1 .. f[x] = {}
    OBVIOUS
  <2>. QED  BY <2>1
<1>. QED  BY <1>1, FS_EmptySet DEF Total
---------------------------------------------------------------------------
\* The kinds of the values.
AccTypeOK ==
  /\ accStatus \in {"creating", "active", "deleting", "gone"}
  /\ accSize \in Nat /\ accCounted \in Nat /\ accTotal \in Nat
  /\ accLoose \in BOOLEAN /\ accKnown \in BOOLEAN
  /\ IsLedger(accLedger) /\ IsReserved(accReserved)
  /\ \A q \in DOMAIN accOps :
       accOps[q] \in [status : {"prepared", "committed", "aborted"}, peak : Nat,
                      measured : Nat \cup {-1}]

\* The pending publication is the prepared one, and the document is not being
\* deleted; a document that is gone holds nothing.
PendingIsPrepared ==
  /\ \A q \in accPending : q \in DOMAIN accOps /\ accOps[q].status = "prepared"
  /\ \A q \in DOMAIN accOps : accOps[q].status = "prepared" => accPending = {q}
  /\ accPending # {} => AccLive
  /\ accStatus = "gone" => accCounted = 0 /\ accReserved = {}

\* A reservation is of an object that is not queued for deletion and is as long
\* as it was, or longer; of several of one object, all write the same, and
\* nothing shorter than there was.
ReservedAreSound ==
  /\ \A r \in accReserved :
       r.op \in accUsed /\ r.key \notin accQueued /\ r.old <= OldBytes(r.key)
  /\ \A r, s \in accReserved : r # s /\ r.key = s.key => r.new = s.new /\ r.old <= r.new

\* All that the charge is for, apart from the peak of a publication.
Due ==
  LedgerBytes(accLedger) + LedgerMeta(accLedger) + Growth(accReserved) + HeldMeta(accReserved)

\* The charge covers it and the pending publication's peak, unless it has come
\* apart.
DueIsCharged ==
  AccLive /\ ~accLoose =>
    /\ accCounted >= Due
    /\ \A q \in accPending : accCounted >= Due + accOps[q].peak

\* The inductive invariant of the charge.
AccInv ==
  /\ AccTypeOK /\ AccTotalsMatch /\ AccSizeIsCharged
  /\ PendingIsPrepared /\ ReservedAreSound /\ DueIsCharged

\* What a refund does.
LEMMA ReleaseDoes ==
  ASSUME AccTypeOK, AccTotalsMatch, AccSizeIsCharged, NEW n \in Nat, AccRelease(n)
  PROVE  /\ accCounted' \in Nat /\ accTotal' = accCounted'
         /\ accCounted' >= accSize /\ accCounted' <= accCounted /\ accCounted' >= accCounted - n
<1>1. accSize \in Nat /\ accCounted \in Nat /\ accTotal = accCounted /\ accCounted >= accSize
  BY DEF AccTypeOK, AccTotalsMatch, AccSizeIsCharged
<1>2. /\ accCounted' = accCounted + (-Releasable(n)) /\ accTotal' = accTotal + (-Releasable(n))
  BY DEF AccRelease, AccCharge
<1>3. Releasable(n) \in Nat /\ Releasable(n) <= n /\ Releasable(n) <= accCounted - accSize
  BY <1>1 DEF Releasable, Smaller, Positive
<1>. QED  BY <1>1, <1>2, <1>3

\* The headroom of a reservation and of a charge.
LEMMA HeadroomType ==
  ASSUME NEW k
  PROVE  Headroom \in Nat /\ ReservedMeta(k) \in Nat
<1>1. AccHeadroom \in Nat
  BY AccAssumption
<1>. QED  BY <1>1 DEF Headroom, ReservedMeta

\* A document starts with its peak charged, or with nothing.
LEMMA AccInitOK == AccInit => AccInv
<1>. SUFFICES ASSUME AccInit PROVE AccInv
  OBVIOUS
<1>. USE DEF AccInit
<1>1. DOMAIN accLedger = {} /\ DOMAIN accOps = {} /\ accReserved = {} /\ accPending = {}
  OBVIOUS
<1>2. IsLedger(accLedger) /\ IsReserved(accReserved)
  BY <1>1, FS_EmptySet DEF IsLedger, IsReserved
<1>3. AccBytes \in Nat
  BY AccAssumption
<1>4. AccTypeOK
  BY <1>1, <1>2, <1>3 DEF AccTypeOK
<1>5. AccTotalsMatch /\ AccSizeIsCharged
  BY <1>3 DEF AccTotalsMatch, AccSizeIsCharged
<1>6. PendingIsPrepared /\ ReservedAreSound
  BY <1>1 DEF PendingIsPrepared, ReservedAreSound
<1>7. Due = 0
  <2>1. LedgerBytes(accLedger) = 0 /\ LedgerMeta(accLedger) = 0
    BY <1>1, TotalOfNothing DEF LedgerBytes, LedgerMeta
  <2>2. Growth(accReserved) = 0 /\ HeldMeta(accReserved) = 0
    BY <1>1, TotalOfNothing DEF Growth, HeldMeta
  <2>. QED  BY <2>1, <2>2 DEF Due
<1>8. DueIsCharged
  BY <1>1, <1>3, <1>7 DEF DueIsCharged
<1>. QED  BY <1>4, <1>5, <1>6, <1>8 DEF AccInv

\* What is owed is a number.
LEMMA DueType ==
  ASSUME AccTypeOK
  PROVE  /\ LedgerBytes(accLedger) \in Nat /\ LedgerMeta(accLedger) \in Nat
         /\ Growth(accReserved) \in Nat /\ HeldMeta(accReserved) \in Nat
         /\ Due \in Nat
<1>1. IsLedger(accLedger) /\ IsReserved(accReserved)
  BY DEF AccTypeOK
<1>. QED  BY <1>1, SumsAreNumbers DEF Due

\* Reserving an object's growth.
LEMMA ReserveKeeps ==
  ASSUME AccInv, NEW op, NEW k, NEW new \in Nat, AccReserve(op, k, new), UNCHANGED accKnown
  PROVE  AccInv'
<1>. DEFINE r == [op |-> op, key |-> k, old |-> OldBytes(k), new |-> new, meta |-> ReservedMeta(k)]
<1>. USE DEF AccInv
<1>1. /\ op \notin accUsed /\ accUsed' = accUsed \cup {op} /\ AccLive /\ k \notin accQueued
      /\ \A s \in accReserved : s.key = k => s.new = new /\ OldBytes(k) \in {0, new}
      /\ accReserved' = accReserved \cup {r}
      /\ accCounted' = accCounted + ReserveCharge(k, new)
      /\ accTotal' = accTotal + ReserveCharge(k, new)
      /\ accLoose' = (accLoose \/ accPending # {})
      /\ accStatus' = accStatus /\ accSize' = accSize /\ accPending' = accPending
      /\ accLedger' = accLedger /\ accOps' = accOps /\ accQueued' = accQueued
  BY DEF AccReserve, AccCharge
<1>2. OldBytes(k) \in Nat /\ ReservedMeta(k) \in Nat /\ Headroom \in Nat
  BY HeadroomType DEF OldBytes, AccTypeOK, IsLedger
<1>3. ReserveCharge(k, new) \in Nat
  BY <1>2 DEF ReserveCharge, Positive
<1>4. r.old \in Nat /\ r.new \in Nat /\ r.meta \in Nat /\ r.op = op /\ r.key = k /\ r.new = new
      /\ r.old = OldBytes(k) /\ r.meta = ReservedMeta(k)
  BY <1>2
<1>5. r \notin accReserved
  BY <1>1, <1>4 DEF ReservedAreSound
<1>. HIDE DEF r
<1>6. IsReserved(accReserved')
  <2>1. IsFiniteSet(accReserved \cup {r})
    BY FS_AddElement DEF AccTypeOK, IsReserved
  <2>. QED  BY <1>1, <1>4, <2>1 DEF AccTypeOK, IsReserved
<1>7. AccTypeOK'
  BY <1>1, <1>3, <1>6 DEF AccTypeOK, IsLedger
<1>8. AccTotalsMatch' /\ AccSizeIsCharged'
  BY <1>1, <1>3 DEF AccTotalsMatch, AccSizeIsCharged, AccTypeOK, AccLive
<1>9. PendingIsPrepared'
  BY <1>1 DEF PendingIsPrepared, AccLive
<1>10. ReservedAreSound'
  <2>1. OldBytes(k)' = OldBytes(k) /\ \A j : OldBytes(j)' = OldBytes(j)
    BY <1>1 DEF OldBytes
  <2>2. \A s \in accReserved :
          s.op \in accUsed /\ s.key \notin accQueued /\ s.old <= OldBytes(s.key)
    BY DEF ReservedAreSound
  <2>3. r.op \in accUsed' /\ r.key \notin accQueued' /\ r.old <= OldBytes(r.key)
    BY <1>1, <1>2, <1>4
  <2>4. \A s \in accReserved : s.key = k => s.new = new /\ s.old <= new /\ r.old <= new
    <3>1. TAKE s \in accReserved
    <3>2. HAVE s.key = k
    <3>3. s.old <= OldBytes(k) /\ s.old \in Nat
      BY <3>2, <2>2 DEF AccTypeOK, IsReserved
    <3>. QED  BY <1>1, <1>2, <1>4, <3>2, <3>3
  <2>5. \A s, t \in accReserved : s # t /\ s.key = t.key => s.new = t.new /\ s.old <= s.new
    BY DEF ReservedAreSound
  <2>6. \A s \in accReserved' :
          s.op \in accUsed' /\ s.key \notin accQueued' /\ s.old <= OldBytes(s.key)'
    BY <1>1, <2>1, <2>2, <2>3
  <2>7. \A s, t \in accReserved' : s # t /\ s.key = t.key => s.new = t.new /\ s.old <= s.new
    BY <1>1, <1>4, <2>4, <2>5
  <2>. QED  BY <2>6, <2>7 DEF ReservedAreSound
<1>11. DueIsCharged'
  <2>1. (accReserved' \ {r}) = accReserved /\ r \in accReserved'
    BY <1>1, <1>5
  <2>2. PICK rs : rs = accReserved'
    OBVIOUS
  <2>3. /\ Growth(rs) = Growth(accReserved) + Positive(r.new - r.old)
        /\ HeldMeta(rs) = HeldMeta(accReserved) + r.meta
    <3>1. IsReserved(rs) /\ r \in rs /\ rs \ {r} = accReserved
      BY <1>6, <2>1, <2>2
    <3>. QED  BY <3>1, ReservationsChange
  <2>4. Due' = LedgerBytes(accLedger) + LedgerMeta(accLedger) + Growth(rs) + HeldMeta(rs)
    BY <1>1, <2>2 DEF Due
  <2>5. Due' = Due + Positive(new - OldBytes(k)) + ReservedMeta(k)
    BY <1>2, <1>4, <2>3, <2>4, DueType DEF Due, Positive
  <2>6. CASE accPending # {}
    BY <1>1, <2>6 DEF DueIsCharged, AccTypeOK
  <2>7. CASE accPending = {}
    <3>1. ReserveCharge(k, new) = Positive(new - OldBytes(k)) + ReservedMeta(k)
      BY <1>2, <2>7 DEF ReserveCharge, ReservedMeta, Positive
    <3>2. ~accLoose => accCounted >= Due
      BY <1>1 DEF DueIsCharged
    <3>3. ~accLoose' => ~accLoose
      BY <1>1, <2>7 DEF AccTypeOK
    <3>4. Positive(new - OldBytes(k)) \in Nat
      BY <1>2 DEF Positive
    <3>5. ~accLoose' => accCounted' >= Due'
      BY <1>1, <1>2, <2>5, <3>1, <3>2, <3>3, <3>4, DueType DEF AccTypeOK
    <3>. QED  BY <1>1, <2>7, <3>5 DEF DueIsCharged
  <2>. QED  BY <2>6, <2>7
<1>. QED  BY <1>7, <1>8, <1>9, <1>10, <1>11 DEF AccInv
\* What remains of the reservations is sound while their objects stay.
LEMMA FewerReservations ==
  ASSUME AccInv, NEW r \in accReserved
  PROVE  /\ IsReserved(accReserved \ {r})
         /\ Growth(accReserved \ {r}) \in Nat /\ HeldMeta(accReserved \ {r}) \in Nat
         /\ Growth(accReserved) = Growth(accReserved \ {r}) + Positive(r.new - r.old)
         /\ HeldMeta(accReserved) = HeldMeta(accReserved \ {r}) + r.meta
         /\ r.old \in Nat /\ r.new \in Nat /\ r.meta \in Nat /\ r.old <= OldBytes(r.key)
         /\ accStatus # "gone"
<1>1. IsReserved(accReserved)
  BY DEF AccInv, AccTypeOK
<1>2. r.old \in Nat /\ r.new \in Nat /\ r.meta \in Nat
  BY <1>1 DEF IsReserved
<1>3. r.old <= OldBytes(r.key) /\ accStatus # "gone"
  BY DEF AccInv, ReservedAreSound, PendingIsPrepared
<1>. QED  BY <1>1, <1>2, <1>3, ReservationsChange

\* Committing a reservation.
LEMMA CommitKeeps ==
  ASSUME AccInv, NEW r \in accReserved, AccCommit(r), UNCHANGED accKnown
  PROVE  AccInv'
<1>. DEFINE k == r.key
<1>1. /\ accReserved' = accReserved \ {r}
      /\ accLedger' = [j \in DOMAIN accLedger \cup {k} |->
                         IF j # k THEN accLedger[j]
                         ELSE [bytes |-> r.new, meta |-> r.meta + MetaAt(accLedger, k)]]
      /\ IF accPending = {} /\ r.new < r.old THEN AccRelease(r.old - r.new) ELSE Uncharged
      /\ accStatus' = accStatus /\ accSize' = accSize /\ accPending' = accPending
      /\ accOps' = accOps /\ accUsed' = accUsed /\ accQueued' = accQueued /\ accLoose' = accLoose
  BY DEF AccCommit, MetaAt
<1>2. /\ IsReserved(accReserved \ {r})
      /\ Growth(accReserved \ {r}) \in Nat /\ HeldMeta(accReserved \ {r}) \in Nat
      /\ Growth(accReserved) = Growth(accReserved \ {r}) + Positive(r.new - r.old)
      /\ HeldMeta(accReserved) = HeldMeta(accReserved \ {r}) + r.meta
      /\ r.old \in Nat /\ r.new \in Nat /\ r.meta \in Nat /\ r.old <= OldBytes(k)
      /\ accStatus # "gone"
  BY FewerReservations
<1>3. PICK m : m = accLedger'
  OBVIOUS
<1>4. /\ MetaAt(accLedger, k) \in Nat /\ BytesAt(accLedger, k) \in Nat
      /\ OldBytes(k) = BytesAt(accLedger, k)
  BY DEF MetaAt, BytesAt, OldBytes, AccInv, AccTypeOK, IsLedger
<1>5. /\ DOMAIN m = DOMAIN accLedger \cup {k}
      /\ \A j \in DOMAIN accLedger \ {k} : m[j] = accLedger[j]
      /\ m[k].bytes = r.new /\ m[k].meta = r.meta + MetaAt(accLedger, k)
  BY <1>1, <1>3
<1>6. IsLedger(m)
  <2>1. IsFiniteSet(DOMAIN accLedger \cup {k})
    BY FS_AddElement DEF AccInv, AccTypeOK, IsLedger
  <2>. QED  BY <1>2, <1>4, <1>5, <2>1 DEF AccInv, AccTypeOK, IsLedger
<1>7. /\ LedgerBytes(accLedger) \in Nat /\ LedgerBytes(m) \in Nat
      /\ LedgerMeta(accLedger) \in Nat /\ LedgerMeta(m) \in Nat
      /\ LedgerBytes(m) = LedgerBytes(accLedger) + r.new - OldBytes(k)
      /\ LedgerMeta(m) = LedgerMeta(accLedger) + r.meta
  <2>1. IsLedger(accLedger)
    BY DEF AccInv, AccTypeOK
  <2>2. DOMAIN accLedger \ {k} = DOMAIN m \ {k}
    BY <1>5
  <2>3. BytesAt(m, k) = r.new /\ MetaAt(m, k) = r.meta + MetaAt(accLedger, k)
    BY <1>5 DEF BytesAt, MetaAt
  <2>4. /\ LedgerBytes(accLedger) \in Nat /\ LedgerBytes(m) \in Nat
        /\ LedgerMeta(accLedger) \in Nat /\ LedgerMeta(m) \in Nat
        /\ LedgerBytes(m) = LedgerBytes(accLedger) + BytesAt(m, k) - BytesAt(accLedger, k)
        /\ LedgerMeta(m) = LedgerMeta(accLedger) + MetaAt(m, k) - MetaAt(accLedger, k)
    BY <1>5, <1>6, <2>1, <2>2, LedgerChanges
  <2>. QED  BY <1>2, <1>4, <2>3, <2>4
<1>8. /\ accCounted' \in Nat /\ accTotal' = accCounted' /\ accCounted' >= accSize
      /\ accCounted' >= accCounted - (IF accPending = {} THEN Positive(r.old - r.new) ELSE 0)
  <2>1. AccTypeOK /\ AccTotalsMatch /\ AccSizeIsCharged
    BY DEF AccInv
  <2>2. CASE accPending = {} /\ r.new < r.old
    <3>1. r.old - r.new \in Nat /\ AccRelease(r.old - r.new)
      BY <1>1, <1>2, <2>2
    <3>2. /\ accCounted' \in Nat /\ accTotal' = accCounted' /\ accCounted' >= accSize
          /\ accCounted' >= accCounted - (r.old - r.new)
      BY <2>1, <3>1, ReleaseDoes
    <3>. QED  BY <2>2, <3>1, <3>2 DEF Positive
  <2>3. CASE ~(accPending = {} /\ r.new < r.old)
    BY <1>1, <1>2, <2>1, <2>3 DEF Uncharged, AccTypeOK, AccTotalsMatch, AccSizeIsCharged, Positive
  <2>. QED  BY <2>2, <2>3
<1>9. AccTypeOK'
  BY <1>1, <1>2, <1>3, <1>6, <1>8 DEF AccInv, AccTypeOK
<1>10. AccTotalsMatch' /\ AccSizeIsCharged'
  BY <1>1, <1>2, <1>8 DEF AccTotalsMatch, AccSizeIsCharged
<1>11. PendingIsPrepared'
  BY <1>1, <1>2 DEF AccInv, PendingIsPrepared, AccLive
<1>12. ReservedAreSound'
  <2>1. \A j : j # k => OldBytes(j)' = OldBytes(j)
    BY <1>1 DEF OldBytes
  <2>2. OldBytes(k)' = r.new
    BY <1>1 DEF OldBytes
  <2>3. \A s \in accReserved' :
          s.op \in accUsed' /\ s.key \notin accQueued' /\ s.old <= OldBytes(s.key)'
    <3>1. TAKE s \in accReserved'
    <3>2. s \in accReserved /\ s # r
      BY <1>1
    <3>3. s.op \in accUsed /\ s.key \notin accQueued /\ s.old <= OldBytes(s.key)
      BY <3>2 DEF AccInv, ReservedAreSound
    <3>4. CASE s.key = k
      BY <1>1, <2>2, <3>2, <3>3, <3>4 DEF AccInv, ReservedAreSound
    <3>5. CASE s.key # k
      BY <1>1, <2>1, <3>3, <3>5
    <3>. QED  BY <3>4, <3>5
  <2>. QED  BY <1>1, <2>3 DEF AccInv, ReservedAreSound
<1>13. DueIsCharged'
  <2>1. Due' = LedgerBytes(m) + LedgerMeta(m) + Growth(accReserved \ {r})
                + HeldMeta(accReserved \ {r})
    BY <1>1, <1>3 DEF Due
  <2>2. Due' = Due + r.new - OldBytes(k) - Positive(r.new - r.old) /\ Due \in Nat /\ Due' \in Nat
    BY <1>2, <1>4, <1>7, <2>1 DEF Due, Positive
  <2>3. Due' <= Due - Positive(r.old - r.new)
    BY <1>2, <1>4, <2>2 DEF Positive
  <2>4. accCounted \in Nat /\ \A q \in accPending : accOps[q].peak \in Nat
    BY DEF AccInv, AccTypeOK, PendingIsPrepared
  <2>5. ASSUME AccLive, ~accLoose
        PROVE  /\ accCounted' >= Due'
               /\ \A q \in accPending : accCounted' >= Due' + accOps[q].peak
    <3>1. accCounted >= Due /\ \A q \in accPending : accCounted >= Due + accOps[q].peak
      BY <2>5 DEF AccInv, DueIsCharged
    <3>2. Positive(r.old - r.new) \in Nat
      BY <1>2 DEF Positive
    <3>3. CASE accPending = {}
      BY <1>8, <2>2, <2>3, <2>4, <3>1, <3>2, <3>3
    <3>4. CASE accPending # {}
      <4>1. accCounted' >= accCounted
        BY <1>8, <2>4, <3>4
      <4>. QED  BY <1>8, <2>2, <2>3, <2>4, <3>1, <3>2, <4>1
    <3>. QED  BY <3>3, <3>4
  <2>. QED  BY <1>1, <2>5 DEF DueIsCharged, AccLive
<1>. QED  BY <1>9, <1>10, <1>11, <1>12, <1>13 DEF AccInv

\* Aborting a reservation.
LEMMA AbortKeeps ==
  ASSUME AccInv, NEW r \in accReserved, AccAbort(r), UNCHANGED accKnown
  PROVE  AccInv'
<1>1. /\ accReserved' = accReserved \ {r}
      /\ IF accPending = {} THEN AccRelease(Positive(r.new - r.old) + r.meta) ELSE Uncharged
      /\ accStatus' = accStatus /\ accSize' = accSize /\ accPending' = accPending
      /\ accLedger' = accLedger
      /\ accOps' = accOps /\ accUsed' = accUsed /\ accQueued' = accQueued /\ accLoose' = accLoose
  BY DEF AccAbort
<1>2. /\ IsReserved(accReserved \ {r})
      /\ Growth(accReserved \ {r}) \in Nat /\ HeldMeta(accReserved \ {r}) \in Nat
      /\ Growth(accReserved) = Growth(accReserved \ {r}) + Positive(r.new - r.old)
      /\ HeldMeta(accReserved) = HeldMeta(accReserved \ {r}) + r.meta
      /\ r.old \in Nat /\ r.new \in Nat /\ r.meta \in Nat /\ r.old <= OldBytes(r.key)
      /\ accStatus # "gone"
  BY FewerReservations
<1>. DEFINE n == Positive(r.new - r.old) + r.meta
<1>3. n \in Nat
  BY <1>2 DEF Positive
<1>4. /\ accCounted' \in Nat /\ accTotal' = accCounted' /\ accCounted' >= accSize
      /\ accCounted' >= accCounted - n /\ (accPending # {} => accCounted' = accCounted)
  <2>1. AccTypeOK /\ AccTotalsMatch /\ AccSizeIsCharged
    BY DEF AccInv
  <2>2. CASE accPending = {}
    <3>1. AccRelease(n)
      BY <1>1, <2>2
    <3>. HIDE DEF n
    <3>. QED  BY <1>3, <2>1, <2>2, <3>1, ReleaseDoes
  <2>3. CASE accPending # {}
    BY <1>1, <1>3, <2>1, <2>3 DEF Uncharged, AccTypeOK, AccTotalsMatch, AccSizeIsCharged
  <2>. QED  BY <2>2, <2>3
<1>5. AccTypeOK'
  BY <1>1, <1>2, <1>4 DEF AccInv, AccTypeOK
<1>6. AccTotalsMatch' /\ AccSizeIsCharged'
  BY <1>1, <1>2, <1>4 DEF AccTotalsMatch, AccSizeIsCharged
<1>7. PendingIsPrepared'
  BY <1>1, <1>2 DEF AccInv, PendingIsPrepared, AccLive
<1>8. ReservedAreSound'
  BY <1>1 DEF AccInv, ReservedAreSound, OldBytes
<1>9. DueIsCharged'
  <2>1. Due' = LedgerBytes(accLedger) + LedgerMeta(accLedger) + Growth(accReserved \ {r})
                + HeldMeta(accReserved \ {r})
    BY <1>1 DEF Due
  <2>2. LedgerBytes(accLedger) \in Nat /\ LedgerMeta(accLedger) \in Nat /\ Due \in Nat
    BY DueType DEF AccInv
  <2>3. Due' = Due - n /\ Due' \in Nat /\ accCounted \in Nat
    BY <1>2, <1>3, <2>1, <2>2 DEF Due, Positive, AccInv, AccTypeOK
  <2>4. \A q \in accPending : accOps[q].peak \in Nat
    BY DEF AccInv, AccTypeOK, PendingIsPrepared
  <2>5. ASSUME AccLive, ~accLoose
        PROVE  /\ accCounted' >= Due'
               /\ \A q \in accPending : accCounted' >= Due' + accOps[q].peak
    <3>1. accCounted >= Due /\ \A q \in accPending : accCounted >= Due + accOps[q].peak
      BY <2>5 DEF AccInv, DueIsCharged
    <3>. HIDE DEF n
    <3>. QED  BY <1>3, <1>4, <2>2, <2>3, <2>4, <3>1
  <2>. QED  BY <1>1, <2>5 DEF DueIsCharged, AccLive
<1>. QED  BY <1>5, <1>6, <1>7, <1>8, <1>9 DEF AccInv
\* With the ledger and the reservations unchanged, nothing more is owed.
LEMMA DueStays ==
  ASSUME AccInv, accLedger' = accLedger, accReserved' = accReserved,
         accUsed' = accUsed, accQueued' = accQueued
  PROVE  Due' = Due /\ ReservedAreSound' /\ IsLedger(accLedger)' /\ IsReserved(accReserved)'
<1>1. Due' = Due
  BY DEF Due
<1>2. ReservedAreSound'
  BY DEF AccInv, ReservedAreSound, OldBytes
<1>. QED  BY <1>1, <1>2 DEF AccInv, AccTypeOK

\* Preparing a publication, and reserving its peak.
LEMMA PrepareKeeps ==
  ASSUME AccInv, NEW q, UNCHANGED accKnown,
         AccPrepare(q) \/ \E n \in 1 .. AccBytes : AccReservePeak(q, n)
  PROVE  AccInv'
<1>1. CASE AccPrepare(q)
  <2>1. /\ q \notin DOMAIN accOps /\ AccLive /\ accPending = {}
        /\ accOps' = [p \in DOMAIN accOps \cup {q} |->
              IF p = q THEN [status |-> "prepared", peak |-> 0, measured |-> -1] ELSE accOps[p]]
        /\ accPending' = {q}
        /\ accStatus' = accStatus /\ accSize' = accSize /\ accCounted' = accCounted
        /\ accTotal' = accTotal /\ accLedger' = accLedger /\ accReserved' = accReserved
        /\ accUsed' = accUsed /\ accQueued' = accQueued /\ accLoose' = accLoose
    BY <1>1 DEF AccPrepare
  <2>2. /\ DOMAIN accOps' = DOMAIN accOps \cup {q}
        /\ accOps'[q].status = "prepared" /\ accOps'[q].peak = 0 /\ accOps'[q].measured = -1
        /\ \A p \in DOMAIN accOps : accOps'[p] = accOps[p]
    BY <2>1
  <2>3. Due' = Due /\ ReservedAreSound' /\ IsLedger(accLedger)' /\ IsReserved(accReserved)'
    BY <2>1, DueStays
  <2>4. AccTypeOK'
    BY <2>1, <2>2, <2>3 DEF AccInv, AccTypeOK
  <2>5. AccTotalsMatch' /\ AccSizeIsCharged'
    BY <2>1 DEF AccInv, AccTotalsMatch, AccSizeIsCharged
  <2>6. PendingIsPrepared'
    BY <2>1, <2>2 DEF AccInv, PendingIsPrepared, AccLive
  <2>7. DueIsCharged'
    <3>1. Due \in Nat /\ accCounted \in Nat
      BY DueType DEF AccInv, AccTypeOK
    <3>. QED  BY <2>1, <2>2, <2>3, <3>1 DEF AccInv, DueIsCharged, AccLive
  <2>. QED  BY <2>3, <2>4, <2>5, <2>6, <2>7 DEF AccInv
<1>2. ASSUME NEW n \in 1 .. AccBytes, AccReservePeak(q, n)
      PROVE  AccInv'
  <2>1. /\ accPending = {q} /\ accStatus = "active" /\ accOps[q].peak = 0
        /\ accOps' = [accOps EXCEPT ![q].peak = n]
        /\ accCounted' = accCounted + n /\ accTotal' = accTotal + n
        /\ accStatus' = accStatus /\ accSize' = accSize /\ accPending' = accPending
        /\ accLedger' = accLedger /\ accReserved' = accReserved
        /\ accUsed' = accUsed /\ accQueued' = accQueued /\ accLoose' = accLoose
    BY <1>2 DEF AccReservePeak, AccCharge
  <2>2. q \in DOMAIN accOps /\ accOps[q].status = "prepared" /\ n \in Nat
    BY <2>1, AccAssumption DEF AccInv, PendingIsPrepared
  <2>3. /\ DOMAIN accOps' = DOMAIN accOps
        /\ \A p \in DOMAIN accOps \ {q} : accOps'[p] = accOps[p]
        /\ accOps'[q] = [accOps[q] EXCEPT !.peak = n]
    BY <2>1, <2>2
  <2>4. accOps'[q].peak \in {n, accOps[q].peak} /\ accOps'[q].measured = accOps[q].measured
        /\ accOps'[q].status = accOps[q].status
    BY <2>3
  <2>5. Due' = Due /\ ReservedAreSound' /\ IsLedger(accLedger)' /\ IsReserved(accReserved)'
    BY <2>1, DueStays
  <2>6. AccTypeOK'
    BY <2>1, <2>2, <2>3, <2>4, <2>5 DEF AccInv, AccTypeOK
  <2>7. AccTotalsMatch' /\ AccSizeIsCharged'
    BY <2>1, <2>2 DEF AccInv, AccTotalsMatch, AccSizeIsCharged, AccTypeOK
  <2>8. PendingIsPrepared'
    BY <2>1, <2>2, <2>3, <2>4 DEF AccInv, PendingIsPrepared, AccLive
  <2>9. DueIsCharged'
    <3>1. Due \in Nat /\ accCounted \in Nat
      BY DueType DEF AccInv, AccTypeOK
    <3>. QED  BY <2>1, <2>2, <2>4, <2>5, <3>1 DEF AccInv, DueIsCharged, AccLive
  <2>. QED  BY <2>5, <2>6, <2>7, <2>8, <2>9 DEF AccInv
<1>. QED  BY <1>1, <1>2

\* Staging its measurement.
LEMMA MeasureKeeps ==
  ASSUME AccInv, NEW q, NEW n \in Nat, UNCHANGED accKnown, AccMeasure(q, n)
  PROVE  AccInv'
<1>1. /\ accPending = {q} /\ accOps' = [accOps EXCEPT ![q].measured = n]
      /\ accStatus' = accStatus /\ accSize' = accSize /\ accCounted' = accCounted
      /\ accTotal' = accTotal /\ accPending' = accPending
      /\ accLedger' = accLedger /\ accReserved' = accReserved
      /\ accUsed' = accUsed /\ accQueued' = accQueued /\ accLoose' = accLoose
  BY DEF AccMeasure
<1>2. q \in DOMAIN accOps
  BY <1>1 DEF AccInv, PendingIsPrepared
<1>3. /\ DOMAIN accOps' = DOMAIN accOps
      /\ \A p \in DOMAIN accOps \ {q} : accOps'[p] = accOps[p]
      /\ accOps'[q] = [accOps[q] EXCEPT !.measured = n]
  BY <1>1, <1>2
<1>4. /\ accOps'[q].peak = accOps[q].peak /\ accOps'[q].status = accOps[q].status
      /\ accOps'[q].measured \in {n, accOps[q].measured}
  BY <1>3
<1>5. Due' = Due /\ ReservedAreSound' /\ IsLedger(accLedger)' /\ IsReserved(accReserved)'
  BY <1>1, DueStays
<1>6. AccTypeOK'
  BY <1>1, <1>2, <1>3, <1>4, <1>5 DEF AccInv, AccTypeOK
<1>7. AccTotalsMatch' /\ AccSizeIsCharged'
  BY <1>1 DEF AccInv, AccTotalsMatch, AccSizeIsCharged
<1>8. PendingIsPrepared'
  BY <1>1, <1>3, <1>4 DEF AccInv, PendingIsPrepared, AccLive
<1>9. DueIsCharged'
  BY <1>1, <1>4, <1>5 DEF AccInv, DueIsCharged, AccLive
<1>. QED  BY <1>5, <1>6, <1>7, <1>8, <1>9 DEF AccInv

\* With no headroom held, a measurement that covers the ledger and the
\* reservations covers all that is owed.
LEMMA DueWithoutHeadroom ==
  ASSUME AccInv, ~HeadroomHeld
  PROVE  Due = LedgerBytes(accLedger) + Growth(accReserved)
<1>. DEFINE f == [k \in DOMAIN accLedger |-> accLedger[k].meta]
            g == [r \in accReserved |-> r.meta]
<1>1. Summable(f) /\ Summable(g)
  BY DEF Summable, AccInv, AccTypeOK, IsLedger, IsReserved
<1>2. (\A x \in DOMAIN f : f[x] = 0) /\ (\A x \in DOMAIN g : g[x] = 0)
  BY DEF HeadroomHeld
<1>3. LedgerMeta(accLedger) = Total(f) /\ HeldMeta(accReserved) = Total(g)
  BY DEF LedgerMeta, HeldMeta
<1>. HIDE DEF f, g
<1>4. Total(f) = 0 /\ Total(g) = 0
  BY <1>1, <1>2, NoHeadroom
<1>5. LedgerBytes(accLedger) \in Nat /\ Growth(accReserved) \in Nat
  BY DueType DEF AccInv
<1>. QED  BY <1>3, <1>4, <1>5 DEF Due

\* Committing a publication.
LEMMA PublishKeeps ==
  ASSUME AccInv, NEW q, UNCHANGED accKnown, AccPublish(q)
  PROVE  AccInv'
<1>1. /\ accPending = {q} /\ AccLive /\ accOps' = [accOps EXCEPT ![q].status = "committed"]
      /\ accStatus' = "active" /\ accPending' = {}
      /\ accLedger' = accLedger /\ accReserved' = accReserved
      /\ accUsed' = accUsed /\ accQueued' = accQueued
  BY DEF AccPublish
<1>2. q \in DOMAIN accOps
  BY <1>1 DEF AccInv, PendingIsPrepared
<1>3. /\ DOMAIN accOps' = DOMAIN accOps
      /\ \A p \in DOMAIN accOps \ {q} : accOps'[p] = accOps[p]
      /\ accOps'[q] = [accOps[q] EXCEPT !.status = "committed"]
  BY <1>1, <1>2
<1>4. /\ accOps'[q].peak = accOps[q].peak /\ accOps'[q].measured = accOps[q].measured
      /\ accOps'[q].status = "committed"
      /\ accOps[q].peak \in Nat /\ accOps[q].measured \in Nat \cup {-1}
  BY <1>2, <1>3 DEF AccInv, AccTypeOK
<1>5. Due' = Due /\ ReservedAreSound' /\ IsLedger(accLedger)' /\ IsReserved(accReserved)'
  BY <1>1, DueStays
<1>6. /\ LedgerBytes(accLedger) \in Nat /\ Growth(accReserved) \in Nat
      /\ Due \in Nat /\ accCounted \in Nat /\ accSize \in Nat /\ accTotal = accCounted
      /\ accCounted >= accSize /\ accLoose \in BOOLEAN
  BY DueType DEF AccInv, AccTypeOK, AccTotalsMatch, AccSizeIsCharged
<1>7. /\ accSize' \in Nat /\ accCounted' \in Nat /\ accTotal' = accCounted'
      /\ accCounted' >= accSize' /\ accLoose' \in BOOLEAN
      /\ ~accLoose' => accCounted' >= Due
  <2>1. CASE accOps[q].measured = -1
    <3>1. /\ accCounted' = accCounted /\ accTotal' = accTotal /\ accSize' = accSize
          /\ accLoose' = accLoose
      BY <2>1 DEF AccPublish, Uncharged
    <3>. QED  BY <1>1, <1>6, <3>1 DEF AccInv, DueIsCharged
  <2>2. CASE accOps[q].measured # -1
    <3>1. /\ accSize' = Measured(q) /\ accLoose' = (accReserved # {} \/ HeadroomHeld)
          /\ accCounted' = accCounted + (CountedAt(q) - accCounted)
          /\ accTotal' = accTotal + (CountedAt(q) - accCounted)
      BY <2>2 DEF AccPublish, AccCharge
    <3>2. Measured(q) \in Nat /\ Measured(q) >= LedgerBytes(accLedger)
      BY <1>4, <1>6, <2>2 DEF Measured, Bigger
    <3>3. Growth(OwnReservations(q)) \in Nat
      <4>1. IsReserved(OwnReservations(q))
        <5>1. OwnReservations(q) \in SUBSET accReserved
          BY DEF OwnReservations
        <5>2. IsFiniteSet(OwnReservations(q))
          BY <5>1, FS_Subset DEF AccInv, AccTypeOK, IsReserved
        <5>. QED  BY <5>1, <5>2 DEF AccInv, AccTypeOK, IsReserved
      <4>2. IsLedger(accLedger)
        BY DEF AccInv, AccTypeOK
      <4>. QED  BY <4>1, <4>2, SumsAreNumbers
    <3>4. CountedAt(q) \in Nat /\ CountedAt(q) >= Measured(q)
      BY <3>2, <3>3 DEF CountedAt
    <3>5. ~accLoose' => Due = LedgerBytes(accLedger)
      <4>1. SUFFICES ASSUME ~accLoose' PROVE Due = LedgerBytes(accLedger)
        OBVIOUS
      <4>2. accReserved = {} /\ ~HeadroomHeld
        BY <3>1, <4>1
      <4>3. Growth(accReserved) = 0
        BY <4>2, TotalOfNothing DEF Growth
      <4>. QED  BY <1>6, <4>2, <4>3, DueWithoutHeadroom
    <3>6. accCounted' = CountedAt(q) /\ accTotal' = CountedAt(q)
      BY <1>6, <3>1, <3>4
    <3>. QED  BY <1>6, <3>1, <3>2, <3>4, <3>5, <3>6
  <2>. QED  BY <2>1, <2>2
<1>8. AccTypeOK'
  BY <1>1, <1>2, <1>3, <1>4, <1>5, <1>7 DEF AccInv, AccTypeOK
<1>9. AccTotalsMatch' /\ AccSizeIsCharged'
  BY <1>1, <1>7 DEF AccTotalsMatch, AccSizeIsCharged
<1>10. PendingIsPrepared'
  <2>1. \A p \in DOMAIN accOps' : accOps'[p].status # "prepared"
    <3>1. TAKE p \in DOMAIN accOps'
    <3>2. CASE p = q
      BY <1>4, <3>2
    <3>3. CASE p # q
      BY <1>1, <1>3, <3>3 DEF AccInv, PendingIsPrepared
    <3>. QED  BY <3>2, <3>3
  <2>. QED  BY <1>1, <2>1 DEF PendingIsPrepared
<1>11. DueIsCharged'
  BY <1>1, <1>5, <1>7 DEF DueIsCharged
<1>. QED  BY <1>5, <1>8, <1>9, <1>10, <1>11 DEF AccInv

\* Withdrawing one.
LEMMA WithdrawKeeps ==
  ASSUME AccInv, NEW q, UNCHANGED accKnown, AccWithdraw(q)
  PROVE  AccInv'
<1>1. /\ q \in DOMAIN accOps /\ accOps[q].status = "prepared"
      /\ accOps' = [accOps EXCEPT ![q].status = "aborted"]
      /\ accPending' = accPending \ {q} /\ AccRelease(accOps[q].peak)
      /\ accStatus' = accStatus /\ accSize' = accSize
      /\ accLedger' = accLedger /\ accReserved' = accReserved
      /\ accUsed' = accUsed /\ accQueued' = accQueued /\ accLoose' = accLoose
  BY DEF AccWithdraw
<1>2. accPending = {q} /\ accPending' = {} /\ accOps[q].peak \in Nat /\ AccLive
  BY <1>1 DEF AccInv, PendingIsPrepared, AccTypeOK
<1>3. /\ DOMAIN accOps' = DOMAIN accOps
      /\ \A p \in DOMAIN accOps \ {q} : accOps'[p] = accOps[p]
      /\ accOps'[q] = [accOps[q] EXCEPT !.status = "aborted"]
  BY <1>1
<1>4. /\ accOps'[q].peak = accOps[q].peak /\ accOps'[q].measured = accOps[q].measured
      /\ accOps'[q].status = "aborted"
  BY <1>1, <1>3 DEF AccInv, AccTypeOK
<1>5. Due' = Due /\ ReservedAreSound' /\ IsLedger(accLedger)' /\ IsReserved(accReserved)'
  BY <1>1, DueStays
<1>6. /\ accCounted' \in Nat /\ accTotal' = accCounted' /\ accCounted' >= accSize
      /\ accCounted' >= accCounted - accOps[q].peak
  BY <1>1, <1>2, ReleaseDoes DEF AccInv
<1>7. AccTypeOK'
  BY <1>1, <1>3, <1>4, <1>5, <1>6 DEF AccInv, AccTypeOK
<1>8. AccTotalsMatch' /\ AccSizeIsCharged'
  BY <1>1, <1>2, <1>6 DEF AccTotalsMatch, AccSizeIsCharged, AccLive
<1>9. PendingIsPrepared'
  <2>1. \A p \in DOMAIN accOps' : accOps'[p].status # "prepared"
    <3>1. TAKE p \in DOMAIN accOps'
    <3>2. CASE p = q
      BY <1>4, <3>2
    <3>3. CASE p # q
      BY <1>2, <1>3, <3>3 DEF AccInv, PendingIsPrepared
    <3>. QED  BY <3>2, <3>3
  <2>. QED  BY <1>1, <1>2, <2>1 DEF PendingIsPrepared, AccLive
<1>10. DueIsCharged'
  <2>1. Due \in Nat /\ accCounted \in Nat
    BY DueType DEF AccInv, AccTypeOK
  <2>. QED  BY <1>1, <1>2, <1>5, <1>6, <2>1 DEF AccInv, DueIsCharged, AccLive
<1>. QED  BY <1>5, <1>7, <1>8, <1>9, <1>10 DEF AccInv

\* The room's measurement.
LEMMA RecordKeeps ==
  ASSUME AccInv, NEW n \in Nat, UNCHANGED accKnown, AccRecord(n)
  PROVE  AccInv'
<1>. DEFINE measured == Bigger(n, LedgerBytes(accLedger))
            counted == measured + Growth(accReserved)
<1>1. /\ accStatus # "gone" /\ accSize' = measured
      /\ accCounted' = accCounted + (counted - accCounted)
      /\ accTotal' = accTotal + (counted - accCounted)
      /\ accLoose' = (accPending # {} \/ HeadroomHeld)
      /\ accStatus' = accStatus /\ accPending' = accPending /\ accOps' = accOps
      /\ accLedger' = accLedger /\ accReserved' = accReserved
      /\ accUsed' = accUsed /\ accQueued' = accQueued
  BY DEF AccRecord, AccCharge
<1>2. /\ LedgerBytes(accLedger) \in Nat /\ Growth(accReserved) \in Nat
      /\ accCounted \in Nat /\ accTotal = accCounted
  BY DueType DEF AccInv, AccTypeOK, AccTotalsMatch
<1>3. measured \in Nat /\ measured >= LedgerBytes(accLedger)
  BY <1>2 DEF Bigger
<1>. HIDE DEF measured
<1>4. /\ accSize' \in Nat /\ accCounted' = measured + Growth(accReserved)
      /\ accTotal' = accCounted' /\ accCounted' \in Nat /\ accCounted' >= accSize'
  BY <1>1, <1>2, <1>3
<1>5. Due' = Due /\ ReservedAreSound' /\ IsLedger(accLedger)' /\ IsReserved(accReserved)'
  BY <1>1, DueStays
<1>6. AccTypeOK'
  BY <1>1, <1>4, <1>5 DEF AccInv, AccTypeOK
<1>7. AccTotalsMatch' /\ AccSizeIsCharged'
  BY <1>1, <1>4 DEF AccTotalsMatch, AccSizeIsCharged
<1>8. PendingIsPrepared'
  BY <1>1 DEF AccInv, PendingIsPrepared, AccLive
<1>9. DueIsCharged'
  <2>1. SUFFICES ASSUME ~accLoose'
                 PROVE  accPending = {} /\ accCounted' >= Due
    BY <1>1, <1>5 DEF DueIsCharged
  <2>2. accPending = {} /\ ~HeadroomHeld
    BY <1>1, <2>1
  <2>. QED  BY <1>2, <1>3, <1>4, <2>2, DueWithoutHeadroom
<1>. QED  BY <1>5, <1>6, <1>7, <1>8, <1>9 DEF AccInv
\* A document that is removed gives everything back.
LEMMA RemovalKeeps ==
  ASSUME AccInv, UNCHANGED accKnown, AccDiscard \/ AccFinishDelete
  PROVE  AccInv'
<1>1. /\ accStatus \in {"creating", "deleting"} /\ accPending' = accPending
      /\ \A q \in DOMAIN accOps : accOps[q].status = "prepared" => accPending = {q}
      /\ accStatus' = "gone" /\ accTotal' = accTotal - accCounted
      /\ accCounted' = 0 /\ accSize' = 0 /\ accReserved' = {} /\ DOMAIN accLedger' = {}
      /\ accOps' = accOps /\ accUsed' = accUsed /\ accQueued' = accQueued /\ accLoose' = accLoose
  BY DEF AccDiscard, AccFinishDelete, AccInv, PendingIsPrepared
<1>2. accPending = {}
  <2>1. CASE AccDiscard
    BY <2>1 DEF AccDiscard
  <2>2. CASE AccFinishDelete
    BY <2>2 DEF AccFinishDelete, AccInv, PendingIsPrepared, AccLive
  <2>. QED  BY <2>1, <2>2
<1>3. PICK m : m = accLedger'
  OBVIOUS
<1>4. IsLedger(m) /\ IsReserved({})
  BY <1>1, <1>3, FS_EmptySet DEF IsLedger, IsReserved
<1>5. accTotal = accCounted /\ accCounted \in Nat
  BY DEF AccInv, AccTotalsMatch, AccTypeOK
<1>6. AccTypeOK'
  BY <1>1, <1>3, <1>4, <1>5 DEF AccInv, AccTypeOK
<1>7. AccTotalsMatch' /\ AccSizeIsCharged'
  BY <1>1, <1>5 DEF AccTotalsMatch, AccSizeIsCharged
<1>8. PendingIsPrepared'
  BY <1>1, <1>2 DEF PendingIsPrepared, AccLive
<1>9. ReservedAreSound' /\ DueIsCharged'
  BY <1>1 DEF ReservedAreSound, DueIsCharged, AccLive
<1>. QED  BY <1>6, <1>7, <1>8, <1>9 DEF AccInv

\* Beginning a deletion, and queueing an object.
LEMMA BeginDeleteKeeps ==
  ASSUME AccInv, UNCHANGED accKnown, AccBeginDelete \/ \E k \in AccObject : AccQueueDelete(k)
  PROVE  AccInv'
<1>1. CASE AccBeginDelete
  <2>1. /\ accStatus' = "deleting" /\ accPending' = {}
        /\ accOps' = [q \in DOMAIN accOps |->
             IF accOps[q].status = "prepared" THEN [accOps[q] EXCEPT !.status = "aborted"]
             ELSE accOps[q]]
        /\ accSize' = accSize /\ accCounted' = accCounted /\ accTotal' = accTotal
        /\ accLedger' = accLedger /\ accReserved' = accReserved
        /\ accUsed' = accUsed /\ accQueued' = accQueued /\ accLoose' = accLoose
    BY <1>1 DEF AccBeginDelete
  <2>2. /\ DOMAIN accOps' = DOMAIN accOps
        /\ \A q \in DOMAIN accOps :
             /\ accOps'[q].status # "prepared"
             /\ accOps'[q] \in [status : {"prepared", "committed", "aborted"}, peak : Nat,
                                measured : Nat \cup {-1}]
    BY <2>1 DEF AccInv, AccTypeOK
  <2>3. Due' = Due /\ ReservedAreSound' /\ IsLedger(accLedger)' /\ IsReserved(accReserved)'
    BY <2>1, DueStays
  <2>4. AccTypeOK'
    BY <2>1, <2>2, <2>3 DEF AccInv, AccTypeOK
  <2>5. AccTotalsMatch' /\ AccSizeIsCharged'
    BY <2>1 DEF AccInv, AccTotalsMatch, AccSizeIsCharged
  <2>6. PendingIsPrepared' /\ DueIsCharged'
    BY <2>1, <2>2 DEF PendingIsPrepared, DueIsCharged, AccLive
  <2>. QED  BY <2>3, <2>4, <2>5, <2>6 DEF AccInv
<1>2. ASSUME NEW k \in AccObject, AccQueueDelete(k)
      PROVE  AccInv'
  <2>1. /\ \A r \in accReserved : r.key # k
        /\ accQueued' = accQueued \cup {k}
        /\ accStatus' = accStatus /\ accSize' = accSize /\ accCounted' = accCounted
        /\ accPending' = accPending /\ accTotal' = accTotal /\ accLedger' = accLedger
        /\ accReserved' = accReserved /\ accOps' = accOps /\ accUsed' = accUsed
        /\ accLoose' = accLoose
    BY <1>2 DEF AccQueueDelete
  <2>2. Due' = Due
    BY <2>1 DEF Due
  <2>3. AccTypeOK' /\ AccTotalsMatch' /\ AccSizeIsCharged' /\ PendingIsPrepared'
    BY <2>1 DEF AccInv, AccTypeOK, AccTotalsMatch, AccSizeIsCharged, PendingIsPrepared, AccLive
  <2>4. ReservedAreSound'
    BY <2>1 DEF AccInv, ReservedAreSound, OldBytes
  <2>5. DueIsCharged'
    BY <2>1, <2>2 DEF AccInv, DueIsCharged, AccLive
  <2>. QED  BY <2>3, <2>4, <2>5 DEF AccInv
<1>. QED  BY <1>1, <1>2

\* The ledger without one object.
LEMMA LedgerWithout ==
  ASSUME AccInv, NEW k, NEW m, m = [j \in DOMAIN accLedger \ {k} |-> accLedger[j]]
  PROVE  /\ IsLedger(m)
         /\ BytesAt(accLedger, k) \in Nat /\ MetaAt(accLedger, k) \in Nat
         /\ LedgerBytes(m) \in Nat /\ LedgerMeta(m) \in Nat
         /\ LedgerBytes(accLedger) \in Nat /\ LedgerMeta(accLedger) \in Nat
         /\ LedgerBytes(m) = LedgerBytes(accLedger) - BytesAt(accLedger, k)
         /\ LedgerMeta(m) = LedgerMeta(accLedger) - MetaAt(accLedger, k)
<1>1. IsLedger(accLedger)
  BY DEF AccInv, AccTypeOK
<1>2. DOMAIN m = DOMAIN accLedger \ {k} /\ \A j \in DOMAIN m : m[j] = accLedger[j]
  OBVIOUS
<1>3. IsLedger(m)
  <2>1. IsFiniteSet(DOMAIN accLedger \ {k})
    BY <1>1, FS_RemoveElement DEF IsLedger
  <2>. QED  BY <1>1, <1>2, <2>1 DEF IsLedger
<1>4. BytesAt(accLedger, k) \in Nat /\ MetaAt(accLedger, k) \in Nat
  BY <1>1 DEF IsLedger, BytesAt, MetaAt
<1>5. BytesAt(m, k) = 0 /\ MetaAt(m, k) = 0
  BY <1>2 DEF BytesAt, MetaAt
<1>6. /\ LedgerBytes(accLedger) \in Nat /\ LedgerBytes(m) \in Nat
      /\ LedgerMeta(accLedger) \in Nat /\ LedgerMeta(m) \in Nat
      /\ LedgerBytes(m) = LedgerBytes(accLedger) + BytesAt(m, k) - BytesAt(accLedger, k)
      /\ LedgerMeta(m) = LedgerMeta(accLedger) + MetaAt(m, k) - MetaAt(accLedger, k)
  <2>1. DOMAIN accLedger \ {k} = DOMAIN m \ {k}
    BY <1>2
  <2>2. \A j \in DOMAIN accLedger \ {k} : accLedger[j] = m[j]
    BY <1>2
  <2>. QED  BY <1>1, <1>3, <2>1, <2>2, LedgerChanges
<1>. QED  BY <1>3, <1>4, <1>5, <1>6

\* The reservations stay sound when an object leaves that none is about.
LEMMA ReservedStaySound ==
  ASSUME AccInv, NEW k, \A r \in accReserved : r.key # k,
         accReserved' = accReserved, accUsed' = accUsed, accQueued' \subseteq accQueued,
         accLedger' = [j \in DOMAIN accLedger \ {k} |-> accLedger[j]]
  PROVE  ReservedAreSound'
<1>1. \A j : j # k => OldBytes(j)' = OldBytes(j)
  BY DEF OldBytes
<1>2. \A r \in accReserved :
        r.op \in accUsed' /\ r.key \notin accQueued' /\ r.old <= OldBytes(r.key)'
  BY <1>1 DEF AccInv, ReservedAreSound
<1>. QED  BY <1>2 DEF AccInv, ReservedAreSound

\* Deleting a queued object.
LEMMA DeletedKeeps ==
  ASSUME AccInv, NEW k, UNCHANGED accKnown, AccDeleted(k)
  PROVE  AccInv'
<1>1. /\ k \in accQueued /\ accQueued' = accQueued \ {k}
      /\ accStatus' = accStatus /\ accPending' = accPending /\ accReserved' = accReserved
      /\ accOps' = accOps /\ accUsed' = accUsed /\ accLoose' = accLoose
  BY DEF AccDeleted
<1>2. \A r \in accReserved : r.key # k
  BY <1>1 DEF AccInv, ReservedAreSound
<1>3. PendingIsPrepared' <=> (accStatus = "gone" => accCounted' = 0)
  BY <1>1 DEF AccInv, PendingIsPrepared, AccLive
<1>4. CASE accStatus = "active"
  <2>. DEFINE rest == [j \in DOMAIN accLedger \ {k} |-> accLedger[j]]
              size == Bigger(Positive(accSize - OldBytes(k)), LedgerBytes(rest))
              counted == Bigger(Positive(accCounted - OldBytes(k)), size + Growth(accReserved))
  <2>1. /\ accLedger' = rest /\ accSize' = size
        /\ accCounted' = accCounted + (counted - accCounted)
        /\ accTotal' = accTotal + (counted - accCounted)
    BY <1>4 DEF AccDeleted, AccCharge
  <2>2. PICK m : m = rest
    OBVIOUS
  <2>3. /\ IsLedger(m)
        /\ BytesAt(accLedger, k) \in Nat /\ MetaAt(accLedger, k) \in Nat
        /\ LedgerBytes(m) \in Nat /\ LedgerMeta(m) \in Nat
        /\ LedgerBytes(accLedger) \in Nat /\ LedgerMeta(accLedger) \in Nat
        /\ LedgerBytes(m) = LedgerBytes(accLedger) - BytesAt(accLedger, k)
        /\ LedgerMeta(m) = LedgerMeta(accLedger) - MetaAt(accLedger, k)
    BY <2>2, LedgerWithout
  <2>4. OldBytes(k) = BytesAt(accLedger, k)
    BY DEF OldBytes, BytesAt
  <2>5. /\ Growth(accReserved) \in Nat /\ HeldMeta(accReserved) \in Nat /\ Due \in Nat
        /\ accCounted \in Nat /\ accSize \in Nat /\ accTotal = accCounted
        /\ \A q \in accPending : accOps[q].peak \in Nat
    BY DueType DEF AccInv, AccTypeOK, AccTotalsMatch, PendingIsPrepared
  <2>6. size = Bigger(Positive(accSize - OldBytes(k)), LedgerBytes(m)) /\ accLedger' = m
    BY <2>1, <2>2
  <2>7. size \in Nat
    BY <2>3, <2>4, <2>5, <2>6 DEF Bigger, Positive
  <2>. HIDE DEF size, rest
  <2>8. counted \in Nat /\ counted >= size /\ counted >= accCounted - OldBytes(k)
    BY <2>3, <2>4, <2>5, <2>7 DEF Bigger, Positive
  <2>. HIDE DEF counted
  <2>9. accCounted' = counted /\ accTotal' = counted
    BY <2>1, <2>5, <2>8
  <2>10. Due' = Due - OldBytes(k) - MetaAt(accLedger, k)
    <3>1. Due' = LedgerBytes(m) + LedgerMeta(m) + Growth(accReserved) + HeldMeta(accReserved)
      BY <1>1, <2>6 DEF Due
    <3>. QED  BY <2>3, <2>4, <2>5, <3>1 DEF Due
  <2>11. AccTypeOK'
    BY <1>1, <2>1, <2>3, <2>6, <2>7, <2>8, <2>9 DEF AccInv, AccTypeOK
  <2>12. AccTotalsMatch' /\ AccSizeIsCharged' /\ PendingIsPrepared'
    BY <1>1, <1>3, <1>4, <2>1, <2>8, <2>9 DEF AccTotalsMatch, AccSizeIsCharged
  <2>13. ReservedAreSound'
    BY <1>1, <1>2, <2>1, ReservedStaySound DEF rest
  <2>14. DueIsCharged'
    <3>1. ASSUME AccLive, ~accLoose
          PROVE  counted >= Due' /\ \A q \in accPending : counted >= Due' + accOps[q].peak
      <4>1. accCounted >= Due /\ \A q \in accPending : accCounted >= Due + accOps[q].peak
        BY <3>1 DEF AccInv, DueIsCharged
      <4>. QED  BY <2>3, <2>4, <2>5, <2>8, <2>10, <4>1
    <3>. QED  BY <1>1, <2>9, <3>1 DEF DueIsCharged, AccLive
  <2>. QED  BY <2>11, <2>12, <2>13, <2>14 DEF AccInv
<1>5. CASE accStatus # "active"
  <2>1. /\ accLedger' = accLedger /\ accSize' = accSize /\ accCounted' = accCounted
        /\ accTotal' = accTotal
    BY <1>5 DEF AccDeleted
  <2>2. Due' = Due
    BY <1>1, <2>1 DEF Due
  <2>3. AccTypeOK' /\ AccTotalsMatch' /\ AccSizeIsCharged' /\ PendingIsPrepared'
    BY <1>1, <2>1 DEF AccInv, AccTypeOK, AccTotalsMatch, AccSizeIsCharged, PendingIsPrepared, AccLive
  <2>4. ReservedAreSound'
    BY <1>1, <2>1 DEF AccInv, ReservedAreSound, OldBytes
  <2>5. DueIsCharged'
    BY <1>1, <2>1, <2>2 DEF AccInv, DueIsCharged, AccLive
  <2>. QED  BY <2>3, <2>4, <2>5 DEF AccInv
<1>. QED  BY <1>4, <1>5

\* Retiring a journal object.
LEMMA RetiredKeeps ==
  ASSUME AccInv, NEW k, UNCHANGED accKnown, AccRetired(k)
  PROVE  AccInv'
<1>1. /\ k \in DOMAIN accLedger /\ \A r \in accReserved : r.key # k
      /\ accLedger' = [j \in DOMAIN accLedger \ {k} |-> accLedger[j]]
      /\ accStatus' = accStatus /\ accSize' = accSize /\ accPending' = accPending
      /\ accReserved' = accReserved /\ accOps' = accOps /\ accUsed' = accUsed
      /\ accQueued' = accQueued /\ accLoose' = accLoose
  BY DEF AccRetired
<1>2. PICK m : m = accLedger'
  OBVIOUS
<1>3. /\ IsLedger(m)
      /\ BytesAt(accLedger, k) \in Nat /\ MetaAt(accLedger, k) \in Nat
      /\ LedgerBytes(m) \in Nat /\ LedgerMeta(m) \in Nat
      /\ LedgerBytes(accLedger) \in Nat /\ LedgerMeta(accLedger) \in Nat
      /\ LedgerBytes(m) = LedgerBytes(accLedger) - BytesAt(accLedger, k)
      /\ LedgerMeta(m) = LedgerMeta(accLedger) - MetaAt(accLedger, k)
  BY <1>1, <1>2, LedgerWithout
<1>4. accLedger[k].bytes = BytesAt(accLedger, k) /\ accLedger[k].meta = MetaAt(accLedger, k)
  BY <1>1 DEF BytesAt, MetaAt
<1>5. /\ Growth(accReserved) \in Nat /\ HeldMeta(accReserved) \in Nat /\ Due \in Nat
      /\ accCounted \in Nat /\ accSize \in Nat /\ accTotal = accCounted /\ accCounted >= accSize
      /\ \A q \in accPending : accOps[q].peak \in Nat
  BY DueType DEF AccInv, AccTypeOK, AccTotalsMatch, AccSizeIsCharged, PendingIsPrepared
<1>6. /\ accCounted' \in Nat /\ accTotal' = accCounted' /\ accCounted' >= accSize
      /\ accCounted' >= accCounted - BytesAt(accLedger, k) - MetaAt(accLedger, k)
      /\ (accStatus # "active" => accCounted' = accCounted)
  <2>1. CASE accStatus = "active"
    <3>. DEFINE counted ==
                  Bigger(accSize, accCounted - BytesAt(accLedger, k) - MetaAt(accLedger, k))
    <3>1. /\ accCounted' = accCounted + (counted - accCounted)
          /\ accTotal' = accTotal + (counted - accCounted)
      BY <1>4, <2>1 DEF AccRetired, AccCharge
    <3>2. counted \in Nat /\ counted >= accSize
          /\ counted >= accCounted - BytesAt(accLedger, k) - MetaAt(accLedger, k)
      BY <1>3, <1>5 DEF Bigger
    <3>. HIDE DEF counted
    <3>. QED  BY <1>5, <2>1, <3>1, <3>2
  <2>2. CASE accStatus # "active"
    <3>1. accCounted' = accCounted /\ accTotal' = accTotal
      BY <2>2 DEF AccRetired, Uncharged
    <3>. QED  BY <1>3, <1>5, <3>1
  <2>. QED  BY <2>1, <2>2
<1>7. Due' = Due - BytesAt(accLedger, k) - MetaAt(accLedger, k)
  <2>1. Due' = LedgerBytes(m) + LedgerMeta(m) + Growth(accReserved) + HeldMeta(accReserved)
    BY <1>1, <1>2 DEF Due
  <2>. QED  BY <1>3, <1>5, <2>1 DEF Due
<1>8. AccTypeOK'
  BY <1>1, <1>2, <1>3, <1>6 DEF AccInv, AccTypeOK
<1>9. AccTotalsMatch' /\ AccSizeIsCharged' /\ PendingIsPrepared'
  BY <1>1, <1>6 DEF AccInv, AccTotalsMatch, AccSizeIsCharged, PendingIsPrepared, AccLive
<1>10. ReservedAreSound'
  BY <1>1, ReservedStaySound
<1>11. DueIsCharged'
  <2>1. ASSUME AccLive, ~accLoose
        PROVE  accCounted' >= Due' /\ \A q \in accPending : accCounted' >= Due' + accOps[q].peak
    <3>1. accCounted >= Due /\ \A q \in accPending : accCounted >= Due + accOps[q].peak
      BY <2>1 DEF AccInv, DueIsCharged
    <3>. QED  BY <1>3, <1>5, <1>6, <1>7, <3>1
  <2>. QED  BY <1>1, <2>1 DEF DueIsCharged, AccLive
<1>. QED  BY <1>8, <1>9, <1>10, <1>11 DEF AccInv

\* Every step keeps the invariant.
LEMMA AccStepKeeps == AccInv /\ [AccNext]_accVars => AccInv'
<1>. SUFFICES ASSUME AccInv, [AccNext]_accVars PROVE AccInv'
  OBVIOUS
<1>1. CASE UNCHANGED accVars
  <2>1. Due' = Due
    BY <1>1 DEF accVars, Due
  <2>. QED  BY <1>1, <2>1 DEF accVars, AccInv, AccTypeOK, AccTotalsMatch, AccSizeIsCharged,
                 PendingIsPrepared, ReservedAreSound, DueIsCharged, AccLive, OldBytes
<1>2. CASE AccStep /\ UNCHANGED accKnown
  <2>. USE <1>2
  <2>1. \A n \in 0 .. AccBytes : n \in Nat
    BY AccAssumption
  <2>2. ASSUME NEW op \in AccWriter, NEW k \in AccObject, NEW n \in 0 .. AccBytes,
               AccReserve(op, k, n)
        PROVE  AccInv'
    BY <2>1, <2>2, ReserveKeeps
  <2>3. ASSUME NEW r \in accReserved, AccCommit(r) \/ AccAbort(r)
        PROVE  AccInv'
    BY <2>3, CommitKeeps, AbortKeeps
  <2>4. ASSUME NEW q \in AccRequest, AccPrepare(q) \/ \E n \in 1 .. AccBytes : AccReservePeak(q, n)
        PROVE  AccInv'
    BY <2>4, PrepareKeeps
  <2>5. ASSUME NEW q \in AccRequest, NEW n \in 0 .. AccBytes, AccMeasure(q, n)
        PROVE  AccInv'
    BY <2>1, <2>5, MeasureKeeps
  <2>6. ASSUME NEW q \in AccRequest, AccPublish(q) \/ AccWithdraw(q)
        PROVE  AccInv'
    BY <2>6, PublishKeeps, WithdrawKeeps
  <2>7. ASSUME NEW n \in 0 .. AccBytes, AccRecord(n)
        PROVE  AccInv'
    BY <2>1, <2>7, RecordKeeps
  <2>8. ASSUME NEW k \in AccObject, AccDeleted(k) \/ AccRetired(k)
        PROVE  AccInv'
    BY <2>8, DeletedKeeps, RetiredKeeps
  <2>9. CASE AccDiscard \/ AccFinishDelete
    BY <2>9, RemovalKeeps
  <2>10. CASE AccBeginDelete \/ \E k \in AccObject : AccQueueDelete(k)
    BY <2>10, BeginDeleteKeeps
  <2>. QED  BY <2>2, <2>3, <2>4, <2>5, <2>6, <2>7, <2>8, <2>9, <2>10 DEF AccStep
<1>. QED  BY <1>1, <1>2 DEF AccNext

\* The invariant holds in every state.
THEOREM ChargeInvariant == AccSpec => []AccInv
<1>. QED  BY AccInitOK, AccStepKeeps, PTL DEF AccSpec

\* The charge covers the document's size, its objects and what is reserved.
THEOREM HoldingsAreCharged == AccSpec => []AccHoldingsAreCharged
<1>1. AccInv => AccHoldingsAreCharged
  <2>1. SUFFICES ASSUME AccInv, accStatus = "active", accPending = {}, ~accLoose
                 PROVE  accCounted >= LedgerBytes(accLedger) + Growth(accReserved)
    BY DEF AccInv, AccHoldingsAreCharged
  <2>2. accCounted >= Due /\ accCounted \in Nat
    BY <2>1 DEF AccInv, DueIsCharged, AccLive, AccTypeOK
  <2>3. /\ LedgerBytes(accLedger) \in Nat /\ LedgerMeta(accLedger) \in Nat
        /\ Growth(accReserved) \in Nat /\ HeldMeta(accReserved) \in Nat
    BY <2>1, DueType DEF AccInv
  <2>. QED  BY <2>2, <2>3 DEF Due
<1>. QED  BY <1>1, ChargeInvariant, PTL
=============================================================================
