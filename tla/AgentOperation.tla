--------------------------- MODULE AgentOperation ---------------------------
(***************************************************************************)
(* The source operations of agents on one document.  A call prepares a row *)
(* and the document's pending slot, stores the room as it was as a backup, *)
(* patches the room and marks it in one transaction of the document,       *)
(* journals it, and only then commits the row: the receipt.  A retry, a    *)
(* query and the load of the room settle a row left prepared, on the       *)
(* evidence of the marker in the journalled document.  Cancellations and   *)
(* revocations are catalogue transactions that take none of the room's     *)
(* gates.  A text is the set of the edits and patches in it: the CRDT      *)
(* makes them commute.                                                     *)
(***************************************************************************)
EXTENDS FiniteSets, Naturals

CONSTANTS
  AgOp,        \* operation keys of authenticated actors
  AgEdit,      \* edits of people
  AgNone,      \* no operation, no object
  AgFaults,    \* the sets of failures that may happen together, of "crash", "cancel",
               \* "revoke", "regrant", "drop" (a request), "commit", "write", "catalog",
               \* "refuse" (sizes, quota, the backup)
  AgFailures   \* bound: how many of them happen

ASSUME AgAssumption ==
  /\ AgNone \notin AgOp \cup [text : SUBSET (AgOp \cup AgEdit), marks : SUBSET AgOp]
  /\ AgOp \cap AgEdit = {} /\ AgFailures \in Nat

VARIABLES
  agRow,        \* catalog_operations: status, before_tree, peak
  agSlot,       \* documents.pending_publication
  agCancel,     \* agent_cancellations: the answer given for an operation
  agRights,     \* whether the operation's actor and its epoch still count
  agDurable,    \* the latest journalled document
  agBackup,     \* the backup object of each operation
  agRoom,       \* "out", "load", "live" or "fenced"
  agDoc,        \* the room's document, and whether it is dirty
  agCall,       \* the call that holds restore_write, comment_write, publication_write
  agAcked,      \* the edits acknowledged to their authors as durable
  agFaults,     \* the failures of this behaviour
  agFails       \* how many have happened

agCatalogue == <<agRow, agSlot>>
agVars == <<agRow, agSlot, agCancel, agRights, agDurable, agBackup, agRoom, agDoc, agCall, agAcked, agFaults, agFails>>

Doc(text, marks) == [text |-> text, marks |-> marks]
AgContent == Doc(agDoc.text, agDoc.marks)
Become(doc, dirty) == agDoc' = [text |-> doc.text, marks |-> doc.marks, dirty |-> dirty]
AgNoCall == [op |-> AgNone, how |-> "idle", pc |-> "idle"]
AgFree == agCall = AgNoCall
AgAt(step) == agCall.pc = step
AgStep(step) == agCall' = [agCall EXCEPT !.pc = step]
OnLoad == agCall.how = "load"
Fails(kind) == kind \in agFaults /\ agFails < AgFailures /\ agFails' = agFails + 1
NoFault == UNCHANGED agFails

\* The call returns; the load of a room publishes it.
AgReturn == agCall' = AgNoCall /\ agRoom' = (IF OnLoad THEN "live" ELSE agRoom)
Fence == agCall' = AgNoCall /\ agRoom' = "fenced"
\* The second check of a retry or a query returns the error and fences nothing.
Withdrawing == agCall.how \in {"retry", "recover"} /\ AgReturn
\* An error: of the load it fences the room, else the caller gets it.
Fail == IF OnLoad THEN Fence ELSE AgReturn

Settled(status) ==
  /\ agRow' = [agRow EXCEPT ![agCall.op].status = status]
  /\ agSlot' = AgNone
\* (mutant) the room's document is looked at.
MarkedInRoom == agCall.op \in agDoc.marks
\* room_marker: the journalled document, not the room's.
Marked == agCall.op \in agDurable.marks
\* The gate that keeps the sweeper from journalling half of an operation.
CheckpointHeld == \/ agCall.how = "apply" /\ agCall.pc \notin {"prepare", "reserve"}
                  \/ agCall.how \in {"retry", "recover"} /\ AgAt("restore")

-----------------------------------------------------------------------------
\* apply_agent_request: a fresh key captures the tree; a prepared one is settled.
AgApply(o) ==
  /\ agRoom = "live" /\ AgFree /\ agCancel[o] = "none"
  /\ \/ agRow[o].status = "none" /\ agRights[o]
        /\ agCall' = [op |-> o, how |-> "apply", pc |-> "prepare"]
     \/ agRow[o].status = "prepared"
        /\ agCall' = [op |-> o, how |-> "retry", pc |-> "recheck"]
  /\ UNCHANGED <<agRow, agSlot, agCancel, agRights, agDurable, agBackup, agRoom, agDoc, agAcked, agFaults, agFails>>

\* recover_agent_operation: a query that finds the row prepared.
AgRecover(o) ==
  /\ agRoom = "live" /\ AgFree
  /\ agRow[o].status = "prepared" /\ agCancel[o] = "none"
  /\ agCall' = [op |-> o, how |-> "recover", pc |-> "recheck"]
  /\ UNCHANGED <<agRow, agSlot, agCancel, agRights, agDurable, agBackup, agRoom, agDoc, agAcked, agFaults, agFails>>

\* prepare_operation: the row and the slot, refused while another is pending.
AgPrepare ==
  /\ AgAt("prepare")
  /\ IF agSlot = AgNone
     THEN /\ agRow' = [agRow EXCEPT ![agCall.op] =
                        [status |-> "prepared", before |-> agDoc.text, peak |-> FALSE]]
          /\ agSlot' = agCall.op /\ AgStep("reserve") /\ UNCHANGED agRoom
     ELSE AgReturn /\ UNCHANGED agCatalogue
  /\ UNCHANGED <<agCancel, agRights, agDurable, agBackup, agDoc, agAcked, agFaults, agFails>>

\* reserve_publication_peak; refused, the row is aborted, best effort.
AgReserve ==
  /\ AgAt("reserve")
  /\ \/ /\ NoFault /\ AgStep("backup")
        /\ agRow' = [agRow EXCEPT ![agCall.op].peak = TRUE] /\ UNCHANGED <<agSlot, agRoom>>
     \/ /\ Fails("refuse") /\ AgReturn
        /\ (Settled("aborted") \/ ("catalog" \in agFaults /\ UNCHANGED agCatalogue))
  /\ UNCHANGED <<agCancel, agRights, agDurable, agBackup, agDoc, agAcked, agFaults>>

\* apply_prepared_agent: the source's size, then the room as it is, stored.
AgPutBackup ==
  /\ AgAt("backup")
  /\ \/ /\ NoFault /\ AgStep("patch") /\ agBackup' = [agBackup EXCEPT ![agCall.op] = AgContent]
     \/ /\ Fails("refuse") /\ AgStep("abort") /\ UNCHANGED agBackup
  /\ UNCHANGED <<agRow, agSlot, agCancel, agRights, agDurable, agRoom, agDoc, agAcked, agFaults>>

\* One transaction of the document: the patches, this marker, and no other's.
AgPatch ==
  /\ AgAt("patch")
  /\ \/ NoFault /\ AgStep("write") /\ Become(Doc(agDoc.text \union {agCall.op}, {agCall.op}), TRUE)
     \/ Fails("refuse") /\ AgStep("abort") /\ UNCHANGED agDoc
  /\ UNCHANGED <<agRow, agSlot, agCancel, agRights, agDurable, agBackup, agRoom, agAcked, agFaults>>

\* write_session_inner: the journal, which may fail before or after it wrote, or
\* a refusal before it, which rollback_agent_memory undoes in the room alone.
AgWrite ==
  /\ AgAt("write")
  /\ \/ NoFault /\ AgStep("commit") /\ agDurable' = AgContent /\ Become(AgContent, FALSE)
     \/ Fails("write") /\ AgStep("restore") /\ agDurable' \in {agDurable, AgContent} /\ UNCHANGED agDoc
     \/ Fails("refuse") /\ AgStep("abort") /\ UNCHANGED agDurable
        /\ Become(Doc(agDoc.text \ {agCall.op}, agDoc.marks \ {agCall.op}), TRUE)
  /\ UNCHANGED <<agRow, agSlot, agCancel, agRights, agBackup, agRoom, agAcked, agFaults>>

\* restore_agent_backup: the room becomes the backup, and is journalled.
AgRestore ==
  /\ AgAt("restore")
  /\ agBackup[agCall.op] # AgNone
  /\ \/ /\ NoFault /\ AgStep("abort")
        /\ Become(agBackup[agCall.op], FALSE) /\ agDurable' = agBackup[agCall.op] /\ UNCHANGED agRoom
     \/ /\ Fails("write") /\ Become(agBackup[agCall.op], TRUE) /\ (Fence \/ Withdrawing)
        /\ agDurable' \in {agDurable, agBackup[agCall.op]}
  /\ UNCHANGED <<agRow, agSlot, agCancel, agRights, agBackup, agAcked, agFaults>>

\* abort_agent_operation: the row, the slot, then the backup object.
AgAbort ==
  /\ AgAt("abort")
  /\ \/ NoFault /\ Settled("aborted") /\ AgReturn /\ agBackup' = [agBackup EXCEPT ![agCall.op] = AgNone]
     \/ Fails("catalog") /\ (Fence \/ Withdrawing) /\ UNCHANGED agBackup
        /\ (Settled("aborted") \/ UNCHANGED agCatalogue)
  /\ UNCHANGED <<agCancel, agRights, agDurable, agDoc, agAcked, agFaults>>

\* commit_agent_source_operation refuses a cancelled or unauthorised operation.
Refused(o) == agCancel[o] = "cancel_requested" \/ ~agRights[o]

\* commit_agent_receipt, after this call's own write: an error may hide a commit.
AgCommit ==
  /\ AgAt("commit")
  /\ \/ /\ ~Refused(agCall.op) /\ NoFault
        /\ Settled("committed") /\ AgReturn /\ agBackup' = [agBackup EXCEPT ![agCall.op] = AgNone]
     \/ /\ Refused(agCall.op) /\ NoFault /\ AgStep("reread") /\ UNCHANGED <<agRow, agSlot, agRoom, agBackup>>
     \/ /\ ~Refused(agCall.op) /\ Fails("commit") /\ AgStep("reread") /\ UNCHANGED <<agRoom, agBackup>>
        /\ (Settled("committed") \/ UNCHANGED agCatalogue)
  /\ UNCHANGED <<agCancel, agRights, agDurable, agDoc, agAcked, agFaults>>

\* (mutant) the call compensates at once.
RereadNothing ==
  /\ AgAt("reread") /\ AgStep("unpatch")
  /\ UNCHANGED <<agRow, agSlot, agCancel, agRights, agDurable, agBackup, agRoom, agDoc, agAcked, agFaults, agFails>>
\* The row decides before anything is compensated.
AgReread ==
  /\ AgAt("reread")
  /\ \/ agRow[agCall.op].status = "committed" /\ NoFault /\ AgReturn
     \/ agRow[agCall.op].status # "committed" /\ NoFault /\ AgStep("unpatch") /\ UNCHANGED agRoom
     \/ Fails("catalog") /\ Fence
  /\ UNCHANGED <<agRow, agSlot, agCancel, agRights, agDurable, agBackup, agDoc, agAcked, agFaults>>

\* rollback_publication_inner: the tree captured before; the marker stays.
AgUnpatch ==
  /\ AgAt("unpatch")
  /\ LET back == Doc(agRow[agCall.op].before, agDoc.marks) IN
     \/ NoFault /\ AgStep("close") /\ Become(back, FALSE) /\ agDurable' = back /\ UNCHANGED agRoom
     \/ Fails("write") /\ Fence /\ Become(back, TRUE) /\ agDurable' \in {agDurable, back}
  /\ UNCHANGED <<agRow, agSlot, agCancel, agRights, agBackup, agAcked, agFaults>>

\* abort_operation alone: the backup object is left behind.
AgClose ==
  /\ AgAt("close")
  /\ \/ NoFault /\ Settled("aborted") /\ AgReturn
     \/ Fails("catalog") /\ Fence /\ UNCHANGED agCatalogue
  /\ UNCHANGED <<agCancel, agRights, agDurable, agBackup, agDoc, agAcked, agFaults>>

-----------------------------------------------------------------------------
\* A row found prepared: the actor and the epoch it was prepared under must still
\* count, then the journalled marker decides.  Without it, a retry applies the same
\* patches again if the tree has not moved, and the load aborts.
AgRecheck ==
  /\ AgAt("recheck")
  /\ LET o == agCall.op IN
     \/ /\ IF OnLoad THEN ~Marked ELSE ~agRights[o] /\ ~Marked
        /\ AgStep("abort") /\ UNCHANGED agRoom
     \/ ~agRights[o] /\ Marked /\ AgStep("restore") /\ UNCHANGED agRoom
     \/ agRights[o] /\ agCall.how = "retry" /\ ~agRow[o].peak /\ AgStep("repeak") /\ UNCHANGED agRoom
     \/ agRights[o] /\ (agCall.how = "retry" => agRow[o].peak) /\ Marked /\ AgStep("settle") /\ UNCHANGED agRoom
     \/ /\ agRights[o] /\ ~OnLoad /\ (agCall.how = "retry" => agRow[o].peak) /\ ~Marked
        /\ IF agCall.how = "retry" /\ agDoc.text = agRow[o].before
           THEN agCall' = [agCall EXCEPT !.how = "apply", !.pc = "backup"] /\ UNCHANGED agRoom
           ELSE AgReturn
  /\ UNCHANGED <<agRow, agSlot, agCancel, agRights, agDurable, agBackup, agDoc, agAcked, agFaults, agFails>>

\* A retry takes the reservation that the first call did not live to take.
AgRepeak ==
  /\ AgAt("repeak")
  /\ \/ /\ NoFault /\ AgStep("recheck") /\ UNCHANGED <<agSlot, agRoom>>
        /\ agRow' = [agRow EXCEPT ![agCall.op].peak = TRUE]
     \/ Fails("refuse") /\ Fence /\ UNCHANGED agCatalogue
  /\ UNCHANGED <<agCancel, agRights, agDurable, agBackup, agDoc, agAcked, agFaults>>

\* commit_agent_receipt of an effect found durable; refused, the row stays prepared.
AgSettle ==
  /\ AgAt("settle")
  /\ \/ /\ ~Refused(agCall.op) /\ NoFault
        /\ Settled("committed") /\ AgReturn /\ agBackup' = [agBackup EXCEPT ![agCall.op] = AgNone]
     \/ /\ Refused(agCall.op) /\ NoFault /\ Fail /\ UNCHANGED <<agRow, agSlot, agBackup>>
     \/ /\ ~Refused(agCall.op) /\ Fails("commit") /\ Fail /\ UNCHANGED agBackup
        /\ (Settled("committed") \/ UNCHANGED agCatalogue)
  /\ UNCHANGED <<agCancel, agRights, agDurable, agDoc, agAcked, agFaults>>

\* RoomSet.get: the journalled document, then recover_pending_agent_on_load.
AgLoad ==
  /\ agRoom = "out" /\ Become(agDurable, FALSE)
  /\ IF agSlot = AgNone
     THEN agRoom' = "live" /\ UNCHANGED agCall
     ELSE agRoom' = "load" /\ agCall' = [op |-> agSlot, how |-> "load", pc |-> "recheck"]
  /\ UNCHANGED <<agRow, agSlot, agCancel, agRights, agDurable, agBackup, agAcked, agFaults, agFails>>

-----------------------------------------------------------------------------
\* receive_update waits for publication_write.
AgPersonEdits(e) ==
  /\ agRoom = "live" /\ AgFree /\ e \notin agDoc.text
  /\ e \notin agAcked
  /\ Become(Doc(agDoc.text \union {e}, agDoc.marks), TRUE)
  /\ UNCHANGED <<agRow, agSlot, agCancel, agRights, agDurable, agBackup, agRoom, agCall, agAcked, agFaults, agFails>>

\* The sweeper's write_session, which waits for publication_checkpoint.
AgSweep ==
  /\ agRoom = "live" /\ agDoc.dirty /\ ~CheckpointHeld
  /\ agDurable' = AgContent /\ Become(AgContent, FALSE)
  /\ agAcked' = agAcked \union (agDoc.text \cap AgEdit)
  /\ UNCHANGED <<agRow, agSlot, agCancel, agRights, agBackup, agRoom, agCall, agFaults, agFails>>

\* cancel_agent_operation.
Answer(o) == IF agRow[o].status = "committed" THEN "already_committed" ELSE "cancel_requested"
AgCancelOperation(o) ==
  /\ Fails("cancel") /\ agCancel[o] = "none"
  /\ agCancel' = [agCancel EXCEPT ![o] = Answer(o)]
  /\ UNCHANGED <<agRow, agSlot, agRights, agDurable, agBackup, agRoom, agDoc, agCall, agAcked, agFaults>>

\* Sessions revoked, an editor's grant withdrawn, a runner's lease replaced; a
\* grant may be given back.
AgRevoke(o) ==
  /\ \/ Fails("revoke") /\ agRights[o] /\ agRights' = [agRights EXCEPT ![o] = FALSE]
     \/ Fails("regrant") /\ ~agRights[o] /\ agRights' = [agRights EXCEPT ![o] = TRUE]
  /\ UNCHANGED <<agRow, agSlot, agCancel, agDurable, agBackup, agRoom, agDoc, agCall, agAcked, agFaults>>

\* The client goes away and its request's future is dropped where it stands.
AgDrop ==
  /\ ~AgFree /\ ~OnLoad /\ Fails("drop") /\ agCall' = AgNoCall
  /\ UNCHANGED <<agRow, agSlot, agCancel, agRights, agDurable, agBackup, agRoom, agDoc, agAcked, agFaults>>

\* The process stops; or a fenced room with nothing unwritten is evicted.
AgLeave ==
  /\ \/ agRoom # "out" /\ Fails("crash")
     \/ agRoom = "fenced" /\ ~agDoc.dirty /\ NoFault
  /\ agRoom' = "out" /\ agCall' = AgNoCall /\ Become(Doc({}, {}), FALSE)
  /\ UNCHANGED <<agRow, agSlot, agCancel, agRights, agDurable, agBackup, agAcked, agFaults>>

AgInit ==
  /\ agRow = [o \in AgOp |-> [status |-> "none", before |-> {}, peak |-> FALSE]]
  /\ agSlot = AgNone
  /\ agCancel = [o \in AgOp |-> "none"] /\ agRights = [o \in AgOp |-> TRUE]
  /\ agDurable = Doc({}, {}) /\ agBackup = [o \in AgOp |-> AgNone]
  /\ agRoom = "live" /\ agDoc = [text |-> {}, marks |-> {}, dirty |-> FALSE]
  /\ agCall = AgNoCall /\ agAcked = {} /\ agFaults \in AgFaults /\ agFails = 0

AgNext ==
  \/ \E o \in AgOp : AgApply(o) \/ AgRecover(o) \/ AgCancelOperation(o) \/ AgRevoke(o)
  \/ AgPrepare \/ AgReserve \/ AgPutBackup \/ AgPatch \/ AgWrite \/ AgRestore \/ AgAbort
  \/ AgCommit \/ AgReread \/ AgUnpatch \/ AgClose \/ AgRecheck \/ AgRepeak \/ AgSettle
  \/ AgLoad \/ AgSweep \/ AgDrop \/ AgLeave
  \/ \E e \in AgEdit : AgPersonEdits(e)

AgSpec == AgInit /\ [][AgNext]_agVars

-----------------------------------------------------------------------------
\* A receipt is given for an effect that the journal holds, and no recovery,
\* rollback or later operation takes the effect away again.
AgCommittedIsDurable == \A o \in AgOp : agRow[o].status = "committed" => o \in agDurable.text

\* An operation whose row says aborted has left nothing in the room that readers
\* are given, nor in the journal it would be reloaded from.
AgAbortedIsUndone ==
  agRoom = "live" /\ AgFree =>
    \A o \in AgOp : agRow[o].status = "aborted" =>
      o \notin agDoc.text /\ (o \in agDurable.text => agDoc.dirty)

\* What a cancellation answered stays true: requested, the operation never commits;
\* already committed, it stays committed.
AgCancelAnswersHold ==
  \A o \in AgOp : /\ agCancel[o] = "cancel_requested" => agRow[o].status # "committed"
                  /\ agCancel[o] = "already_committed" => agRow[o].status = "committed"

\* Putting a backup back never discards an edit that its author was told is saved.
AgEditsSurvive == agAcked \subseteq agDurable.text

\* The row tells the truth about the effect and about what a cancellation was
\* answered, and while an effect is in the journal and its row undecided, the
\* backup that could undo it exists; and no edit saved since is discarded.
AgRowsAreTrue ==
  /\ AgEditsSurvive
  /\ AgCommittedIsDurable /\ AgAbortedIsUndone /\ AgCancelAnswersHold
  /\ \A o \in AgOp : agRow[o].status = "prepared" /\ o \in agDurable.marks => agBackup[o] # AgNone

\* The load of a room settles the operation it finds prepared, one way or the
\* other, unless storage fails: a room is fenced only after a failure.
AgLoadSettles == agRoom = "fenced" => agFaults \cap {"write", "catalog", "commit"} # {}
=============================================================================
