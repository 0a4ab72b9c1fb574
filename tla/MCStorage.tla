------------------------------ MODULE MCStorage ------------------------------
(* What outlives a process, one component per behaviour: a live document over *)
(* the journal, the retirement of journal objects, the bytes the document is  *)
(* charged, its history, the erasure of an account, and, on a reader's        *)
(* machine, the render jobs of the local companion.  The behaviour picks a component (part) and takes steps   *)
(* of that one only, so the states of the run are the union of theirs, not    *)
(* the product.                                                               *)
EXTENDS RoomJournal, JournalRetention, ObjectAccounting, HistoryObjects,
  CompanionJobs, SuggestionAccept, AccountErasure, TLC

CONSTANTS q1, q2, q3

MCBody == SUBSET Edit
\* The rooms choose the bodies, so the clients of Journal's own Next are unused.
MCBodyOf == [id \in Identity |-> {}]

\* Three posts of one project: two that are recorded, the second newer.
MCCompScope == [r \in CompReq |-> "project"]
MCCompGen == q1 :> 1 @@ q2 :> 2 @@ q3 :> 1

MCErStages == <<"grants", "comments", "checkpoints">>

VARIABLE part

StorageInit ==
  /\ part \in {"rooms", "retention", "accounting", "history", "companion", "suggestion",
            "erasure"}
  /\ RoomInit /\ RetInit /\ AccInit /\ HistInit /\ CompInit /\ SgInit /\ ErInit
  \* A component that is not picked starts in one state.
  /\ part # "accounting" => accStatus = "active" /\ accKnown
  /\ part # "erasure" => Named = {} /\ erOwned = Absent

StorageNext ==
  /\ part' = part
  /\ IF part = "rooms" THEN DroppedRoomNext ELSE UNCHANGED allVars
  /\ IF part = "retention" THEN RetNext ELSE UNCHANGED retVars
  /\ IF part = "accounting" THEN AccNext ELSE UNCHANGED accVars
  \* Two changes of the document, or one and a failure.
  /\ IF part = "history" THEN HistNext /\ histEdited' + histFails' <= 2 ELSE UNCHANGED histVars
  \* The folder's grant changes, or something fails.
  /\ IF part = "companion" THEN CompNext /\ coUsed'.grants + coUsed'.faults <= 2
     ELSE UNCHANGED compVars
  /\ IF part = "suggestion" THEN SgNext ELSE UNCHANGED sgVars
  /\ IF part = "erasure" THEN ErNext ELSE UNCHANGED erVars

StorageSpec ==
  StorageInit /\ [][StorageNext]_
    <<part, allVars, retVars, accVars, histVars, compVars, sgVars, erVars>>
=============================================================================
