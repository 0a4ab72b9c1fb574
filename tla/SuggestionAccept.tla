-------------------------- MODULE SuggestionAccept --------------------------
(***************************************************************************)
(* One suggestion of a document and what may be decided about it: accept,  *)
(* which edits the text and takes a checkpoint, reject, reopen, refine and *)
(* delete.  Every decision holds restore_write from its first look to its  *)
(* answer, so one is under way at a time; but it awaits the catalogue, and *)
(* a caller that goes away there lets the next one in while its job is     *)
(* still to run.  An acceptance is a receipt in the catalogue that is      *)
(* prepared, carries the exact edit before it is applied, the checkpoint   *)
(* once there is one, and is committed with the outcome of the comment.    *)
(*                                                                         *)
(* The text is the set of acceptance edits in it: an edit is numbered when *)
(* it is planned, and the same one applied again changes nothing.          *)
(***************************************************************************)
EXTENDS Naturals, FiniteSets

CONSTANTS
  SgRequest,   \* request ids of acceptances
  SgFaults,    \* subset of {"drop", "crash", "checkpoint", "refused", "overtake"}
  SgFailures,  \* bound on the failures of a behaviour
  SgDecisions, \* bound on the other decisions
  SgContains   \* the proposal contains the passage it replaces

ASSUME SgAssumption ==
  /\ SgFaults \subseteq {"drop", "crash", "checkpoint", "refused", "overtake"}
  /\ {SgFailures, SgDecisions} \subseteq Nat /\ SgContains \in BOOLEAN

VARIABLES
  sgRow,     \* the comment in the catalogue: outcome, version of the proposal, request; or gone
  sgRoom,    \* the comment in the memory of the room
  sgReceipt, \* the acceptance receipts
  sgLive, sgSaved, \* the edits in the live text, and in its durable copy
  sgCall,    \* the decision that holds restore_write
  sgOrphans, \* catalogue jobs whose caller went away
  sgUsed     \* edits planned, decisions and failures so far

sgVars == <<sgRow, sgRoom, sgReceipt, sgLive, sgSaved, sgCall, sgOrphans, sgUsed>>

Gone == [outcome |-> "gone", version |-> 0, request |-> "none"]
Pending == [outcome |-> "", version |-> 0, request |-> "none"]
SgIdle == [at |-> "idle"]
NoReceipt == [status |-> "none", version |-> 0, staged |-> {}, point |-> FALSE]

\* An acceptance whose receipt holds its edit or its checkpoint is staged.
SgStaged(r) == sgReceipt[r].status = "prepared" /\ (sgReceipt[r].staged # {} \/ sgReceipt[r].point)

SgFail(kind, n) ==
  /\ kind \in SgFaults /\ sgUsed.failures < SgFailures
  /\ sgUsed' = [sgUsed EXCEPT !.failures = @ + 1, !.plans = @ + n]

SgInit ==
  /\ sgRow = Pending /\ sgRoom = Pending
  /\ sgReceipt = [r \in SgRequest |-> NoReceipt]
  /\ sgLive = {} /\ sgSaved = {}
  /\ sgCall = SgIdle /\ sgOrphans = {}
  /\ sgUsed = [plans |-> 0, decisions |-> 0, failures |-> 0]

\* accept_suggestion: the first look, in the memory of the room.
Accept(r) ==
  /\ sgCall = SgIdle /\ sgRoom.outcome \notin {"gone", "accepted"}
  /\ sgCall' = [at |-> "begin", request |-> r, version |-> sgRoom.version, edits |-> {}]
  /\ UNCHANGED <<sgRow, sgRoom, sgReceipt, sgLive, sgSaved, sgOrphans, sgUsed>>

\* A catalogue job of the present call: earlier jobs ran before it, unless a
\* thread was overtaken.
SgInTurn == sgOrphans = {} \/ "overtake" \in SgFaults

\* begin_suggestion_accept.
Mine(c) == sgReceipt[c.request]
Opens(c) ==
  /\ Mine(c).status = "none" /\ sgRow.outcome \notin {"gone", "accepted"}
  /\ \A r \in SgRequest : ~SgStaged(r)
Resumes(c) == Mine(c).status = "prepared" /\ Mine(c).version = c.version
Answered(c) == Mine(c).status = "committed" /\ Mine(c).version = c.version
SgPrepare(c) ==
  sgReceipt' = IF Opens(c)
    THEN [sgReceipt EXCEPT ![c.request] = [NoReceipt EXCEPT !.status = "prepared", !.version = c.version]]
    ELSE sgReceipt

Accepted(r, v) == [outcome |-> "accepted", version |-> v, request |-> r]

BeginAccept ==
  /\ sgCall.at = "begin" /\ SgInTurn /\ SgPrepare(sgCall)
  /\ sgCall' = IF Opens(sgCall) \/ Resumes(sgCall) THEN [sgCall EXCEPT !.at = "look"] ELSE SgIdle
  /\ sgRoom' = IF Answered(sgCall) THEN Accepted(sgCall.request, sgRoom.version) ELSE sgRoom
  /\ UNCHANGED <<sgRow, sgLive, sgSaved, sgOrphans, sgUsed>>

\* (mutant) the room plans again although the receipt holds an edit.
LookAgain ==
  /\ sgCall.at = "look" /\ SgInTurn
  /\ sgCall' = [sgCall EXCEPT !.at = IF Mine(sgCall).point THEN "finish" ELSE "plan"]
  /\ UNCHANGED <<sgRow, sgRoom, sgReceipt, sgLive, sgSaved, sgOrphans, sgUsed>>

\* suggestion_accept_checkpoint, then suggestion_accept_update: what the receipt holds.
Look ==
  /\ sgCall.at = "look" /\ SgInTurn
  /\ LET held == Mine(sgCall).status = "prepared" IN
     sgCall' = IF held /\ Mine(sgCall).point THEN [sgCall EXCEPT !.at = "finish"]
               ELSE IF held /\ Mine(sgCall).staged # {}
                 THEN [sgCall EXCEPT !.at = "apply", !.edits = Mine(sgCall).staged]
               ELSE [sgCall EXCEPT !.at = "plan"]
  /\ UNCHANGED <<sgRow, sgRoom, sgReceipt, sgLive, sgSaved, sgOrphans, sgUsed>>

\* The edit on a scratch copy.  Where the passage is found it is replaced;
\* where an acceptance has replaced it already, the merge finds nothing to do.
Found == sgLive = {} \/ SgContains
Plan ==
  /\ sgCall.at = "plan"
  /\ LET n == IF Found THEN {sgUsed.plans + 1} ELSE {} IN
     /\ sgCall' = [sgCall EXCEPT !.at = "stage", !.edits = sgLive \cup n]
     /\ sgUsed' = [sgUsed EXCEPT !.plans = @ + Cardinality(n)]
  /\ UNCHANGED <<sgRow, sgRoom, sgReceipt, sgLive, sgSaved, sgOrphans>>

\* The passage is not where it was and the merge conflicts, or its base is lost.
Stale ==
  /\ sgCall.at = "plan" /\ sgCall' = SgIdle
  /\ UNCHANGED <<sgRow, sgRoom, sgReceipt, sgLive, sgSaved, sgOrphans, sgUsed>>

\* The jobs, which run for a caller or after it went away.
\* stage_suggestion_accept_update, record_suggestion_accept_checkpoint: into a
\* prepared receipt only.
StageJob(c) ==
  sgReceipt' = IF Resumes(c) THEN [sgReceipt EXCEPT ![c.request].staged = c.edits] ELSE sgReceipt
RecordJob(c) ==
  sgReceipt' = IF Resumes(c) THEN [sgReceipt EXCEPT ![c.request].point = TRUE] ELSE sgReceipt
\* finish_suggestion_accept: the outcome and the receipt in one transaction.
Finishes(c) == Resumes(c) /\ sgRow.outcome # "gone"
FinishJob(c) ==
  IF Finishes(c)
  THEN /\ sgReceipt' = [sgReceipt EXCEPT ![c.request].status = "committed"]
       /\ sgRow' = Accepted(c.request, sgRow.version)
  ELSE UNCHANGED <<sgReceipt, sgRow>>

Stage ==
  /\ sgCall.at = "stage" /\ SgInTurn /\ StageJob(sgCall)
  /\ sgCall' = IF Resumes(sgCall) THEN [sgCall EXCEPT !.at = "apply"] ELSE SgIdle
  /\ UNCHANGED <<sgRow, sgRoom, sgLive, sgSaved, sgOrphans, sgUsed>>

Apply ==
  /\ sgCall.at = "apply"
  /\ sgLive' = sgLive \cup sgCall.edits
  /\ sgCall' = [sgCall EXCEPT !.at = "checkpoint"]
  /\ UNCHANGED <<sgRow, sgRoom, sgReceipt, sgSaved, sgOrphans, sgUsed>>

\* checkpoint_now writes the session before it records the checkpoint.
Checkpoint ==
  /\ sgCall.at = "checkpoint"
  /\ sgSaved' = sgLive
  /\ sgCall' = [sgCall EXCEPT !.at = "record"]
  /\ UNCHANGED <<sgRow, sgRoom, sgReceipt, sgLive, sgOrphans, sgUsed>>
\* No budget, a lost lease, a storage error: the receipt stays prepared.
CheckpointFails ==
  /\ sgCall.at = "checkpoint" /\ SgFail("checkpoint", 0)
  /\ sgSaved' \in {sgSaved, sgLive} /\ sgCall' = SgIdle
  /\ UNCHANGED <<sgRow, sgRoom, sgReceipt, sgLive, sgOrphans>>

\* record_and_finish_suggestion_accept: two transactions of one job.
SgRecord ==
  /\ sgCall.at = "record" /\ SgInTurn /\ RecordJob(sgCall)
  /\ sgCall' = IF Resumes(sgCall) THEN [sgCall EXCEPT !.at = "finish"] ELSE SgIdle
  /\ UNCHANGED <<sgRow, sgRoom, sgLive, sgSaved, sgOrphans, sgUsed>>
FinishAccept ==
  /\ sgCall.at = "finish" /\ SgInTurn /\ FinishJob(sgCall)
  /\ sgCall' = SgIdle
  /\ sgRoom' = IF Finishes(sgCall) \/ Answered(sgCall)
               THEN Accepted(sgCall.request, sgRoom.version) ELSE sgRoom
  /\ UNCHANGED <<sgLive, sgSaved, sgOrphans, sgUsed>>

\* reject_suggestion, and the resolve, reopen, refine and delete of
\* apply_command: the catalogue is asked for a staged acceptance, the change
\* is prepared on a copy, and the whole row is written.
Decided(row) == {Gone}
  \cup (IF row.outcome # "accepted" THEN {[row EXCEPT !.outcome = "rejected"]} ELSE {})
  \cup (IF row.outcome = "rejected" THEN {[row EXCEPT !.outcome = ""]} ELSE {})
  \cup (IF row.outcome = "" THEN {[row EXCEPT !.version = 1]} ELSE {})
Decide ==
  /\ sgCall = SgIdle /\ sgUsed.decisions < SgDecisions
  /\ sgCall' = [at |-> "pending"]
  /\ sgUsed' = [sgUsed EXCEPT !.decisions = @ + 1]
  /\ UNCHANGED <<sgRow, sgRoom, sgReceipt, sgLive, sgSaved, sgOrphans>>
AskPending ==
  /\ sgCall.at = "pending" /\ SgInTurn
  /\ IF (\E r \in SgRequest : SgStaged(r)) \/ sgRoom.outcome = "gone"
     THEN sgCall' = SgIdle
     ELSE \E new \in Decided(sgRoom) : sgCall' = [at |-> "write", new |-> new]
  /\ UNCHANGED <<sgRow, sgRoom, sgReceipt, sgLive, sgSaved, sgOrphans, sgUsed>>
\* update_comment writes the row the room prepared, whatever the row says now.
WriteJob(c) == sgRow' = IF sgRow.outcome = "gone" THEN sgRow ELSE c.new
WriteDecision ==
  /\ sgCall.at = "write" /\ SgInTurn /\ WriteJob(sgCall)
  /\ sgRoom' = IF sgRow.outcome = "gone" /\ sgCall.new # Gone THEN sgRoom ELSE sgCall.new
  /\ sgCall' = SgIdle
  /\ UNCHANGED <<sgReceipt, sgLive, sgSaved, sgOrphans, sgUsed>>

\* The caller goes away.  A job it has dispatched still runs.
Dispatched == IF sgCall.at \in {"begin", "stage", "record", "finish", "write"} THEN {{}, {sgCall}} ELSE {{}}
SgDrop ==
  /\ sgCall.at \notin {"idle", "plan"} /\ SgFail("drop", 0)
  /\ \E j \in Dispatched : sgOrphans' = sgOrphans \cup j
  /\ sgCall' = SgIdle
  /\ UNCHANGED <<sgRow, sgRoom, sgReceipt, sgLive, sgSaved>>

\* The rest of a job whose caller went away.
RunOrphan(c) ==
  /\ c \in sgOrphans
  /\ CASE c.at = "begin" -> SgPrepare(c) /\ UNCHANGED sgRow
       [] c.at = "stage" -> StageJob(c) /\ UNCHANGED sgRow
       [] c.at = "record" -> RecordJob(c) /\ UNCHANGED sgRow
       [] c.at = "finish" -> FinishJob(c)
       [] OTHER -> WriteJob(c) /\ UNCHANGED sgReceipt
  /\ sgOrphans' = (sgOrphans \ {c}) \cup
       (IF c.at = "record" /\ Resumes(c) THEN {[c EXCEPT !.at = "finish"]} ELSE {})
  /\ UNCHANGED <<sgRoom, sgLive, sgSaved, sgCall, sgUsed>>

\* A job of the present call fails and changes nothing.
SgRefused ==
  /\ sgCall.at \notin {"idle", "plan", "apply", "checkpoint"} /\ SgFail("refused", 0)
  /\ sgCall' = SgIdle
  /\ UNCHANGED <<sgRow, sgRoom, sgReceipt, sgLive, sgSaved, sgOrphans>>

\* The room saves its document on its own clock.
SgSave ==
  /\ sgSaved' = sgLive
  /\ UNCHANGED <<sgRow, sgRoom, sgReceipt, sgLive, sgCall, sgOrphans, sgUsed>>

\* The process dies; the next one loads the room from what is durable.
SgCrash ==
  /\ SgFail("crash", 0)
  /\ sgRoom' = sgRow /\ sgLive' = sgSaved
  /\ sgCall' = SgIdle /\ sgOrphans' = {}
  /\ UNCHANGED <<sgRow, sgReceipt, sgSaved>>

SgNext ==
  \/ \E r \in SgRequest : Accept(r)
  \/ BeginAccept \/ Look \/ Plan \/ Stale \/ Stage \/ Apply
  \/ Checkpoint \/ CheckpointFails \/ SgRecord \/ FinishAccept
  \/ Decide \/ AskPending \/ WriteDecision
  \/ SgDrop \/ SgRefused \/ SgSave \/ SgCrash
  \/ \E c \in sgOrphans : RunOrphan(c)

SgSpec == SgInit /\ [][SgNext]_sgVars

----------------------------------------------------------------------------
SgTypeOK ==
  /\ {sgRow, sgRoom} \subseteq [outcome : {"", "rejected", "accepted", "gone"}, version : 0 .. 1,
                                request : SgRequest \cup {"none"}]
  /\ \A r \in SgRequest : sgReceipt[r].status \in {"none", "prepared", "committed"}
  /\ sgSaved \subseteq 1 .. sgUsed.plans /\ sgLive \subseteq 1 .. sgUsed.plans

\* A suggestion is accepted whole and once: the catalogue calls it accepted
\* only when the receipt that did it is committed and its edit is in the
\* durable text; however often the acceptance is retried the text holds the
\* proposal once; and nothing else is decided about a comment while an
\* acceptance of it is staged.
SgAcceptedOnce ==
  /\ sgRow.outcome = "accepted" =>
       sgReceipt[sgRow.request].status = "committed" /\ sgSaved # {}
  /\ Cardinality(sgLive) <= 1
  /\ (\E c \in {sgCall} \cup sgOrphans : c.at = "write") =>
       sgRow.outcome = "accepted" \/ \A r \in SgRequest : ~SgStaged(r)

\* What the room refuses to a comment it knows to be accepted: to reject it,
\* to refine it, to reopen it.
SgAcceptanceIsFinal ==
  [][sgRow.outcome = "accepted" => sgRow'.outcome \in {"accepted", "gone"}]_sgVars
=============================================================================
