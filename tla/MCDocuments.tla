----------------------------- MODULE MCDocuments -----------------------------
(* What works on one document at a time, one component per behaviour: its     *)
(* creation and deletion, the index that lists it, the published page,        *)
(* prepared agent operations, the reservations of edits, the two sync         *)
(* clients, the sockets of its editors, the backups of its deployment,        *)
(* requests to the assistant and its tool calls.  The behaviour picks a       *)
(* component (part) and takes steps of that one only, so the states of the    *)
(* run are the union of theirs, not the product.                              *)
EXTENDS Publication, AgentOperation, EditReservations, FileSync, ProjectSync, Backup,
  AssistantChannel, ToolReceipts, DocumentLifecycle, DocumentIndex, MCSession, TLC

CONSTANTS p1, p2, x, y, h1, h2, h3, h4, h5, h6, s, t, u

MCBundle == p1 :> {x} @@ p2 :> {x, y}
\* Three documents of one owner, one more than the quota admits: one is created
\* and modified by both servers, one created and removed, one created.
MCIdxKind == h1 :> "put" @@ h2 :> "put" @@ h3 :> "modify" @@ h4 :> "modify" @@ h5 :> "remove"
           @@ h6 :> "put"
MCIdxSlug == h1 :> s @@ h2 :> t @@ h3 :> s @@ h4 :> s @@ h5 :> t
           @@ h6 :> u
\* What fails together: what a caller or storage does to an operation, with
\* every failure of the catalogue, or with a commit whose answer is lost, or
\* with requests dropped half way.
MCAgFaults ==
  {{"crash", "cancel", "revoke", "write", "catalog", "refuse"},
   {"commit", "cancel", "revoke", "write", "refuse"},
   {"drop", "crash", "cancel", "write", "refuse"}}

VARIABLE part

DocumentsInit ==
  /\ part \in {"publication", "agent", "edits", "file", "project",
             "local backup", "bucket backup", "chat", "receipts",
             "lifecycle", "index", "session"}
  /\ PubInit /\ AgInit /\ EditInit /\ SyncInit /\ PjInit /\ BakInit /\ ChatInit /\ ToolInit
  /\ DocInit /\ IdxInit /\ SessInit
  \* The components that are not picked start in one state.
  /\ part # "agent" => agFaults = CHOOSE F \in AgFaults : TRUE
  /\ part # "file" => syFile = SyncNone
  /\ part # "session" => sessLeft = CHOOSE F \in SessFaults : TRUE
  /\ part # "project" => \A f \in PjText : pjFiles[f] = {} /\ pjRoom = NoDoc

DocumentsNext ==
  /\ part' = part
  /\ IF part = "publication" THEN PubNext ELSE UNCHANGED pubVars
  /\ IF part = "agent" THEN AgNext ELSE UNCHANGED agVars
  /\ IF part = "edits" THEN EditNext ELSE UNCHANGED edVars
  /\ IF part = "file" THEN SyncNext ELSE UNCHANGED syVars
  /\ IF part = "project" THEN PjNext ELSE UNCHANGED pjVars
  /\ CASE part = "local backup" -> BakLocalNext
       [] part = "bucket backup" -> BakRemoteNext
       [] OTHER -> UNCHANGED bakVars
  \* The runner connects again, or a request is cancelled.
  /\ IF part = "chat" THEN ChatNext /\ chUsed'.agent + Cardinality(chUsed'.cancel) <= 2
     ELSE UNCHANGED chVars
  /\ IF part = "receipts" THEN ToolNext ELSE UNCHANGED toolVars
  /\ IF part = "lifecycle" THEN DocNext ELSE UNCHANGED docVars
  /\ IF part = "index" THEN IdxNext ELSE UNCHANGED ixVars
  /\ IF part = "session" THEN SessNext ELSE UNCHANGED sessVars

DocumentsSpec ==
  DocumentsInit /\ [][DocumentsNext]_
    <<part, pubVars, agVars, edVars, syVars, pjVars, bakVars, chVars, toolVars,
      docVars, ixVars, sessVars>>
=============================================================================
