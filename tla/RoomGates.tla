----------------------------- MODULE RoomGates -----------------------------
(***************************************************************************)
(* The write gates of one open room, and the order its operations take     *)
(* them in.  A room keeps a Mutex for its restores, comments, publications,*)
(* checkpoints, manifest, assets and session, and an RwLock that keeps     *)
(* ordinary checkpoints out of a publication; every operation is an async  *)
(* function that takes some of them, holds them across its storage calls   *)
(* and drops them when it returns or when its future is dropped.  The      *)
(* rendered publication has one more gate, shared by all its callers.      *)
(*                                                                         *)
(* An operation is written down as the steps of its function that matter   *)
(* to the gates: what it takes and gives back, where it fixes the text its *)
(* edit is based on, where it edits the shared document, and where it      *)
(* captures that document for storage.  Room state itself is a leaf lock,  *)
(* never held while a gate is awaited, and is left out.                    *)
(***************************************************************************)
EXTENDS Naturals, Sequences, SequencesExt, FiniteSets

CONSTANTS GateTask,      \* the requests, socket readers and timers at work
          GateIdle,      \* what a task with nothing to do runs
          GateMixes,     \* sets of operations that may be at work together
          GateRequests   \* how many operations one behaviour starts

VARIABLES gateMix,       \* the operations of this behaviour
          gateOp,        \* what each task runs
          gateSteps,     \* the steps it has left
          gateHolders,   \* who holds each gate
          gateShared,    \* whether they hold it for reading
          gateQueue,     \* who waits for each gate, in order
          gateUnsettled, \* tasks whose edit may still be rolled back
          gateBased,     \* tasks that have fixed the base of their edit
          gateStarted    \* operations started so far
gateVars == <<gateMix, gateOp, gateSteps, gateHolders, gateShared, gateQueue,
              gateUnsettled, gateBased, gateStarted>>

Gates == {"rendered", "restore", "comment", "publication",
          "publication_checkpoint", "checkpoint", "manifest", "assets",
          "session"}

HoldGate(g)  == <<[do |-> "take", gate |-> g]>>
Share(g) == <<[do |-> "share", gate |-> g]>>
Give(g)  == <<[do |-> "give", gate |-> g]>>
Within(g, steps) == HoldGate(g) \o steps \o Give(g)
Base   == <<[do |-> "base", gate |-> "none"]>>
GateEdit   == <<[do |-> "edit", gate |-> "none"]>>     \* an edit that stands
Tentative == <<[do |-> "try", gate |-> "none"]>>   \* one a failure takes back
Snap   == <<[do |-> "snap", gate |-> "none"]>>
GateSettle == <<[do |-> "settle", gate |-> "none"]>>

\* The writers every operation goes through.
WriteSessionInner == Within("session", Snap)
\* Mutant: the timer's save does not take its permit.
SaveUnguarded == WriteSessionInner
GateWriteSession ==
    Share("publication_checkpoint") \o WriteSessionInner
        \o Give("publication_checkpoint")
PruneRetained == Within("manifest", Within("assets", <<>>))
CheckpointLocked ==
    Within("checkpoint", Snap \o WriteSessionInner
                          \o Within("manifest", <<>>) \* the staged manifest
                          \o Within("manifest", <<>>) \* its refresh
                          \o PruneRetained)
CheckpointRoom ==
    Share("publication_checkpoint") \o CheckpointLocked
        \o Give("publication_checkpoint")
PutAsset == Within("assets", <<>>) \o Within("assets", <<>>)
RollBack == Within("assets", GateEdit) \o WriteSessionInner
-----------------------------------------------------------------------------
(* The operations. *)
GateReceiveUpdate == HoldGate("publication") \o HoldGate("assets") \o GateEdit
ReadDocument  == HoldGate("publication")
NameAsset     == HoldGate("publication") \o HoldGate("assets") \o GateEdit
Label         == HoldGate("manifest")
Refresh       == HoldGate("manifest")
AppendComment == HoldGate("comment")
Restore ==
    HoldGate("restore") \o CheckpointRoom \o Base \o Within("assets", GateEdit)
        \o CheckpointRoom \o GateSettle
AcceptSuggestion ==
    HoldGate("restore") \o Base \o GateEdit \o CheckpointRoom \o HoldGate("comment")
        \o GateSettle
RejectSuggestion == HoldGate("restore") \o HoldGate("comment")
ApplyCommand     == HoldGate("restore") \o HoldGate("comment")
SuggestionBatch  == HoldGate("restore") \o HoldGate("comment")
ApplyAgent ==
    HoldGate("restore") \o HoldGate("comment") \o HoldGate("publication") \o Base
        \o HoldGate("publication_checkpoint") \o Tentative \o WriteSessionInner
        \o RollBack \o GateSettle
RecoverAgent ==
    HoldGate("restore") \o HoldGate("comment") \o HoldGate("publication") \o Base
        \o HoldGate("publication_checkpoint") \o Tentative \o RollBack \o GateSettle
AgentAnnotations ==
    HoldGate("restore") \o HoldGate("comment") \o HoldGate("publication")
AgentCheckpoint == HoldGate("publication") \o CheckpointRoom
\* Mutant: the publication gate before the restore gate.
PublishBackwards ==
    HoldGate("publication") \o HoldGate("restore") \o HoldGate("publication_checkpoint")
        \o Base \o PutAsset \o Tentative \o CheckpointLocked \o RollBack
        \o GateSettle
PublishInto ==
    HoldGate("restore") \o HoldGate("publication") \o HoldGate("publication_checkpoint")
        \o Base \o PutAsset \o Tentative \o CheckpointLocked \o RollBack
        \o GateSettle
PublishNew ==
    HoldGate("restore") \o HoldGate("publication") \o HoldGate("publication_checkpoint")
        \o CheckpointLocked
\* Mutant: the checkpoint gate before the restore gate.
PurgeBackwards ==
    HoldGate("checkpoint") \o HoldGate("restore") \o HoldGate("manifest")
        \o HoldGate("session")
Purge ==
    HoldGate("restore") \o HoldGate("checkpoint") \o HoldGate("manifest")
        \o HoldGate("session")
DecideRevision == HoldGate("publication") \o GateEdit \o GateWriteSession

\* What the comment routes wrap around them: the publication gate is held
\* from before the operation starts until its answer has been sent.
RouteAccept  == HoldGate("publication") \o AcceptSuggestion
RouteReject  == HoldGate("publication") \o RejectSuggestion
RouteComment == HoldGate("publication") \o CheckpointRoom \o ApplyCommand
RouteRendered == HoldGate("rendered") \o RouteComment
SocketDecide == HoldGate("publication") \o DecideRevision
Activate == HoldGate("rendered")

GateSteps ==
    [receive_update |-> GateReceiveUpdate, read |-> ReadDocument,
     name_asset |-> NameAsset, put_asset |-> PutAsset, label |-> Label,
     refresh |-> Refresh, append_comment |-> AppendComment,
     write_session |-> GateWriteSession, checkpoint |-> CheckpointRoom,
     restore |-> Restore, batch |-> SuggestionBatch,
     agent_apply |-> ApplyAgent, agent_recover |-> RecoverAgent,
     agent_annotate |-> AgentAnnotations,
     agent_checkpoint |-> AgentCheckpoint, publish |-> PublishInto,
     publish_new |-> PublishNew, purge |-> Purge, accept |-> RouteAccept,
     reject |-> RouteReject, comment |-> RouteComment,
     rendered_comment |-> RouteRendered, decide |-> SocketDecide,
     activate |-> Activate]

GateOps == DOMAIN GateSteps
\* A task with nothing to do runs no operation.
ASSUME GateAssumption ==
    GateIdle \notin GateOps /\ \A mix \in GateMixes : mix \subseteq GateOps

\* Socket readers and timers run to the end; a request's future goes with
\* the connection it came in on.
Requests ==
    {"put_asset", "label", "restore", "batch", "agent_apply",
     "agent_recover", "agent_annotate", "agent_checkpoint", "publish",
     "publish_new", "accept", "reject", "comment", "rendered_comment",
     "read", "activate"}
-----------------------------------------------------------------------------
GateInit ==
    /\ gateMix \in GateMixes
    /\ gateOp = [t \in GateTask |-> GateIdle]
    /\ gateSteps = [t \in GateTask |-> <<>>]
    /\ gateHolders = [g \in Gates |-> {}]
    /\ gateShared = [g \in Gates |-> FALSE]
    /\ gateQueue = [g \in Gates |-> <<>>]
    /\ gateUnsettled = {}
    /\ gateBased = {}
    /\ gateStarted = 0

Working(t) == gateOp[t] # GateIdle
Waits(t) == \E g \in Gates : t \in ToSet(gateQueue[g])
Coming(t) == Head(gateSteps[t]).do
Gate(t) == Head(gateSteps[t]).gate
AtStep(t, kinds) ==
    Working(t) /\ gateSteps[t] # <<>> /\ ~Waits(t) /\ Coming(t) \in kinds
Pass(t) == gateSteps' = [gateSteps EXCEPT ![t] = Tail(@)]

\* A route, a socket message or the timer starts an operation.
GateBegin(t, op) ==
    /\ ~Working(t) /\ op \in gateMix /\ gateStarted < GateRequests
    /\ gateOp' = [gateOp EXCEPT ![t] = op]
    /\ gateSteps' = [gateSteps EXCEPT ![t] = GateSteps[op]]
    /\ gateStarted' = gateStarted + 1
    /\ UNCHANGED <<gateMix, gateHolders, gateShared, gateQueue,
                   gateUnsettled, gateBased>>

\* A free gate is taken at once; otherwise the task joins the end of its
\* queue.  tokio's locks are fair, and none of them is reentrant.
GateIsFree(g, do) == gateHolders[g] = {} \/ (gateShared[g] /\ do = "share")
Enter(t, g) ==
    /\ gateHolders' = [gateHolders EXCEPT ![g] = @ \cup {t}]
    /\ gateShared' = [gateShared EXCEPT ![g] = Coming(t) = "share"]
    /\ Pass(t)
    /\ UNCHANGED <<gateMix, gateOp, gateUnsettled, gateBased, gateStarted>>
GateTake(t) ==
    /\ AtStep(t, {"take", "share"})
    /\ gateQueue[Gate(t)] = <<>> /\ GateIsFree(Gate(t), Coming(t))
    /\ Enter(t, Gate(t))
    /\ UNCHANGED gateQueue
GateWait(t) ==
    /\ AtStep(t, {"take", "share"})
    /\ gateQueue[Gate(t)] # <<>> \/ ~GateIsFree(Gate(t), Coming(t))
    /\ gateQueue' = [gateQueue EXCEPT ![Gate(t)] = Append(@, t)]
    /\ UNCHANGED <<gateMix, gateOp, gateSteps, gateHolders, gateShared,
                   gateUnsettled, gateBased, gateStarted>>
GateGrant(g) ==
    /\ gateQueue[g] # <<>> /\ GateIsFree(g, Coming(Head(gateQueue[g])))
    /\ Enter(Head(gateQueue[g]), g)
    /\ gateQueue' = [gateQueue EXCEPT ![g] = Tail(@)]

\* A guard's scope ends.
GateDrop(t) ==
    /\ AtStep(t, {"give"})
    /\ gateHolders' = [gateHolders EXCEPT ![Gate(t)] = @ \ {t}]
    /\ Pass(t)
    /\ UNCHANGED <<gateMix, gateOp, gateShared, gateQueue, gateUnsettled,
                   gateBased, gateStarted>>

\* The steps that touch the document.
GateWork(t) ==
    /\ AtStep(t, {"base", "edit", "try", "snap", "settle"})
    /\ gateBased' = CASE Coming(t) = "base" -> gateBased \cup {t}
                      [] Coming(t) = "settle" -> gateBased \ {t}
                      [] OTHER -> gateBased
    /\ gateUnsettled' = CASE Coming(t) = "try" -> gateUnsettled \cup {t}
                          [] Coming(t) = "settle" -> gateUnsettled \ {t}
                          [] OTHER -> gateUnsettled
    /\ Pass(t)
    /\ UNCHANGED <<gateMix, gateOp, gateHolders, gateShared, gateQueue,
                   gateStarted>>

\* A queue without the place t has in it.
Withdrawn(q, t) ==
    IF t \in ToSet(q) THEN RemoveAt(q, CHOOSE i \in DOMAIN q : q[i] = t) ELSE q

\* Every guard of the operation's frame is dropped, and a pending wait
\* withdrawn.
Leave(t) ==
    /\ gateOp' = [gateOp EXCEPT ![t] = GateIdle]
    /\ gateSteps' = [gateSteps EXCEPT ![t] = <<>>]
    /\ gateHolders' = [g \in Gates |-> gateHolders[g] \ {t}]
    /\ gateQueue' = [g \in Gates |-> Withdrawn(gateQueue[g], t)]
    /\ gateUnsettled' = gateUnsettled \ {t}
    /\ gateBased' = gateBased \ {t}
    /\ UNCHANGED <<gateMix, gateShared, gateStarted>>

\* It returns: at its end, or early where a check or a storage call failed.
GateReturn(t) ==
    /\ Working(t) /\ ~Waits(t) /\ t \notin gateUnsettled
    /\ Leave(t)
\* Its caller hangs up, wherever it is.
GateHangUp(t) ==
    /\ Working(t) /\ gateOp[t] \in Requests
    /\ Leave(t)

GateProgress(t) ==
    GateTake(t) \/ GateWait(t) \/ GateDrop(t) \/ GateWork(t)
        \/ (gateSteps[t] = <<>> /\ GateReturn(t))
GateNext ==
    \/ \E t \in GateTask : \/ \E op \in gateMix : GateBegin(t, op)
                           \/ GateTake(t) \/ GateWait(t) \/ GateDrop(t)
                           \/ GateWork(t) \/ GateReturn(t) \/ GateHangUp(t)
    \/ \E g \in Gates : GateGrant(g)

GateSpec == GateInit /\ [][GateNext]_gateVars

\* An operation that is not waiting runs, and a free gate is handed over.
GateFairness == /\ \A t \in GateTask : WF_gateVars(GateProgress(t))
                /\ \A g \in Gates : WF_gateVars(GateGrant(g))
GateFairSpec == GateSpec /\ GateFairness
-----------------------------------------------------------------------------
\* No set of operations waits for itself: there is no circle in which each
\* needs a gate that the next one holds or is queued for ahead of it, and no
\* operation that waits for a gate it holds itself.  The orders of the gates
\* are documented where they are taken (documents.rs, agent.rs, retention.rs,
\* mod.rs); together they must not allow a circle.
GateAhead(t, g) ==
    gateHolders[g] \cup
    {gateQueue[g][i] : i \in {j \in DOMAIN gateQueue[g] :
                                \E k \in DOMAIN gateQueue[g] :
                                    k > j /\ gateQueue[g][k] = t}}
GateNoStandoff ==
    \A S \in SUBSET GateTask :
        S # {} => \E t \in S :
            \A g \in Gates :
                t \in ToSet(gateQueue[g]) => GateAhead(t, g) \cap S = {}

\* While an operation's edit may still be taken back, no other operation
\* captures the document for storage: neither the timer's save nor anybody's
\* checkpoint can make an edit durable that its own operation then undoes.
GateNoTransientSnapshot ==
    \A t \in GateTask :
        AtStep(t, {"snap"}) => gateUnsettled \subseteq {t}

\* From where an operation fixes the text its edit is based on until it has
\* settled, no other such operation edits the document; only what people type
\* arrives in between.
GateBaseHolds ==
    \A t \in gateBased : \A u \in GateTask \ {t} :
        ~(u \in gateBased /\ AtStep(u, {"edit", "try"}))

\* What operations edit is serial although they await storage: nobody saves
\* another's unsettled edit, and nobody edits under another's base.
GateEditsAreSerial == GateNoTransientSnapshot /\ GateBaseHolds

\* Every operation comes to its end, whatever the others do.
GateEveryoneGetsThrough == \A t \in GateTask : Working(t) ~> ~Working(t)
=============================================================================
