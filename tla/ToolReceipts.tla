----------------------------- MODULE ToolReceipts -----------------------------
(* What the assistant's tool calls did to the document, and what its runner   *)
(* knows of it: calls with an operation key go through the adapter            *)
(* (cli/mcp.rs), which records each in the runner's journal                   *)
(* (cli/runner_journal.rs) before it sends it and again when it is answered;  *)
(* the server (server/mcp/operations.rs, server/mcp/cancel.rs) keeps one      *)
(* receipt per key, and a batch commits its parts one by one; a runner that   *)
(* starts asks for the receipts it has no answer to (cli/runner.rs).          *)
(*                                                                            *)
(* One task; keys are numbers, in the order the journal sorts them.           *)
EXTENDS Naturals, FiniteSets, Sequences, SequencesExt

CONSTANTS
  ToolOp,      \* operation keys
  ToolBatch,   \* those of independent batches, of two parts each
  ToolJob,     \* the workers of the adapter
  ToolEvents,  \* MAX_EVENTS
  ToolTake,    \* receipts a starting runner asks for
  ToolCalls,   \* bounds the calls
  ToolNotes,   \* bounds the events without an operation
  ToolFaults,  \* subset of {"lost", "drop", "crash", "offline", "item"}
  ToolFailures \* bounds the faults

ASSUME ToolAssumption ==
  /\ ToolOp \subseteq Nat /\ IsFiniteSet(ToolOp) /\ ToolBatch \subseteq ToolOp
  /\ ToolEvents \in Nat \ {0} /\ ToolTake \in Nat \ {0}
  /\ ToolCalls \in Nat /\ ToolNotes \in Nat /\ ToolFailures \in Nat

VARIABLES
  tlParts,    \* per key the parts whose effects are in the document
  tlReceipt,  \* per key whether its receipt is stored, and the parts it names
  tlCancel,   \* per key: none, requested, already
  tlLease,    \* the execution lease: its number, and whether it is active
  tlJob,      \* per worker the call it handles
  tlJournal,  \* the events of the runner's journal
  tlRunner,   \* down, reconciling, offline, joined
  tlAsk,      \* receipts a starting runner still asks for
  tlTold,     \* history: per key the parts the journal ever confirmed
  tlUsed      \* calls, notes and faults used up

tlServerVars == <<tlParts, tlReceipt, tlCancel>>
toolVars == <<tlServerVars, tlLease, tlJob, tlJournal, tlRunner, tlAsk, tlTold, tlUsed>>

NoReceipt == [done |-> FALSE, items |-> {}]
Unsettled == [settled |-> FALSE, ids |-> {}]
NoJob == [step |-> "idle", kind |-> "call", op |-> 0, epoch |-> 0, todo |-> {}, items |-> {},
          answer |-> Unsettled, heard |-> FALSE]

ToolInit ==
  /\ tlParts = [o \in ToolOp |-> {}] /\ tlReceipt = [o \in ToolOp |-> NoReceipt]
  /\ tlCancel = [o \in ToolOp |-> "none"]
  /\ tlLease = [number |-> 0, active |-> FALSE]
  /\ tlJob = [j \in ToolJob |-> NoJob]
  /\ tlJournal = <<>> /\ tlRunner = "down" /\ tlAsk = {}
  /\ tlTold = [o \in ToolOp |-> {}]
  /\ tlUsed = [calls |-> 0, notes |-> 0, faults |-> 0]

Parts(o) == IF o \in ToolBatch THEN {1, 2} ELSE {1}
Fault(f) == /\ f \in ToolFaults /\ tlUsed.faults < ToolFailures
            /\ tlUsed' = [tlUsed EXCEPT !.faults = @ + 1]

-----------------------------------------------------------------------------
(* The journal *)

Keys(events) == {events[i].key : i \in DOMAIN events} \ {<<"note", 0>>}
Latest(events, k) == events[Max({i \in DOMAIN events : events[i].key = k})]
\* unresolved_keys, pending_operations: the last event of a key decides.
Unresolved(events) == {k \in Keys(events) : ~Latest(events, k).resolved}

\* Forgetting the oldest event whatever it is for.
TrimmedOldest(events) == IF Len(events) <= ToolEvents THEN events ELSE Tail(events)
\* Over the limit, the oldest event that no unresolved key needs is forgotten.
Spare(events) == {i \in DOMAIN events : events[i].key \notin Unresolved(events)}
Trimmed(events) ==
  IF Len(events) <= ToolEvents THEN events ELSE RemoveAt(events, Min(Spare(events)))

\* An event of the journal: its key, whether it resolves it, and the parts of
\* the document's effects it names.
Event(k, resolved, ids) == [key |-> k, resolved |-> resolved, ids |-> ids]
HasRoom(e) == Len(tlJournal) < ToolEvents \/ Spare(Append(tlJournal, e)) # {}
Written(e) ==
  /\ HasRoom(e)
  /\ tlJournal' = Trimmed(Append(tlJournal, e))
  /\ tlTold' = IF e.key[1] = "call" THEN [tlTold EXCEPT ![e.key[2]] = @ \cup e.ids] ELSE tlTold
NotWritten == UNCHANGED <<tlJournal, tlTold>>

-----------------------------------------------------------------------------
(* The server *)

Live(epoch) == tlLease.active /\ tlLease.number = epoch
ToolSettled(ids) == [settled |-> TRUE, ids |-> ids]
\* mcp_cancelled_children: a cancelled batch names the parts that are there.
Cancelled(o) == ToolSettled(IF o \in ToolBatch THEN tlParts[o] ELSE {})

Answered(j, answer) == tlJob' = [tlJob EXCEPT ![j].step = "answer", ![j].answer = answer]

\* mcp_operation: a stored receipt is returned again, a cancelled key refused,
\* and any other key admitted.  The transactions below look at all of it again.
StartCall(j, o) ==
  \/ tlReceipt[o].done /\ Answered(j, ToolSettled(tlReceipt[o].items))
  \/ ~tlReceipt[o].done /\ tlCancel[o] = "requested" /\ Answered(j, Cancelled(o))
  \/ /\ ~tlReceipt[o].done /\ tlCancel[o] # "requested"
     /\ tlJob' = [tlJob EXCEPT ![j].step = "work", ![j].todo = Parts(o)]

\* mcp_result: the cancellation, the receipt, or no outcome.
Looked(o) ==
  IF tlCancel[o] = "requested" THEN Cancelled(o)
  ELSE IF tlReceipt[o].done THEN ToolSettled(tlReceipt[o].items) ELSE Unsettled

\* mcp_cancel, cancel_agent_operation: a key with a receipt stays what it is.
CancelOf(o) == IF tlCancel[o] # "none" THEN tlCancel[o]
               ELSE IF tlReceipt[o].done THEN "already" ELSE "requested"
StartCancel(j, o) ==
  /\ tlCancel' = [tlCancel EXCEPT ![o] = CancelOf(o)]
  /\ Answered(j, IF CancelOf(o) = "requested" THEN Cancelled(o) ELSE ToolSettled(tlReceipt[o].items))

ServerStart(j) ==
  /\ tlJob[j].step = "sent"
  /\ LET job == tlJob[j]
     IN \/ /\ ~Live(job.epoch) /\ Answered(j, Unsettled) /\ UNCHANGED tlCancel
        \/ /\ Live(job.epoch) /\ job.kind = "call" /\ StartCall(j, job.op) /\ UNCHANGED tlCancel
        \/ /\ Live(job.epoch) /\ job.kind = "lookup" /\ Answered(j, Looked(job.op))
           /\ UNCHANGED tlCancel
        \/ /\ Live(job.epoch) /\ job.kind = "cancel" /\ StartCancel(j, job.op)
  /\ UNCHANGED <<tlParts, tlReceipt, tlLease, tlJournal, tlRunner, tlAsk, tlTold, tlUsed>>

\* A transaction that does not look at the cancellation of the whole batch.
MayCommitPart(j) == Live(tlJob[j].epoch)
\* agent_annotations: one transaction commits under the lease unless the key,
\* or the batch the part is of, is cancelled.
MayCommit(j) == Live(tlJob[j].epoch) /\ tlCancel[tlJob[j].op] # "requested"

\* The next part of a batch, unless the batch is seen to be cancelled: it
\* commits, or fails and is reported as failed.
ServerPart(j) ==
  /\ tlJob[j].step = "work" /\ tlJob[j].op \in ToolBatch /\ tlJob[j].todo # {}
  /\ LET job == tlJob[j]
         p == Min(job.todo)
         rest == [job EXCEPT !.todo = @ \ {p}]
     IN \/ /\ tlCancel[job.op] = "requested" /\ Answered(j, Cancelled(job.op))
           /\ UNCHANGED <<tlParts, tlUsed>>
        \/ /\ MayCommit(j)
           /\ tlParts' = [tlParts EXCEPT ![job.op] = @ \cup {p}]
           /\ tlJob' = [tlJob EXCEPT ![j] = [rest EXCEPT !.items = @ \cup {p}]]
           /\ UNCHANGED tlUsed
        \/ /\ tlJob' = [tlJob EXCEPT ![j] = rest] /\ UNCHANGED tlParts
           /\ \/ ~Live(job.epoch) /\ UNCHANGED tlUsed
              \/ Live(job.epoch) /\ Fault("item")
  /\ UNCHANGED <<tlReceipt, tlCancel, tlLease, tlJournal, tlRunner, tlAsk, tlTold>>

\* The receipt: of a batch, after its parts; of anything else, with its effect.
ServerCommit(j) ==
  /\ tlJob[j].step = "work" /\ (tlJob[j].op \in ToolBatch => tlJob[j].todo = {})
  /\ LET o == tlJob[j].op
         items == IF o \in ToolBatch THEN tlJob[j].items ELSE {1}
     IN \/ /\ Live(tlJob[j].epoch) /\ tlReceipt[o].done
           /\ Answered(j, ToolSettled(tlReceipt[o].items)) /\ UNCHANGED <<tlParts, tlReceipt>>
        \/ /\ ~tlReceipt[o].done /\ MayCommit(j)
           /\ tlReceipt' = [tlReceipt EXCEPT ![o] = [done |-> TRUE, items |-> items]]
           /\ tlParts' = [tlParts EXCEPT ![o] = @ \cup items]
           /\ Answered(j, ToolSettled(items))
        \/ /\ ~Live(tlJob[j].epoch) \/ (~tlReceipt[o].done /\ ~MayCommit(j))
           /\ Answered(j, Unsettled) /\ UNCHANGED <<tlParts, tlReceipt>>
  /\ UNCHANGED <<tlCancel, tlLease, tlJournal, tlRunner, tlAsk, tlTold, tlUsed>>

-----------------------------------------------------------------------------
(* The adapter *)

\* The workers are alike: any idle one takes the next call.
Workers == {j \in ToolJob : tlJob[j].step = "idle"}
NextWorker == CHOOSE j \in Workers : TRUE

\* process_job: the call is journalled, then sent with the lease of the moment
\* it was read; what cannot be journalled is not sent.
Call(j, kind, o) ==
  /\ tlRunner \in {"offline", "joined"} /\ j \in Workers /\ j = NextWorker /\ tlUsed.calls < ToolCalls
  /\ tlUsed' = [tlUsed EXCEPT !.calls = @ + 1]
  /\ Written(Event(<<kind, o>>, FALSE, {}))
  /\ tlJob' = [tlJob EXCEPT ![j] =
       [NoJob EXCEPT !.step = "sent", !.kind = kind, !.op = o, !.heard = TRUE,
                     !.epoch = IF tlRunner = "joined" THEN tlLease.number ELSE 0]]
  /\ UNCHANGED <<tlServerVars, tlLease, tlRunner, tlAsk>>

\* The answer is withheld when the lease is gone by then.  record_tool_result:
\* of a lookup only what this task itself called counts.
Received(j) ==
  LET job == tlJob[j]
  IN IF ~Live(job.epoch) THEN Unsettled
     ELSE IF job.kind = "call" \/ <<"call", job.op>> \in Keys(tlJournal) THEN job.answer
     ELSE [job.answer EXCEPT !.ids = {}]
Record(j) ==
  /\ tlJob[j].step = "answer"
  /\ LET job == tlJob[j]
         answer == Received(j)
         e == Event(<<job.kind, job.op>>, answer.settled, answer.ids)
     IN \/ ~job.heard /\ NotWritten /\ tlJob' = [tlJob EXCEPT ![j] = NoJob]
        \/ job.heard /\ ~HasRoom(e) /\ NotWritten /\ tlJob' = [tlJob EXCEPT ![j] = NoJob]
        \/ /\ job.heard /\ Written(e)
           /\ tlJob' = [tlJob EXCEPT ![j] =
                IF job.kind # "call" /\ answer.settled
                THEN [job EXCEPT !.step = "settle", !.answer = answer] ELSE NoJob]
  /\ UNCHANGED <<tlServerVars, tlLease, tlRunner, tlAsk, tlUsed>>
\* A settled lookup or cancellation resolves the call it was about.
Settle(j) ==
  /\ tlJob[j].step = "settle"
  /\ LET k == <<"call", tlJob[j].op>>
         e == Event(k, TRUE, tlJob[j].answer.ids)
     IN IF tlJob[j].heard /\ k \in Unresolved(tlJournal) /\ HasRoom(e) THEN Written(e) ELSE NotWritten
  /\ tlJob' = [tlJob EXCEPT ![j] = NoJob]
  /\ UNCHANGED <<tlServerVars, tlLease, tlRunner, tlAsk, tlUsed>>

\* The connection of a call is lost: nobody hears its answer, and the server
\* may drop its work between two steps.
AnswerLost(j) ==
  /\ tlJob[j].step \notin {"idle", "settle"} /\ tlJob[j].heard /\ Fault("lost")
  /\ tlJob' = [tlJob EXCEPT ![j].heard = FALSE]
  /\ UNCHANGED <<tlServerVars, tlLease, tlJournal, tlRunner, tlAsk, tlTold>>
WorkDropped(j) ==
  /\ tlJob[j].step \in {"sent", "work"} /\ ~tlJob[j].heard /\ Fault("drop")
  /\ tlJob' = [tlJob EXCEPT ![j] = NoJob]
  /\ UNCHANGED <<tlServerVars, tlLease, tlJournal, tlRunner, tlAsk, tlTold>>

-----------------------------------------------------------------------------
(* The runner *)

Note == Event(<<"note", 0>>, FALSE, {})
RunnerNote ==
  /\ tlRunner \in {"offline", "joined"} /\ tlUsed.notes < ToolNotes
  /\ tlUsed' = [tlUsed EXCEPT !.notes = @ + 1]
  /\ Written(Note)
  /\ UNCHANGED <<tlServerVars, tlLease, tlJob, tlRunner, tlAsk>>

\* The first receipts of the order of their keys.
Place(k) == [call |-> 0, cancel |-> 1, lookup |-> 2][k[1]] * (Max(ToolOp) + 1) + k[2]
FirstOf(S) == {k \in S : Cardinality({l \in S : Place(l) < Place(k)}) < ToolTake}

StartRunner ==
  /\ tlRunner = "down" /\ tlRunner' = "reconciling" /\ tlAsk' = FirstOf(Unresolved(tlJournal))
  /\ UNCHANGED <<tlServerVars, tlLease, tlJob, tlJournal, tlTold, tlUsed>>
\* reconcile_pending: whatever is settled is recorded; no answer, or no
\* outcome yet, leaves it for the next start.
Found(k) == IF k[1] # "cancel" THEN Looked(k[2])
            ELSE [settled |-> tlCancel[k[2]] # "none", ids |-> {}]
AskReceipt(k) ==
  /\ tlRunner = "reconciling" /\ k \in tlAsk /\ tlAsk' = tlAsk \ {k}
  /\ \/ /\ Found(k).settled
        /\ Written(Event(k, TRUE, Found(k).ids))
        /\ UNCHANGED tlUsed
     \/ ~Found(k).settled /\ NotWritten /\ UNCHANGED tlUsed
     \/ Fault("lost") /\ NotWritten
  /\ UNCHANGED <<tlServerVars, tlLease, tlJob, tlRunner>>

\* The channel gives each connection of the runner a lease of its own, and
\* revokes it when the connection ends.
Join ==
  /\ tlRunner = "offline" \/ (tlRunner = "reconciling" /\ tlAsk = {})
  /\ tlRunner' = "joined" /\ tlLease' = [number |-> tlLease.number + 1, active |-> TRUE]
  /\ UNCHANGED <<tlServerVars, tlJob, tlJournal, tlAsk, tlTold, tlUsed>>
Offline ==
  /\ tlRunner = "joined" /\ Fault("offline") /\ tlRunner' = "offline"
  /\ tlLease' \in {tlLease, [tlLease EXCEPT !.active = FALSE]}
  /\ UNCHANGED <<tlServerVars, tlJob, tlJournal, tlAsk, tlTold>>
LeaseEnds ==
  /\ tlRunner # "joined" /\ tlLease.active /\ tlLease' = [tlLease EXCEPT !.active = FALSE]
  /\ UNCHANGED <<tlServerVars, tlJob, tlJournal, tlRunner, tlAsk, tlTold, tlUsed>>
\* The runner ends, and with it, at once or after its last answers, the adapter.
RunnerEnds ==
  /\ tlRunner # "down" /\ Fault("crash") /\ tlRunner' = "down" /\ tlAsk' = {}
  /\ \E S \in SUBSET ToolJob :
       tlJob' = [j \in ToolJob |-> IF j \in S THEN [tlJob[j] EXCEPT !.heard = FALSE] ELSE tlJob[j]]
  /\ UNCHANGED <<tlServerVars, tlLease, tlJournal, tlTold>>

-----------------------------------------------------------------------------
ToolNext ==
  \/ StartRunner \/ Join \/ Offline \/ LeaseEnds \/ RunnerEnds \/ RunnerNote
  \/ \E k \in tlAsk : AskReceipt(k)
  \/ \E j \in ToolJob :
       \/ ServerStart(j) \/ ServerPart(j) \/ ServerCommit(j)
       \/ Record(j) \/ Settle(j) \/ AnswerLost(j) \/ WorkDropped(j)
       \/ \E kind \in {"call", "lookup", "cancel"}, o \in ToolOp : Call(j, kind, o)

ToolSpec == ToolInit /\ [][ToolNext]_toolVars

-----------------------------------------------------------------------------
\* What a tool call did to the document is confirmed in the journal, or the
\* journal still has its key to ask for: through lost answers, calls repeated
\* while the first still runs, cancellations half way through a batch, leases
\* that change hands, crashes, and events that were forgotten.  And the journal
\* confirms nothing that is not in the document, so a final answer that names a
\* confirmed suggestion names one that exists.
ToolEffectsAreKnown ==
  \A o \in ToolOp :
    /\ tlParts[o] \subseteq tlTold[o] \/ <<"call", o>> \in Unresolved(tlJournal)
    /\ tlTold[o] \subseteq tlParts[o]

\* A receipt names every part that is in the document.
ToolReceiptsAreWhole == \A o \in ToolOp : tlReceipt[o].done => tlReceipt[o].items = tlParts[o]
=============================================================================
