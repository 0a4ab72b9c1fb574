--------------------------- MODULE AssistantChannel ---------------------------
(* A user's request on its way to the assistant and its status on the way     *)
(* back: the browser (agent-client.js), the channel of the server             *)
(* (server/chat.rs, which keeps no transcript), and the runner on the user's  *)
(* computer with its connection (cli/runner_transport.rs) and its ledger of   *)
(* tasks (cli/runner.rs).                                                     *)
(*                                                                            *)
(* Each of the three reads its socket in order; a connection that ends takes  *)
(* what is on it along.  The queue between the runner's connection and its    *)
(* loop keeps the order and is read together with the connection.  Answers    *)
(* and echoes of frames change nothing a client decides on and are left out.  *)
EXTENDS Naturals, FiniteSets, Sequences, SequencesExt

CONSTANTS
  Ask,          \* requests, each a task with the identity of its message
  ChatTasks,    \* MAX_QUEUE: tasks of the runner that are not finished
  ChatQueue,    \* peer_queue: frames waiting for one socket
  ChatBrowsers, ChatRunners, \* bound the connections of each side, of which the last lasts
  ChatCancels,  \* bounds the cancellations asked for
  ChatStops     \* bounds the runner's crashes and stops

ASSUME ChatAssumption ==
  /\ IsFiniteSet(Ask) /\ [kind |-> "none"] \notin Ask
  /\ ChatTasks \in Nat \ {0} /\ ChatQueue \in Nat \ {0}
  /\ ChatBrowsers \in Nat /\ ChatRunners \in Nat /\ ChatCancels \in Nat /\ ChatStops \in Nat

VARIABLES
  chAsked,    \* per request the browser's delivery: none, sent, uncertain, done
  chShown,    \* per request the status the browser shows, with its sequence
  chSees,     \* the browser's view: off, open, alone, runner
  chWire,     \* what the browser sent and the server has not read
  chToBrowser, chToAgent,   \* the queues of the two sockets
  chBrowser, chAgent,       \* the channel's participants: off, attached, ready
  chReady,    \* the ready frames computed at attach, per role
  chRequests, \* event identities the channel remembers
  chSequence, \* per task the highest sequence the channel saw
  chLink,     \* the runner's connection: off, open (not joined), joined
  chBelief,   \* whether the runner's connection takes a browser to be there
  chOut,      \* what the runner emitted and the connection has not sent
  chPending,  \* the frame without an answer yet, if any
  chUp,       \* the runner: off, on, stopping
  chTask,     \* the ledger in memory, and
  chDisk,     \* as last saved: status and sequence per task
  chActive,   \* the task being worked on, with its phase
  chStarted,  \* per request how many turns were started for it
  chSaid,     \* the status reports handed out, ever
  chUsed      \* connections and stops used up, for the bounds

chBrowserVars == <<chAsked, chShown, chSees, chWire>>
chHubVars == <<chToBrowser, chToAgent, chBrowser, chAgent, chReady, chRequests, chSequence>>
chLinkVars == <<chLink, chBelief, chOut, chPending>>
chRunVars == <<chUp, chTask, chDisk, chActive, chStarted, chSaid>>
chVars == <<chBrowserVars, chHubVars, chLinkVars, chRunVars, chUsed>>

NoTask == [status |-> "none", seq |-> 0]
NoFrame == [kind |-> "none"]
Idle == [task |-> NoFrame, phase |-> "idle"]
Finished == {"completed", "failed", "cancelled", "interrupted"}

ChatInit ==
  /\ chAsked = [m \in Ask |-> "none"] /\ chShown = [m \in Ask |-> NoTask]
  /\ chSees = "off" /\ chWire = <<>>
  /\ chToBrowser = <<>> /\ chToAgent = <<>> /\ chBrowser = "off" /\ chAgent = "off"
  /\ chReady = [r \in {"user", "agent"} |-> FALSE]
  /\ chRequests = {} /\ chSequence = [m \in Ask |-> 0]
  /\ chLink = "off" /\ chBelief = FALSE /\ chOut = <<>> /\ chPending = NoFrame
  /\ chUp = "off" /\ chTask = [m \in Ask |-> NoTask] /\ chDisk = [m \in Ask |-> NoTask]
  /\ chActive = Idle /\ chStarted = [m \in Ask |-> 0] /\ chSaid = {}
  /\ chUsed = [user |-> 0, agent |-> 0, stop |-> 0, cancel |-> {}]

-----------------------------------------------------------------------------
(* The channel *)

\* Channel::announce: both participants are told who is there, if their queue
\* has room.
Told(queue, slot, value) ==
  IF slot # "off" /\ Len(queue) < ChatQueue
  THEN Append(queue, [kind |-> "presence", other |-> value]) ELSE queue
Announce(browser, agent, toBrowser, toAgent) ==
  /\ chToBrowser' = Told(toBrowser, browser, agent # "off")
  /\ chToAgent' = Told(toAgent, agent, browser # "off")

\* The slot is free: the answer to the join is computed now and sent later,
\* for the agent after its execution lease was written.
AttachBrowser ==
  /\ chBrowser = "off" /\ chSees = "off" /\ chUsed.user < ChatBrowsers
  /\ chUsed' = [chUsed EXCEPT !.user = @ + 1]
  /\ chBrowser' = "attached" /\ chSees' = "open"
  /\ chReady' = [chReady EXCEPT !["user"] = chAgent # "off"]
  /\ Announce("attached", chAgent, <<>>, chToAgent)
  /\ UNCHANGED <<chAsked, chShown, chWire, chLinkVars, chRunVars, chAgent, chRequests, chSequence>>
AttachAgent ==
  /\ chUp # "off" /\ chLink = "off" /\ chAgent = "off" /\ chUsed.agent < ChatRunners
  /\ chUsed' = [chUsed EXCEPT !.agent = @ + 1]
  /\ chAgent' = "attached" /\ chLink' = "open" /\ chBelief' = FALSE /\ chPending' = NoFrame
  /\ chReady' = [chReady EXCEPT !["agent"] = chBrowser # "off"]
  /\ Announce(chBrowser, "attached", chToBrowser, <<>>)
  /\ UNCHANGED <<chBrowserVars, chRunVars, chBrowser, chRequests, chSequence, chOut>>
\* The writer of a socket starts once the ready frame is queued: until then
\* nothing of the queue is sent.
ReadyBrowser ==
  /\ chBrowser = "attached" /\ chBrowser' = "ready"
  /\ chReady' = [chReady EXCEPT !["user"] = FALSE]
  /\ chToBrowser' = IF Len(chToBrowser) < ChatQueue
                    THEN Append(chToBrowser, [kind |-> "ready", other |-> chReady["user"]])
                    ELSE chToBrowser
  /\ UNCHANGED <<chBrowserVars, chLinkVars, chRunVars, chUsed, chToAgent, chAgent,
                 chRequests, chSequence>>
ReadyAgent ==
  /\ chAgent = "attached" /\ chAgent' = "ready"
  /\ chReady' = [chReady EXCEPT !["agent"] = FALSE]
  /\ chToAgent' = IF Len(chToAgent) < ChatQueue
                  THEN Append(chToAgent, [kind |-> "ready", other |-> chReady["agent"]])
                  ELSE chToAgent
  /\ UNCHANGED <<chBrowserVars, chLinkVars, chRunVars, chUsed, chToBrowser, chBrowser,
                 chRequests, chSequence>>

\* Hub::detach, once the server notices that a socket is gone.
DetachBrowser ==
  /\ chBrowser = "ready" /\ chSees = "off"
  /\ chBrowser' = "off" /\ chRequests' = {} /\ chWire' = <<>>
  /\ Announce("off", chAgent, <<>>, chToAgent)
  /\ UNCHANGED <<chAsked, chShown, chSees, chLinkVars, chRunVars, chUsed, chAgent, chReady, chSequence>>
DetachAgent ==
  /\ chAgent = "ready" /\ chLink = "off"
  /\ chAgent' = "off" /\ chRequests' = {}
  /\ Announce(chBrowser, "off", chToBrowser, <<>>)
  /\ UNCHANGED <<chBrowserVars, chLinkVars, chRunVars, chUsed, chBrowser, chReady, chSequence>>

\* A request of the browser: remembered identities are acknowledged again
\* without being delivered again.
RelayRequest ==
  /\ chWire # <<>> /\ chBrowser = "ready"
  /\ LET frame == Head(chWire)
         known == frame.kind = "message" /\ frame.task \in chRequests
         lost == ~known /\ (chAgent = "off" \/ Len(chToAgent) >= ChatQueue)
     IN /\ chToAgent' = IF known \/ lost THEN chToAgent ELSE Append(chToAgent, frame)
        /\ chRequests' = IF known \/ lost \/ frame.kind # "message" THEN chRequests
                         ELSE chRequests \cup {frame.task}
        /\ chToBrowser' = IF lost /\ frame.kind = "message" /\ Len(chToBrowser) < ChatQueue
                          THEN Append(chToBrowser, [kind |-> "error", task |-> frame.task])
                          ELSE chToBrowser
  /\ chWire' = Tail(chWire)
  /\ UNCHANGED <<chAsked, chShown, chSees, chLinkVars, chRunVars, chUsed, chBrowser, chAgent, chReady,
                 chSequence>>

-----------------------------------------------------------------------------
(* The browser *)

Message(m) == [kind |-> "message", task |-> m]

\* send: a request is kept until a report of the runner confirms it.
SendRequest(m) ==
  /\ chAsked[m] = "none" /\ chSees = "runner"
  /\ chAsked' = [chAsked EXCEPT ![m] = "sent"]
  /\ chShown' = [chShown EXCEPT ![m].status = "queued"]
  /\ chWire' = Append(chWire, Message(m))
  /\ UNCHANGED <<chSees, chHubVars, chLinkVars, chRunVars, chUsed>>
SendCancel(m) ==
  /\ chSees \notin {"off", "open"} /\ Cardinality(chUsed.cancel) < ChatCancels /\ m \notin chUsed.cancel
  /\ chShown[m].status \notin Finished \cup {"none"}
  /\ chUsed' = [chUsed EXCEPT !.cancel = @ \cup {m}]
  /\ chWire' = Append(chWire, [kind |-> "cancel", task |-> m])
  /\ UNCHANGED <<chAsked, chShown, chSees, chHubVars, chLinkVars, chRunVars>>

Unsure == [m \in Ask |-> IF chAsked[m] = "sent" THEN "uncertain" ELSE chAsked[m]]

\* frameReceived: what the runner may not have is sent again when a runner is
\* announced; a report settles the request, and is shown unless it is older
\* than what is shown.
ReadBrowser ==
  /\ chBrowser = "ready" /\ chSees # "off" /\ chToBrowser # <<>>
  /\ LET frame == Head(chToBrowser)
         again == {m \in Ask : chAsked[m] = "uncertain"}
     IN \/ /\ frame.kind \in {"presence", "ready"} /\ frame.other
           /\ chSees' = "runner"
           /\ chAsked' = [m \in Ask |-> IF m \in again THEN "sent" ELSE chAsked[m]]
           /\ chWire' = chWire \o SetToSeq({Message(m) : m \in again})
           /\ UNCHANGED chShown
        \/ /\ frame.kind \in {"presence", "ready"} /\ ~frame.other
           /\ chSees' = "alone" /\ chAsked' = Unsure
           /\ UNCHANGED <<chShown, chWire>>
        \/ /\ frame.kind = "error"
           /\ chAsked' = [chAsked EXCEPT ![frame.task] = IF @ = "sent" THEN "uncertain" ELSE @]
           /\ UNCHANGED <<chShown, chSees, chWire>>
        \/ /\ frame.kind = "task"
           /\ chAsked' = [chAsked EXCEPT ![frame.task] = "done"]
           /\ chShown' = [chShown EXCEPT ![frame.task] =
                            IF frame.seq = 0 THEN [@ EXCEPT !.status = frame.status]
                            ELSE IF frame.seq > @.seq THEN [status |-> frame.status, seq |-> frame.seq]
                            ELSE @]
           /\ UNCHANGED <<chSees, chWire>>
  /\ chToBrowser' = Tail(chToBrowser)
  /\ UNCHANGED <<chToAgent, chBrowser, chAgent, chReady, chRequests, chSequence, chLinkVars,
                 chRunVars, chUsed>>

\* The acknowledgement does not come in time, or the connection or page ends:
\* every request not settled is in doubt.
AckLate(m) ==
  /\ chAsked[m] = "sent" /\ \E i \in DOMAIN chWire : chWire[i] = Message(m)
  /\ chAsked' = [chAsked EXCEPT ![m] = "uncertain"]
  /\ UNCHANGED <<chShown, chSees, chWire, chHubVars, chLinkVars, chRunVars, chUsed>>
BrowserLost ==
  /\ chSees # "off" /\ chUsed.user < ChatBrowsers
  /\ chSees' = "off" /\ chAsked' = Unsure
  /\ UNCHANGED <<chShown, chWire, chHubVars, chLinkVars, chRunVars, chUsed>>

-----------------------------------------------------------------------------
(* The runner *)

Reported(tasks, S) == [m \in Ask |-> IF m \in S THEN [tasks[m] EXCEPT !.seq = @ + 1] ELSE tasks[m]]
\* A report handed out before the ledger is saved.
ReportUnsaved(tasks, S) ==
  LET next == Reported(tasks, S)
      frame(m) == [kind |-> "task", task |-> m, status |-> next[m].status, seq |-> next[m].seq]
  IN /\ chTask' = next /\ UNCHANGED chDisk
     /\ chOut' = chOut \o SetToSeq({frame(m) : m \in S})
     /\ chSaid' = chSaid \cup {frame(m) : m \in S}
\* report_task: the sequence is saved before the frame is handed out.
Report(tasks, S) ==
  LET next == Reported(tasks, S)
      frame(m) == [kind |-> "task", task |-> m, status |-> next[m].status, seq |-> next[m].seq]
  IN /\ chTask' = next /\ chDisk' = next
     /\ chOut' = chOut \o SetToSeq({frame(m) : m \in S})
     /\ chSaid' = chSaid \cup {frame(m) : m \in S}

Known == {m \in Ask : chTask[m].status # "none"}
Open == {m \in Known : chTask[m].status \notin Finished}
With(m, status) == [chTask EXCEPT ![m].status = status]

\* A task that is known is reported again; a new one is admitted and saved, or
\* refused with a report that has no sequence.
Admit(m) ==
  \/ m \in Known /\ Report(chTask, {m})
  \/ /\ m \notin Known /\ Cardinality(Open) < ChatTasks
     /\ Report(With(m, "queued"), {m})
  \/ /\ m \notin Known /\ Cardinality(Open) >= ChatTasks
     /\ chOut' = Append(chOut, [kind |-> "task", task |-> m, status |-> "failed", seq |-> 0])
     /\ UNCHANGED <<chTask, chDisk, chSaid>>
\* The task being worked on is only told to stop; a queued one ends at once.
CancelTask(m) ==
  \/ /\ m \in Known
     /\ Report(IF chTask[m].status = "queued" THEN With(m, "cancelled") ELSE chTask, {m})
  \/ m \notin Known /\ UNCHANGED <<chTask, chDisk, chOut, chSaid>>

\* The connection joins with the ready frame and ignores what precedes it; a
\* browser that is there is told about every task.
ReadAgent ==
  /\ chAgent = "ready" /\ chLink # "off" /\ chToAgent # <<>> /\ chActive.phase # "starting"
  /\ LET frame == Head(chToAgent)
         joins == frame.kind = "ready"
     IN \/ /\ ~joins /\ chLink = "open"
           /\ UNCHANGED <<chLinkVars, chTask, chDisk, chSaid>>
        \/ /\ joins \/ (chLink = "joined" /\ frame.kind = "presence")
           /\ chLink' = "joined" /\ chBelief' = frame.other
           /\ chPending' = IF frame.other THEN chPending ELSE NoFrame
           /\ IF frame.other THEN Report(chTask, Known)
              ELSE UNCHANGED <<chTask, chDisk, chOut, chSaid>>
        \/ /\ chLink = "joined" /\ frame.kind = "message" /\ Admit(frame.task)
           /\ UNCHANGED <<chLink, chBelief, chPending>>
        \/ /\ chLink = "joined" /\ frame.kind = "cancel" /\ CancelTask(frame.task)
           /\ UNCHANGED <<chLink, chBelief, chPending>>
  /\ chToAgent' = Tail(chToAgent)
  /\ UNCHANGED <<chBrowserVars, chToBrowser, chBrowser, chAgent, chReady, chRequests, chSequence,
                 chUp, chActive, chStarted, chUsed>>

\* The connection sends one report at a time and waits for its answer; without
\* a browser it drops reports.  The channel passes on what is newer than what
\* it saw of the task; a report it cannot pass on is sent again later.
SendReport ==
  /\ chLink # "off" /\ (chPending # NoFrame \/ chOut # <<>>)
  /\ LET frame == IF chPending # NoFrame THEN chPending ELSE Head(chOut)
         drops == chLink = "open" \/ ~chBelief
         refused == chBrowser = "off"
         stale == frame.seq > 0 /\ frame.seq <= chSequence[frame.task]
         full == Len(chToBrowser) >= ChatQueue
     IN /\ chPending # NoFrame => ~drops
        /\ chOut' = IF chPending # NoFrame THEN chOut ELSE Tail(chOut)
        /\ IF drops
           THEN UNCHANGED <<chPending, chSequence, chToBrowser>>
           ELSE /\ chSequence' = IF refused \/ stale \/ frame.seq = 0 THEN chSequence
                                 ELSE [chSequence EXCEPT ![frame.task] = frame.seq]
                /\ chPending' = IF refused \/ (full /\ ~stale) THEN frame ELSE NoFrame
                /\ chToBrowser' = IF refused \/ stale \/ full THEN chToBrowser
                                  ELSE Append(chToBrowser, frame)
  /\ UNCHANGED <<chBrowserVars, chToAgent, chBrowser, chAgent, chReady, chRequests, chLink, chBelief,
                 chRunVars, chUsed>>

\* A queued task is marked as worked on, saved, and then given to the model.
Dispatch(m) ==
  /\ chUp = "on" /\ chActive = Idle /\ chTask[m].status = "queued"
  /\ \/ /\ chTask' = With(m, "working") /\ chDisk' = chTask'
        /\ chActive' = [task |-> m, phase |-> "starting"]
        /\ UNCHANGED <<chOut, chSaid>>
     \/ Report(With(m, "failed"), {m}) /\ UNCHANGED chActive
  /\ UNCHANGED <<chBrowserVars, chHubVars, chLink, chBelief, chPending, chUp, chStarted, chUsed>>
StartTurn ==
  /\ chActive.phase = "starting"
  /\ LET m == chActive.task
     IN \/ /\ chStarted' = [chStarted EXCEPT ![m] = @ + 1]
           /\ chActive' = [chActive EXCEPT !.phase = "turn"]
           /\ Report(chTask, {m})
        \/ /\ chActive' = Idle /\ Report(With(m, "failed"), {m}) /\ UNCHANGED chStarted
  /\ UNCHANGED <<chBrowserVars, chHubVars, chLink, chBelief, chPending, chUp, chUsed>>
FinishTurn ==
  /\ chActive.phase = "turn"
  /\ \E status \in {"completed", "failed", "cancelled"} :
       Report(With(chActive.task, status), {chActive.task})
  /\ chActive' = Idle
  /\ UNCHANGED <<chBrowserVars, chHubVars, chLink, chBelief, chPending, chUp, chStarted, chUsed>>

\* State::load: whatever was worked on when the runner ended is interrupted.
Retired(tasks) ==
  [m \in Ask |-> IF tasks[m].status = "working" THEN [tasks[m] EXCEPT !.status = "interrupted"]
                 ELSE tasks[m]]

RunnerStart ==
  /\ chUp = "off" /\ chUsed.stop <= ChatStops /\ chUp' = "on"
  /\ chTask' = Retired(chDisk) /\ chDisk' = chTask'
  /\ UNCHANGED <<chBrowserVars, chHubVars, chLinkVars, chActive, chStarted, chSaid, chUsed>>
\* A stop asked for: nothing queued is left, and the turn may still end.
RunnerStop ==
  /\ chUp = "on" /\ chActive.phase # "starting" /\ chUsed.stop < ChatStops
  /\ chUp' = "stopping" /\ chUsed' = [chUsed EXCEPT !.stop = @ + 1]
  /\ chTask' = [m \in Ask |-> IF chTask[m].status = "queued" THEN [chTask[m] EXCEPT !.status = "cancelled"]
                              ELSE IF m = chActive.task THEN [chTask[m] EXCEPT !.status = "interrupted"]
                              ELSE chTask[m]]
  /\ chDisk' = chTask'
  /\ UNCHANGED <<chBrowserVars, chHubVars, chLinkVars, chActive, chStarted, chSaid>>
RunnerGone ==
  /\ chUp' = "off" /\ chActive' = Idle
  /\ chLink' = "off" /\ chBelief' = FALSE /\ chOut' = <<>> /\ chPending' = NoFrame
  /\ UNCHANGED <<chBrowserVars, chHubVars, chTask, chStarted, chSaid>>
RunnerExit ==
  /\ chUp = "stopping" /\ chDisk' = Retired(chDisk) /\ RunnerGone /\ UNCHANGED chUsed
RunnerCrash ==
  /\ chUp # "off" /\ chUsed.stop < ChatStops /\ chUsed' = [chUsed EXCEPT !.stop = @ + 1]
  /\ RunnerGone /\ UNCHANGED chDisk
LinkLost ==
  /\ chLink # "off" /\ chUsed.agent < ChatRunners
  /\ chLink' = "off" /\ chBelief' = FALSE /\ chPending' = NoFrame
  /\ UNCHANGED <<chBrowserVars, chHubVars, chOut, chRunVars, chUsed>>

-----------------------------------------------------------------------------
ChatNext ==
  \/ AttachBrowser \/ AttachAgent \/ ReadyBrowser \/ ReadyAgent
  \/ DetachBrowser \/ DetachAgent \/ RelayRequest \/ ReadBrowser \/ BrowserLost
  \/ ReadAgent \/ SendReport \/ StartTurn \/ FinishTurn
  \/ RunnerStart \/ RunnerStop \/ RunnerExit \/ RunnerCrash \/ LinkLost
  \/ \E m \in Ask : SendRequest(m) \/ SendCancel(m) \/ AckLate(m) \/ Dispatch(m)
ChatSpec == ChatInit /\ [][ChatNext]_chVars

-----------------------------------------------------------------------------
\* A task is given to the model at most once, through resent requests, crashes
\* and restarts; what the browser has shown as finished is never worked on
\* again (a turn may still end while the runner stops); and the sequence of a
\* report is never used for another status.
ChatRunsOnce ==
  /\ \A m \in Ask : chStarted[m] <= 1
  /\ \A m \in Ask : chShown[m].seq > 0 /\ chShown[m].status \in Finished =>
       chDisk[m].status \in Finished /\ (chActive.task = m => chUp = "stopping")
  /\ \A f, g \in chSaid : f.task = g.task /\ f.seq = g.seq => f = g

\* The browser lets go of a request only when the runner has it on disk or has
\* refused it, whatever was lost on the way or crashed since: chat.rs keeps
\* nothing, so one of the two ends must; and what is kept, and therefore sent
\* and loaded again, is still worked on once and reported in one way.
ChatAsksSurvive ==
  /\ ChatRunsOnce
  /\ \A m \in Ask : chAsked[m] = "done" =>
       chDisk[m].status # "none" \/ chShown[m] = [status |-> "failed", seq |-> 0]

\* A request the browser takes as sent is with the runner or on its way, or
\* the browser will be told that it is not, and send it again.
ChatAsksArrive ==
  \A m \in Ask : chAsked[m] = "sent" =>
    \/ m \in Known \/ chDisk[m].status # "none"
    \/ \E i \in DOMAIN chWire : chWire[i] = Message(m)
    \/ chAgent # "off" /\ chLink # "off" /\ \E i \in DOMAIN chToAgent : chToAgent[i] = Message(m)
    \/ chLink = "off"
    \/ \E i \in DOMAIN chToBrowser :
         \/ chToBrowser[i].kind \in {"presence", "ready"} /\ ~chToBrowser[i].other
         \/ chToBrowser[i].kind \in {"error", "task"} /\ chToBrowser[i].task = m
    \/ \E i \in DOMAIN chOut : chOut[i].task = m
    \/ chPending # NoFrame /\ chPending.task = m
=============================================================================
