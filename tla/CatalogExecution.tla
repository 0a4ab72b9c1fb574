-------------------------- MODULE CatalogExecution --------------------------
(***************************************************************************)
(* The asynchronous boundary in front of the one SQLite connection: a      *)
(* caller reserves an admission and a byte permit, waits for an executing  *)
(* slot, and hands its job to a blocking thread; shutdown stops admission, *)
(* drains what was accepted and closes the connection.                     *)
(*                                                                         *)
(* Every step below is one atomic operation of the code, or several that   *)
(* nothing else can observe between: the counters are plain atomics, the   *)
(* semaphores and the Notify are tokio's.                                  *)
(***************************************************************************)
EXTENDS Integers, FiniteSets

CONSTANTS
  Caller,       \* tasks that use the catalogue
  MaxAdmitted,  \* MAX_ADMITTED_REQUESTS
  MaxBytes,     \* MAX_QUEUED_BYTES
  MaxExecuting, \* MAX_EXECUTING
  MaxWaiting,   \* MAX_WAITING_PRODUCERS
  SmallBytes,   \* SMALL_REQUEST_BYTES
  ExecSizes,        \* the input sizes callers declare
  Cancels       \* may the future of a caller be dropped

ASSUME ExecutionAssumption ==
  /\ IsFiniteSet(Caller)
  /\ {MaxAdmitted, MaxBytes, MaxExecuting, MaxWaiting, SmallBytes} \subseteq Nat \ {0}
  /\ ExecSizes \subseteq 1 .. MaxBytes
  /\ Cancels \in BOOLEAN

VARIABLES
  execPhase,        \* where the request of each caller is
  size,         \* its declared input
  hook,         \* its completion hook: none, pending, ran, or lost
  free,         \* permits left in the three semaphores
  closed,       \* which of the semaphores are closed
  queued, queuedBytes, executing, waitingProducers, \* Counters
  shuttingDown, \* CatalogExecution.shutting_down
  connection,   \* the SQLite connection is open
  drain, notified \* where shutdown is, and whether its Notified has been notified

requestVars == <<execPhase, size, hook>>
counters == <<queued, queuedBytes, executing, waitingProducers>>
shutdownVars == <<closed, shuttingDown, connection, drain>>
execVars == <<requestVars, free, counters, shutdownVars, notified>>

Trying  == [admission |-> "tryAdmission", bytes |-> "tryBytes"]
Waiting == [admission |-> "waitAdmission", bytes |-> "waitBytes"]
ExecRefused == [admission |-> "refusedAdmission", bytes |-> "refusedBytes"]
Granted == [admission |-> "tryBytes", bytes |-> "granted"]
Needs(c, s) == IF s = "admission" THEN 1 ELSE size[c]

ExecGoto(c, ph) == execPhase' = [execPhase EXCEPT ![c] = ph]
Take(s, n) == free' = [free EXCEPT ![s] = @ - n]
\* Dropping the permits a request holds after it was granted the semaphores of S.
Drop(c, S) == free' = [s \in DOMAIN free |-> IF s \in S THEN free[s] + Needs(c, s) ELSE free[s]]
\* (mutants) a request that gives up returns nothing, or both permits.
HoldsNothing(c) == {}
Holds(c) == IF execPhase[c] \in {"tryAdmission", "waitAdmission", "refusedAdmission"} THEN {}
            ELSE IF execPhase[c] \in {"tryBytes", "waitBytes", "refusedBytes"} THEN {"admission"}
            ELSE {"admission", "bytes"}
\* notify_waiters on idle.
NotifyIdle == notified' = TRUE

---------------------------------------------------------------------------
\* reserve_execution: the first look at shutting_down.
Reserve(c, n) ==
  /\ execPhase[c] = "idle" /\ hook[c] # "pending"
  /\ ~shuttingDown
  /\ size' = [size EXCEPT ![c] = n]
  /\ hook' = [hook EXCEPT ![c] = "none"]
  /\ ExecGoto(c, "tryAdmission")
  /\ UNCHANGED <<free, counters, shutdownVars, notified>>

\* acquire: at once if there are permits.
AcquireNow(c, s) ==
  /\ execPhase[c] = Trying[s] /\ s \notin closed
  /\ free[s] >= Needs(c, s)
  /\ Take(s, Needs(c, s))
  /\ ExecGoto(c, Granted[s])
  /\ UNCHANGED <<size, hook, counters, shutdownVars, notified>>

\* A closed semaphore, or a large request that would have to wait.
AcquireRefused(c, s) ==
  /\ execPhase[c] = Trying[s]
  /\ s \in closed \/ (free[s] < Needs(c, s) /\ size[c] > SmallBytes)
  /\ Drop(c, Holds(c))
  /\ ExecGoto(c, "idle")
  /\ UNCHANGED <<size, hook, counters, shutdownVars, notified>>

\* A small one counts itself as waiting, and is turned away if too many were.
StartWaiting(c, s) ==
  /\ execPhase[c] = Trying[s] /\ s \notin closed
  /\ free[s] < Needs(c, s) /\ size[c] <= SmallBytes
  /\ waitingProducers' = waitingProducers + 1
  /\ ExecGoto(c, IF waitingProducers >= MaxWaiting THEN ExecRefused[s] ELSE Waiting[s])
  /\ UNCHANGED <<size, hook, free, queued, queuedBytes, executing, shutdownVars, notified>>

TurnAway(c, s) ==
  /\ execPhase[c] = ExecRefused[s]
  /\ waitingProducers' = waitingProducers - 1
  /\ Drop(c, Holds(c))
  /\ ExecGoto(c, "idle")
  /\ UNCHANGED <<size, hook, queued, queuedBytes, executing, shutdownVars, notified>>

WaitEnds(c, s) ==
  /\ execPhase[c] = Waiting[s]
  /\ waitingProducers' = waitingProducers - 1
  /\ \/ /\ s \notin closed /\ free[s] >= Needs(c, s)
        /\ Take(s, Needs(c, s))
        /\ ExecGoto(c, Granted[s])
     \/ /\ s \in closed
        /\ Drop(c, Holds(c))
        /\ ExecGoto(c, "idle")
  /\ UNCHANGED <<size, hook, queued, queuedBytes, executing, shutdownVars, notified>>

\* The second look at shutting_down, then the counters.
Recheck(c) ==
  /\ execPhase[c] = "granted"
  /\ IF shuttingDown THEN Drop(c, Holds(c)) /\ ExecGoto(c, "idle")
                     ELSE UNCHANGED free /\ ExecGoto(c, "admitted")
  /\ UNCHANGED <<size, hook, counters, shutdownVars, notified>>

CountQueued(c) ==
  /\ execPhase[c] = "admitted"
  /\ queued' = queued + 1
  /\ queuedBytes' = queuedBytes + size[c]
  /\ ExecGoto(c, "reserved")
  /\ UNCHANGED <<size, hook, free, executing, waitingProducers, shutdownVars, notified>>

\* submit, with or without a completion hook.
Submit(c, withHook) ==
  /\ execPhase[c] = "reserved"
  /\ hook' = [hook EXCEPT ![c] = IF withHook THEN "pending" ELSE "none"]
  /\ ExecGoto(c, "submitted")
  /\ UNCHANGED <<size, free, counters, shutdownVars, notified>>

\* CatalogReservation::drop while it still owns its permits.
DropReservation(c) ==
  /\ queued' = queued - 1
  /\ queuedBytes' = queuedBytes - size[c]
  /\ NotifyIdle
  /\ Drop(c, Holds(c))
  /\ ExecGoto(c, "idle")
  /\ UNCHANGED <<size, executing, waitingProducers, shutdownVars>>

TakeSlot(c) ==
  /\ execPhase[c] = "submitted"
  /\ "executing" \notin closed /\ free["executing"] > 0
  /\ Take("executing", 1)
  /\ ExecGoto(c, "slotted")
  /\ UNCHANGED <<size, hook, counters, shutdownVars, notified>>

\* Shutdown closed the slots: the hook is told on a blocking thread.
RejectSubmitted(c) ==
  /\ execPhase[c] = "submitted" /\ "executing" \in closed
  /\ IF hook[c] = "pending"
       THEN ExecGoto(c, "rejecting") /\ UNCHANGED <<size, hook, free, counters, shutdownVars, notified>>
       ELSE DropReservation(c) /\ UNCHANGED hook

CountExecuting(c) ==
  /\ execPhase[c] = "slotted"
  /\ executing' = executing + 1
  /\ ExecGoto(c, "counted")
  /\ UNCHANGED <<size, hook, free, queued, queuedBytes, waitingProducers, shutdownVars, notified>>

Dispatch(c) ==
  /\ execPhase[c] = "counted"
  /\ queued' = queued - 1
  /\ ExecGoto(c, "dispatched")
  /\ UNCHANGED <<size, hook, free, queuedBytes, executing, waitingProducers, shutdownVars, notified>>

---------------------------------------------------------------------------
(* The blocking thread, which no caller can interrupt.                     *)

\* Rejected without SQL if shutdown began before it started.
Start(c) ==
  /\ execPhase[c] = "dispatched"
  /\ ExecGoto(c, IF shuttingDown THEN "completing" ELSE "running")
  /\ UNCHANGED <<size, hook, free, counters, shutdownVars, notified>>

\* The job runs under the connection mutex; it may fail or panic.
RunJob(c) ==
  /\ execPhase[c] = "running"
  /\ ExecGoto(c, "completing")
  /\ UNCHANGED <<size, hook, free, counters, shutdownVars, notified>>

\* run_completion: a hook that gets no connection is not run.
Told(c) == [hook EXCEPT ![c] = IF @ # "pending" THEN @ ELSE IF connection THEN "ran" ELSE "lost"]

ExecComplete(c) ==
  /\ execPhase[c] = "completing"
  /\ hook' = Told(c)
  /\ ExecGoto(c, "completed")
  /\ UNCHANGED <<size, free, counters, shutdownVars, notified>>

CountFinished(c) ==
  /\ execPhase[c] = "completed"
  /\ executing' = executing - 1
  /\ ExecGoto(c, "releasing")
  /\ UNCHANGED <<size, hook, free, queued, queuedBytes, waitingProducers, shutdownVars, notified>>

\* (mutant) nobody is told that the boundary may be idle.
ReleaseQuietly(c) ==
  /\ execPhase[c] = "releasing"
  /\ queuedBytes' = queuedBytes - size[c]
  /\ free' = [free EXCEPT !["admission"] = @ + 1, !["bytes"] = @ + size[c], !["executing"] = @ + 1]
  /\ ExecGoto(c, "idle")
  /\ UNCHANGED <<size, hook, queued, executing, waitingProducers, shutdownVars, notified>>

ExecRelease(c) ==
  /\ execPhase[c] = "releasing"
  /\ queuedBytes' = queuedBytes - size[c]
  /\ free' = [free EXCEPT !["admission"] = @ + 1, !["bytes"] = @ + size[c], !["executing"] = @ + 1]
  /\ NotifyIdle
  /\ ExecGoto(c, "idle")
  /\ UNCHANGED <<size, hook, queued, executing, waitingProducers, shutdownVars>>

\* The hook of a rejected request; its caller, still there, then returns.
CompleteRejected(c) ==
  /\ execPhase[c] = "rejecting"
  /\ hook' = Told(c)
  /\ DropReservation(c)

\* The same when the caller has gone: only the blocking thread is left.
CompleteOrphan(c) ==
  /\ execPhase[c] = "idle" /\ hook[c] = "pending"
  /\ hook' = Told(c)
  /\ UNCHANGED <<execPhase, size, free, counters, shutdownVars, notified>>

\* The future of a caller is dropped at an await.  Nothing takes it back out of
\* waiting_producers.
CancelWaiting(c, s) ==
  /\ Cancels /\ execPhase[c] = Waiting[s]
  /\ Drop(c, Holds(c))
  /\ ExecGoto(c, "idle")
  /\ UNCHANGED <<size, hook, counters, shutdownVars, notified>>

\* A reservation is dropped, unused, waiting for a slot, or while its hook is
\* told of the rejection (which goes on without it).
CancelReserved(c) ==
  /\ Cancels /\ execPhase[c] \in {"reserved", "submitted", "rejecting"}
  /\ hook' = IF execPhase[c] = "rejecting" THEN hook ELSE [hook EXCEPT ![c] = "none"]
  /\ DropReservation(c)

---------------------------------------------------------------------------
(* shutdown                                                                *)

StopAdmission ==
  /\ drain = "serving"
  /\ shuttingDown' = TRUE
  /\ drain' = "closing"
  /\ UNCHANGED <<requestVars, free, counters, closed, connection, notified>>

CloseSemaphore(s) ==
  /\ drain = "closing" /\ s \notin closed
  /\ s = "bytes" => "admission" \in closed
  /\ s = "executing" => "bytes" \in closed
  /\ closed' = closed \cup {s}
  /\ drain' = IF s = "executing" THEN "enrol" ELSE drain
  /\ UNCHANGED <<requestVars, free, counters, shuttingDown, connection, notified>>

\* The Notified exists, and hears notify_waiters, before the counters are read.
EnrolIdle ==
  /\ drain = "enrol"
  /\ notified' = FALSE
  /\ drain' = "readQueued"
  /\ UNCHANGED <<requestVars, free, counters, closed, shuttingDown, connection>>

ReadQueued ==
  /\ drain = "readQueued"
  /\ drain' = IF queued = 0 THEN "readExecuting" ELSE "wait"
  /\ UNCHANGED <<requestVars, free, counters, closed, shuttingDown, connection, notified>>

\* (mutant) only the queue is drained.
SkipExecuting ==
  /\ drain = "readExecuting"
  /\ drain' = "close"
  /\ UNCHANGED <<requestVars, free, counters, closed, shuttingDown, connection, notified>>

ReadExecuting ==
  /\ drain = "readExecuting"
  /\ drain' = IF executing = 0 THEN "close" ELSE "wait"
  /\ UNCHANGED <<requestVars, free, counters, closed, shuttingDown, connection, notified>>

IdleNotified ==
  /\ drain = "wait" /\ notified
  /\ drain' = "enrol"
  /\ UNCHANGED <<requestVars, free, counters, closed, shuttingDown, connection, notified>>

CloseConnection ==
  /\ drain = "close"
  /\ connection' = FALSE
  /\ drain' = "closed"
  /\ UNCHANGED <<requestVars, free, counters, closed, shuttingDown, notified>>

---------------------------------------------------------------------------
AllFree == [admission |-> MaxAdmitted, bytes |-> MaxBytes, executing |-> MaxExecuting]

ExecInit ==
  /\ execPhase = [c \in Caller |-> "idle"] /\ size = [c \in Caller |-> 1]
  /\ hook = [c \in Caller |-> "none"]
  /\ free = AllFree /\ closed = {}
  /\ queued = 0 /\ queuedBytes = 0 /\ executing = 0 /\ waitingProducers = 0
  /\ shuttingDown = FALSE /\ connection = TRUE
  /\ drain = "serving" /\ notified = FALSE

Acquire(c) == \E s \in {"admission", "bytes"} :
  AcquireNow(c, s) \/ AcquireRefused(c, s) \/ StartWaiting(c, s) \/ TurnAway(c, s) \/ WaitEnds(c, s)

\* What a task or a thread does by itself once scheduled.
ExecAdvance(c) ==
  \/ Acquire(c) \/ Recheck(c) \/ CountQueued(c)
  \/ \E withHook \in BOOLEAN : Submit(c, withHook)
  \/ TakeSlot(c) \/ RejectSubmitted(c) \/ CountExecuting(c) \/ Dispatch(c)
  \/ Start(c) \/ RunJob(c) \/ ExecComplete(c) \/ CountFinished(c) \/ ExecRelease(c)
  \/ CompleteRejected(c) \/ CompleteOrphan(c)

Shutdown ==
  \/ StopAdmission \/ \E s \in DOMAIN free : CloseSemaphore(s)
  \/ EnrolIdle \/ ReadQueued \/ ReadExecuting \/ IdleNotified \/ CloseConnection

ExecNext ==
  \/ \E c \in Caller :
       \/ \E n \in ExecSizes : Reserve(c, n)
       \/ ExecAdvance(c)
       \/ CancelReserved(c) \/ \E s \in {"admission", "bytes"} : CancelWaiting(c, s)
  \/ Shutdown

ExecSpec == ExecInit /\ [][ExecNext]_execVars

\* Tasks and threads are scheduled, and tokio's semaphores are fair: a caller
\* that could go on again and again goes on.  Shutdown, once begun, runs.
ExecFairSpec ==
  /\ ExecSpec
  /\ \A c \in Caller : SF_execVars(ExecAdvance(c))
  /\ WF_execVars(shuttingDown /\ Shutdown)

---------------------------------------------------------------------------
\* shutdown closes the connection only after every job the service has taken over
\* is done: a job that starts finds it open, and so does its hook, whatever
\* became of the job and of its caller.
JobsFindConnection == \A c \in Caller : execPhase[c] \in {"running", "completing"} => connection

\* Every way out gives back exactly what was taken: with no request in flight
\* the permits and the counters shutdown reads are as at the start.
CapacityReturns ==
  (\A c \in Caller : execPhase[c] = "idle") =>
     free = AllFree /\ queued = 0 /\ queuedBytes = 0 /\ executing = 0

\* What a request takes of the service it gives back, and what the service has
\* taken over it serves, shutdown or not.
RequestsSettle == JobsFindConnection /\ CapacityReturns

\* A completion hook is never skipped.
NoHookLost == \A c \in Caller : hook[c] # "lost"

\* waiting_producers counts the producers that are waiting (or being turned
\* away), so the bound only ever refuses when that many really wait.
WaitersAreCounted ==
  waitingProducers = Cardinality({c \in Caller :
     execPhase[c] \in {"waitAdmission", "waitBytes", "refusedAdmission", "refusedBytes"}})

\* Shutdown ends.
ShutdownCompletes == shuttingDown ~> ~connection
=============================================================================
