---------------------------- MODULE CompanionJobs ----------------------------
(* The render jobs of the local companion (local/service.rs): posts with and  *)
(* without an idempotency key, the queue, its one worker, cancellation,       *)
(* deletion, expiry, the managed preview that excludes them                   *)
(* (local/preview), the grants both need (local/quarto.rs, BindingStore), and *)
(* what a restart reads back from the job directories.                        *)
(*                                                                            *)
(* Every request is for one folder.  A post holds the lock of the previews    *)
(* from its first look at the jobs to its answer, so it is one step.          *)
EXTENDS Naturals, FiniteSets, Sequences, Functions

CONSTANTS
  CompReq,      \* requests
  CompKept,     \* those of Quarto with an idempotency key: recorded on disk
  CompScope,    \* [CompReq -> origin and project]
  CompGen,      \* [CompReq -> generation]
  CompQueue,    \* MAX_QUEUE
  CompIds,      \* bounds the admitted jobs
  CompGrants,   \* bounds the grants of the folder
  CompFaults,   \* subset of {"stop", "fail", "disk", "torn"}
  CompFailures  \* bounds the faults

ASSUME CompAssumption ==
  /\ CompKept \subseteq CompReq /\ CompGen \in [CompReq -> Nat] /\ DOMAIN CompScope = CompReq
  /\ CompQueue \in Nat /\ CompIds \in Nat /\ CompGrants \in Nat /\ CompFailures \in Nat

VARIABLES
  coJobs,    \* the table of jobs, by number
  coQueue,   \* the jobs that wait
  coWorker,  \* what the worker has
  coDisk,    \* the records of the job directories
  coGrant,   \* the folder's grant: its number, 0 when it is revoked
  coPreview, \* the grants previews run under
  coRuns,    \* history: starts of a request's code while the service knows its key
  coUsed     \* jobs, grants and faults used up

compVars == <<coJobs, coQueue, coWorker, coDisk, coGrant, coPreview, coRuns, coUsed>>

NoHand == [step |-> "idle", id |-> 0, req |-> CHOOSE r \in CompReq : TRUE, grant |-> 0, outcome |-> "none"]

CompInit ==
  /\ coJobs = <<>> /\ coQueue = <<>> /\ coWorker = NoHand /\ coDisk = <<>>
  /\ coGrant = 1 /\ coPreview = {}
  /\ coRuns = [r \in CompReq |-> 0] /\ coUsed = [ids |-> 0, grants |-> 1, faults |-> 0]

CompFault(f) ==
  /\ f \in CompFaults /\ coUsed.faults < CompFailures
  /\ coUsed' = [coUsed EXCEPT !.faults = @ + 1]

Drop(f, S) == Restrict(f, DOMAIN f \ S)
Put(f, k, v) == [x \in DOMAIN f \cup {k} |-> IF x = k THEN v ELSE f[x]]
\* retain: the queue without the jobs of S.
Waiting(S) ==
  LET kept[n \in 0..Len(coQueue)] ==
        IF n = 0 THEN <<>>
        ELSE IF coQueue[n] \in S THEN kept[n - 1] ELSE Append(kept[n - 1], coQueue[n])
  IN kept[Len(coQueue)]

-----------------------------------------------------------------------------
(* Posts *)

CompJob(r) == [req |-> r, grant |-> coGrant, state |-> "queued", queued |-> TRUE,
               superseded |-> FALSE, finished |-> FALSE, cancel |-> FALSE]

\* A lookup that takes only what has not finished for the same request.
KnownWaiting(r) == {i \in DOMAIN coJobs : coJobs[i].req = r /\ ~coJobs[i].finished}
\* A request repeated under its key is answered with the job it has.
KnownJob(r) == {i \in DOMAIN coJobs : coJobs[i].req = r}

\* A Quarto job needs a live grant and no preview of its folder.
Admissible(r) == r \in CompKept => coGrant # 0 /\ coPreview = {} /\ KnownJob(r) = {}

\* What a newer generation of the same project drops from the queue.
Outdated(r) ==
  {i \in DOMAIN coJobs : /\ coJobs[i].queued /\ ~coJobs[i].superseded
                         /\ CompScope[coJobs[i].req] = CompScope[r]
                         /\ CompGen[coJobs[i].req] < CompGen[r]}
Superseding(r) ==
  [i \in DOMAIN coJobs |->
     IF i \in Outdated(r) THEN [coJobs[i] EXCEPT !.superseded = TRUE, !.queued = FALSE]
     ELSE coJobs[i]]

\* Admitted; or refused, by a full queue or a disk that does not take the
\* record, after the older ones were dropped.
Post(r) ==
  /\ Admissible(r) /\ coUsed.ids < CompIds
  /\ LET id == coUsed.ids + 1
         full == Len(Waiting(Outdated(r))) >= CompQueue
     IN \/ /\ ~full
           /\ coJobs' = Put(Superseding(r), id, CompJob(r))
           /\ coQueue' = Append(Waiting(Outdated(r)), id)
           /\ coDisk' = IF r \in CompKept THEN Put(coDisk, id, [req |-> r, state |-> "queued"])
                        ELSE coDisk
           /\ coUsed' = [coUsed EXCEPT !.ids = id]
        \/ /\ full \/ (r \in CompKept /\ "disk" \in CompFaults)
           /\ coJobs' = Superseding(r) /\ coQueue' = Waiting(Outdated(r))
           /\ IF full THEN UNCHANGED coUsed ELSE CompFault("disk")
           /\ UNCHANGED coDisk
  /\ UNCHANGED <<coWorker, coGrant, coPreview, coRuns>>

-----------------------------------------------------------------------------
(* The worker *)

\* run_worker takes the queue's lock to pop, and the table's afterwards.
Pop ==
  /\ coWorker.step = "idle" /\ coQueue # <<>>
  /\ coWorker' = [NoHand EXCEPT !.step = "popped", !.id = Head(coQueue)]
  /\ coQueue' = Tail(coQueue)
  /\ UNCHANGED <<coJobs, coDisk, coGrant, coPreview, coRuns, coUsed>>

Runnable(i) == i \in DOMAIN coJobs /\ ~coJobs[i].superseded
Begin ==
  /\ coWorker.step = "popped"
  /\ LET i == coWorker.id
     IN IF Runnable(i)
        THEN /\ coJobs' = [coJobs EXCEPT ![i].queued = FALSE, ![i].state = "running"]
             /\ coWorker' = [coWorker EXCEPT !.step = "checking", !.req = coJobs[i].req,
                                             !.grant = coJobs[i].grant]
        ELSE coWorker' = NoHand /\ UNCHANGED coJobs
  /\ UNCHANGED <<coQueue, coDisk, coGrant, coPreview, coRuns, coUsed>>

\* run_job_with_bindings up to the start of the process: any of its checks may
\* fail, and the last is that the grant is still there.
Granted(r, g) == r \in CompKept => g = coGrant
Spawn ==
  /\ coWorker.step = "checking"
  /\ \/ /\ Granted(coWorker.req, coWorker.grant)
        /\ coWorker' = [coWorker EXCEPT !.step = "running"]
        /\ coRuns' = IF coWorker.id \in DOMAIN coJobs
                     THEN [coRuns EXCEPT ![coWorker.req] = @ + 1] ELSE coRuns
        /\ UNCHANGED coUsed
     \/ /\ coWorker' = [coWorker EXCEPT !.step = "ended", !.outcome = "failed"] /\ UNCHANGED coRuns
        /\ IF Granted(coWorker.req, coWorker.grant) THEN CompFault("fail") ELSE UNCHANGED coUsed
  /\ UNCHANGED <<coJobs, coQueue, coDisk, coGrant, coPreview>>

\* The process ends, its deadline does, or the job is cancelled; a job that
\* left the table is cancelled with its sender.
Stopped(i) == i \in DOMAIN coJobs => coJobs[i].cancel
Finish ==
  /\ coWorker.step = "running"
  /\ \/ /\ Stopped(coWorker.id) /\ UNCHANGED coUsed
        /\ coWorker' = [coWorker EXCEPT !.step = "ended", !.outcome = "canceled"]
     \/ coWorker' = [coWorker EXCEPT !.step = "ended", !.outcome = "done"] /\ UNCHANGED coUsed
     \/ coWorker' = [coWorker EXCEPT !.step = "ended", !.outcome = "failed"] /\ CompFault("fail")
  /\ UNCHANGED <<coJobs, coQueue, coDisk, coGrant, coPreview, coRuns>>

\* The result enters the table, and, of a Quarto job, its directory; a disk
\* that fails leaves the record of the admission, or no files beside it.
Conclude ==
  /\ coWorker.step = "ended" /\ coWorker' = NoHand
  /\ LET i == coWorker.id
     IN IF i \in DOMAIN coJobs
        THEN /\ coJobs' = [coJobs EXCEPT ![i].state = coWorker.outcome, ![i].finished = TRUE]
             /\ \/ /\ coDisk' = IF coWorker.req \in CompKept
                               THEN [coDisk EXCEPT ![i].state = coWorker.outcome] ELSE coDisk
                   /\ UNCHANGED coUsed
                \/ coWorker.req \in CompKept /\ CompFault("disk") /\ UNCHANGED coDisk
        ELSE UNCHANGED <<coJobs, coDisk, coUsed>>
  /\ UNCHANGED <<coQueue, coGrant, coPreview, coRuns>>

-----------------------------------------------------------------------------
(* What else happens to a job *)

CancelJob(i) ==
  /\ i \in DOMAIN coJobs /\ ~coJobs[i].superseded /\ ~coJobs[i].cancel
  /\ coJobs' = [coJobs EXCEPT ![i] =
       IF coJobs[i].queued THEN [@ EXCEPT !.cancel = TRUE, !.queued = FALSE, !.state = "canceled",
                                          !.finished = TRUE]
       ELSE [@ EXCEPT !.cancel = TRUE]]
  /\ coQueue' = IF coJobs[i].queued THEN Waiting({i}) ELSE coQueue
  /\ UNCHANGED <<coWorker, coDisk, coGrant, coPreview, coRuns, coUsed>>

\* What leaves the table by deletion or by age leaves the disk, and its key is
\* forgotten.
Removed(i) ==
  /\ coJobs' = Drop(coJobs, {i}) /\ coDisk' = Drop(coDisk, {i}) /\ coQueue' = Waiting({i})
  /\ coRuns' = [coRuns EXCEPT ![coJobs[i].req] = 0]
DeleteJob(i) ==
  /\ i \in DOMAIN coJobs /\ Removed(i) /\ UNCHANGED <<coWorker, coGrant, coPreview, coUsed>>
Reap(i) ==
  /\ i \in DOMAIN coJobs /\ coJobs[i].finished
  /\ coJobs' = Drop(coJobs, {i}) /\ coDisk' = Drop(coDisk, {i})
  /\ coRuns' = [coRuns EXCEPT ![coJobs[i].req] = 0]
  /\ UNCHANGED <<coQueue, coWorker, coGrant, coPreview, coUsed>>

-----------------------------------------------------------------------------
(* Previews and grants *)

\* A job keeps previews of its folder out until it has finished.
Blocking(i) == ~coJobs[i].finished /\ coJobs[i].req \in CompKept /\ coJobs[i].grant = coGrant
StartPreview ==
  /\ coGrant # 0 /\ coPreview \cap {coGrant} = {}
  /\ ~\E i \in DOMAIN coJobs : Blocking(i)
  /\ coPreview' = {coGrant}
  /\ UNCHANGED <<coJobs, coQueue, coWorker, coDisk, coGrant, coRuns, coUsed>>
\* Stopped, by its reader, its age, or because its grant is gone.
StopPreview ==
  /\ coPreview # {} /\ coPreview' = {}
  /\ UNCHANGED <<coJobs, coQueue, coWorker, coDisk, coGrant, coRuns, coUsed>>
Grant ==
  /\ coUsed.grants < CompGrants
  /\ coUsed' = [coUsed EXCEPT !.grants = @ + 1] /\ coGrant' \in {0, coUsed.grants + 1}
  /\ UNCHANGED <<coJobs, coQueue, coWorker, coDisk, coPreview, coRuns>>

-----------------------------------------------------------------------------
(* Restart *)

\* recover_quarto_jobs: records come back finished, what was waiting or running
\* as failed; a directory without a whole record is removed.
CompRecovered(i) ==
  [req |-> coDisk[i].req, grant |-> 0, queued |-> FALSE, superseded |-> FALSE, finished |-> TRUE,
   cancel |-> FALSE, state |-> IF coDisk[i].state = "queued" THEN "failed" ELSE coDisk[i].state]
\* A record being rewritten has no files beside it for a moment.
Torn ==
  IF coWorker.step = "ended" /\ coWorker.id \in DOMAIN coDisk THEN {coWorker.id} ELSE {}
Restart ==
  /\ CompFault("stop") /\ coWorker' = NoHand /\ coQueue' = <<>> /\ coPreview' = {}
  /\ \E lost \in {{}} \cup {S \in {Torn} : "torn" \in CompFaults} :
       LET kept == DOMAIN coDisk \ lost
       IN /\ coJobs' = [i \in kept |-> CompRecovered(i)]
          /\ coDisk' = [i \in kept |-> [coDisk[i] EXCEPT !.state = CompRecovered(i).state]]
  /\ UNCHANGED <<coGrant, coRuns>>

-----------------------------------------------------------------------------
CompWork == Pop \/ Begin \/ Spawn \/ Finish \/ Conclude
CompNext ==
  \/ CompWork \/ StartPreview \/ StopPreview \/ Grant \/ Restart
  \/ \E r \in CompReq : Post(r)
  \/ \E i \in DOMAIN coJobs : CancelJob(i) \/ DeleteJob(i) \/ Reap(i)

CompSpec == CompInit /\ [][CompNext]_compVars

-----------------------------------------------------------------------------
InHand(i) == coWorker.step # "idle" /\ coWorker.id = i
\* While the service knows a key, the code of its request is started at most
\* once, however often it is posted and whatever is cancelled, superseded or
\* restarted; a waiting job is in the queue, once, or about to be taken by the
\* worker; what runs is in the worker's hands; and what was superseded is not
\* run.
CompJobsRunOnce ==
  /\ \A r \in CompKept : coRuns[r] <= 1
  /\ Len(coQueue) <= CompQueue
  /\ \A i \in DOMAIN coJobs :
       /\ coJobs[i].queued =>
            InHand(i) \/ Cardinality({n \in DOMAIN coQueue : coQueue[n] = i}) = 1
       /\ coJobs[i].state = "running" => InHand(i)
       /\ coJobs[i].superseded => coJobs[i].state = "queued"

\* Only a job that will still be run keeps previews out.
CompPreviewsWaitForRuns ==
  \A i \in DOMAIN coJobs : Blocking(i) =>
    InHand(i) \/ \E n \in DOMAIN coQueue : coQueue[n] = i
\* No preview of the folder while a job's code runs in it.
CompPreviewIsAlone ==
  coWorker.step = "running" /\ coWorker.req \in CompKept => coPreview = {}
\* A job that was reported cancelled is not run afterwards.
CompCanceledStays == \A i \in DOMAIN coJobs : coJobs[i].finished => coJobs[i].state # "running"
\* A job is superseded only for a newer one that was admitted.
CompNewestIsKept ==
  \A i \in DOMAIN coJobs : coJobs[i].superseded =>
    \E r \in CompReq : CompGen[r] > CompGen[coJobs[i].req] /\ coRuns[r] + Cardinality(KnownJob(r)) > 0
=============================================================================
