------------------------------- MODULE Backup -------------------------------
(***************************************************************************)
(* Recovery points.  A local backup copies a stopped deployment into a     *)
(* directory of its own and renames it into place last; a restore does the *)
(* same the other way.  A remote backup copies objects below a prefix of   *)
(* the running deployment's bucket and writes a completion manifest last;  *)
(* an abandoned one is swept by remove_incomplete_backup.  Object keys are *)
(* content addresses, so an object is there or not; secrets, identity and  *)
(* capacity figures are left out, and running out of space is a failure.   *)
(***************************************************************************)
EXTENDS Naturals, FiniteSets

CONSTANTS
  BakDeployment, \* deployments that back up into the same directory
  BakObject,     \* their objects
  BakProcess,    \* processes of the backup and restore commands, one pid each
  BakTask,       \* operations of the process that owns the bucket
  BakId,         \* backup ids
  BakFaults,     \* subset of {"crash", "fail", "lost", "drop"}
  BakFailures,   \* bound on failures
  BakNone

ASSUME BakAssumption ==
  /\ "server" \notin BakProcess /\ BakNone \notin BakProcess /\ BakNone \notin BakId

VARIABLES
  bakRows,    \* [BakDeployment -> objects the catalogue names]
  bakLive,    \* [BakDeployment -> objects in the live store]
  bakWriter,  \* [BakDeployment -> holder of writer.lock: "server", a process or BakNone]
  bakSpace,   \* holder of the capacity lock of the backup directory
  bakJob,     \* [BakProcess -> what the command is doing]
  bakPartial, \* [BakProcess -> its temporary tree in the backup directory]
  bakRoot,    \* [BakId -> the complete tree of that name]
  bakTarget,  \* the restored deployment
  bakSource,  \* remote: objects outside the recovery/ prefix
  bakCopies,  \* remote: [BakId -> objects below its prefix]
  bakMarker,  \* remote: [BakId -> keys of its completion manifest]
  bakTask,    \* remote: [BakTask -> the operation in flight and its claim]
  bakFlying,  \* remote: writes that outlive the caller that was dropped
  bakFails

bakLocalVars == <<bakRows, bakLive, bakWriter, bakSpace, bakJob, bakPartial, bakRoot, bakTarget>>
bakRemoteVars == <<bakSource, bakCopies, bakMarker, bakTask, bakFlying>>
bakVars == <<bakLocalVars, bakRemoteVars, bakFails>>

BakIdleJob == [pc |-> "idle", dep |-> BakNone, id |-> BakNone, walked |-> {}]
BakIdleTask == [pc |-> "idle", id |-> BakNone, made |-> {}]
BakJobAt(p, pc) == bakJob[p].pc = pc
BakFailing(kind) ==
  kind \in BakFaults /\ bakFails < BakFailures /\ bakFails' = bakFails + 1

\* verify_referenced_object_graph: every key the catalogue names is a file.
GraphIsThere(rows, objects) == rows \subseteq objects
\* verify_catalog_references: and every manifest, recipe, chunk, tree and figure
\* reached from its rows has the digest and the length they give.
ReferencesResolve(rows, objects) == rows \subseteq objects

BakInit ==
  /\ bakRows = [d \in BakDeployment |-> {}] /\ bakLive = [d \in BakDeployment |-> {}]
  /\ bakWriter = [d \in BakDeployment |-> "server"] /\ bakSpace = BakNone
  /\ bakJob = [p \in BakProcess |-> BakIdleJob]
  /\ bakPartial = [p \in BakProcess |-> BakNone]
  /\ bakRoot = [i \in BakId |-> BakNone] /\ bakTarget = BakNone
  /\ bakSource = BakObject
  /\ bakCopies = [i \in BakId |-> {}] /\ bakMarker = [i \in BakId |-> BakNone]
  /\ bakTask = [t \in BakTask |-> BakIdleTask] /\ bakFlying = {}
  /\ bakFails = 0

---------------------------------------------------------------------------
(* The server of a deployment: an object is named by a write lease before  *)
(* it is written, and by its accounting row until after it is deleted.  It *)
(* stops, or crashes, between any two.                                     *)
BakServe(d) ==
  /\ \/ bakWriter[d] = BakNone /\ bakWriter' = [bakWriter EXCEPT ![d] = "server"]
     \/ bakWriter[d] = "server" /\ bakWriter' = [bakWriter EXCEPT ![d] = BakNone]
  /\ UNCHANGED <<bakRows, bakLive, bakSpace, bakJob, bakPartial, bakRoot, bakTarget,
                 bakRemoteVars, bakFails>>

BakWork(d, k) ==
  /\ bakWriter[d] = "server"
  /\ \/ k \notin bakRows[d] /\ bakRows' = [bakRows EXCEPT ![d] = @ \cup {k}] /\ UNCHANGED bakLive
     \/ k \in bakRows[d] /\ bakLive' = [bakLive EXCEPT ![d] = @ \cup {k}] /\ UNCHANGED bakRows
     \/ k \in bakLive[d] /\ bakLive' = [bakLive EXCEPT ![d] = @ \ {k}] /\ UNCHANGED bakRows
     \/ k \notin bakLive[d] /\ bakRows' = [bakRows EXCEPT ![d] = @ \ {k}] /\ UNCHANGED bakLive
  /\ UNCHANGED <<bakWriter, bakSpace, bakJob, bakPartial, bakRoot, bakTarget, bakRemoteVars, bakFails>>

---------------------------------------------------------------------------
(* create_local_backup.                                                    *)

\* acquire_offline_lock: the server holds the same lock while it runs.
LockFree(d) == bakWriter[d] = BakNone

\* The objects are listed, and every one the catalogue names is there.
BakBegin(p, d, i) ==
  /\ BakJobAt(p, "idle") /\ LockFree(d)
  /\ GraphIsThere(bakRows[d], bakLive[d])
  /\ bakWriter' = [bakWriter EXCEPT ![d] = p]
  /\ bakJob' = [bakJob EXCEPT ![p] = [pc |-> "listed", dep |-> d, id |-> i, walked |-> bakLive[d]]]
  /\ UNCHANGED <<bakRows, bakLive, bakSpace, bakPartial, bakRoot, bakTarget, bakRemoteVars, bakFails>>

\* reserve_capacities: one staging at a time in the directory.  Under that lock
\* the id must be new and the temporary name, which carries the pid, unused.
BakStage(p) ==
  /\ BakJobAt(p, "listed") /\ bakSpace = BakNone
  /\ bakRoot[bakJob[p].id] = BakNone /\ bakPartial[p] = BakNone
  /\ bakSpace' = p
  /\ bakPartial' = [bakPartial EXCEPT ![p] = [dep |-> bakJob[p].dep, rows |-> {}, objects |-> {}]]
  /\ bakJob' = [bakJob EXCEPT ![p].pc = "staged"]
  /\ UNCHANGED <<bakRows, bakLive, bakWriter, bakRoot, bakTarget, bakRemoteVars, bakFails>>

\* VACUUM INTO, then verify_catalog_references against the live objects.
BakSnapshot(p) ==
  LET d == bakJob[p].dep IN
  /\ BakJobAt(p, "staged") /\ ReferencesResolve(bakRows[d], bakLive[d])
  /\ bakPartial' = [bakPartial EXCEPT ![p].rows = bakRows[d]]
  /\ bakJob' = [bakJob EXCEPT ![p].pc = "copying"]
  /\ UNCHANGED <<bakRows, bakLive, bakWriter, bakSpace, bakRoot, bakTarget, bakRemoteVars, bakFails>>

\* file_record and copy_record_with_capacity of one listed object.
BakCopy(p, k) ==
  /\ BakJobAt(p, "copying") /\ k \in bakJob[p].walked \cap bakLive[bakJob[p].dep]
  /\ k \notin bakPartial[p].objects
  /\ bakPartial' = [bakPartial EXCEPT ![p].objects = @ \cup {k}]
  /\ UNCHANGED <<bakRows, bakLive, bakWriter, bakSpace, bakJob, bakRoot, bakTarget,
                 bakRemoteVars, bakFails>>

BakRelease(p) ==
  /\ bakWriter' = [d \in BakDeployment |-> IF bakWriter[d] = p THEN BakNone ELSE bakWriter[d]]
  /\ bakSpace' = IF bakSpace = p THEN BakNone ELSE bakSpace
  /\ bakJob' = [bakJob EXCEPT ![p] = BakIdleJob]

\* Everything listed is copied and verified before the manifest is written.
CopiedAll(p) == bakJob[p].walked \subseteq bakPartial[p].objects

\* The manifest is written into the tree and the tree renamed into place.
BakPublish(p) ==
  /\ BakJobAt(p, "copying") /\ CopiedAll(p)
  /\ bakRoot' = [bakRoot EXCEPT ![bakJob[p].id] = bakPartial[p]]
  /\ bakPartial' = [bakPartial EXCEPT ![p] = BakNone]
  /\ BakRelease(p)
  /\ UNCHANGED <<bakRows, bakLive, bakTarget, bakRemoteVars, bakFails>>

\* A refusal or an error: the temporary tree goes with it once this attempt made
\* one; a crash leaves the tree, and the locks go with the process.
BakGiveUp(p) ==
  /\ ~BakJobAt(p, "idle")
  /\ \/ BakFailing("fail")
        /\ bakPartial' = IF bakJob[p].pc \in {"staged", "copying", "restoring"}
                         THEN [bakPartial EXCEPT ![p] = BakNone] ELSE bakPartial
     \/ BakFailing("crash") /\ UNCHANGED bakPartial
     \/ /\ BakJobAt(p, "listed") /\ (bakSpace # BakNone \/ bakRoot[bakJob[p].id] # BakNone
                                     \/ bakPartial[p] # BakNone)
        /\ UNCHANGED <<bakPartial, bakFails>>
  /\ BakRelease(p)
  /\ UNCHANGED <<bakRows, bakLive, bakRoot, bakTarget, bakRemoteVars>>

---------------------------------------------------------------------------
(* restore_local_backup: verified first, copied into a temporary tree that  *)
(* is verified again and renamed.  The destination is looked for before the *)
(* capacity lock is taken; a rename onto a deployment that appeared since   *)
(* fails.                                                                   *)
BakRestore(p, i) ==
  /\ BakJobAt(p, "idle") /\ bakRoot[i] # BakNone /\ bakTarget = BakNone
  /\ ReferencesResolve(bakRoot[i].rows, bakRoot[i].objects)
  /\ GraphIsThere(bakRoot[i].rows, bakRoot[i].objects)
  /\ bakJob' = [bakJob EXCEPT ![p] = [BakIdleJob EXCEPT !.pc = "verified", !.id = i]]
  /\ UNCHANGED <<bakRows, bakLive, bakWriter, bakSpace, bakPartial, bakRoot, bakTarget,
                 bakRemoteVars, bakFails>>

BakRestoreStage(p) ==
  /\ BakJobAt(p, "verified") /\ bakSpace = BakNone /\ bakPartial[p] = BakNone
  /\ bakSpace' = p
  /\ bakPartial' = [bakPartial EXCEPT ![p] = [bakRoot[bakJob[p].id] EXCEPT !.objects = {}]]
  /\ bakJob' = [bakJob EXCEPT ![p].pc = "restoring"]
  /\ UNCHANGED <<bakRows, bakLive, bakWriter, bakRoot, bakTarget, bakRemoteVars, bakFails>>

BakRestoreCopy(p, k) ==
  /\ BakJobAt(p, "restoring") /\ k \in bakRoot[bakJob[p].id].objects \ bakPartial[p].objects
  /\ bakPartial' = [bakPartial EXCEPT ![p].objects = @ \cup {k}]
  /\ UNCHANGED <<bakRows, bakLive, bakWriter, bakSpace, bakJob, bakRoot, bakTarget,
                 bakRemoteVars, bakFails>>

BakRestorePublish(p) ==
  /\ BakJobAt(p, "restoring") /\ bakPartial[p].objects = bakRoot[bakJob[p].id].objects
  /\ ReferencesResolve(bakPartial[p].rows, bakPartial[p].objects)
  /\ bakTarget' = IF bakTarget = BakNone THEN bakPartial[p] ELSE bakTarget
  /\ bakPartial' = [bakPartial EXCEPT ![p] = BakNone]
  /\ BakRelease(p)
  /\ UNCHANGED <<bakRows, bakLive, bakRoot, bakRemoteVars, bakFails>>

---------------------------------------------------------------------------
(* create_backup and remove_incomplete_backup over the bucket, by tasks of  *)
(* the one process that holds writer.lock.  A claim lasts as long as its     *)
(* task.                                                                    *)
BakUnclaimed(i) == \A t \in BakTask : bakTask[t].id # i
BakTaskAt(t, pc) == bakTask[t].pc = pc
BakEnd(t) == bakTask' = [bakTask EXCEPT ![t] = BakIdleTask]

\* The claim is taken and the marker read: NotFound lets the attempt go on.
BakCreate(t, i) ==
  /\ BakTaskAt(t, "idle") /\ BakUnclaimed(i) /\ bakMarker[i] = BakNone
  /\ bakTask' = [bakTask EXCEPT ![t] = [pc |-> "copy", id |-> i, made |-> {}]]
  /\ UNCHANGED <<bakLocalVars, bakSource, bakCopies, bakMarker, bakFlying, bakFails>>

\* blobs.swap with no expected version: the copy must not exist.
BakCopyRemote(t, k) ==
  LET i == bakTask[t].id IN
  /\ BakTaskAt(t, "copy") /\ k \in bakSource \ bakTask[t].made /\ k \notin bakCopies[i]
  /\ bakCopies' = [bakCopies EXCEPT ![i] = @ \cup {k}]
  /\ bakTask' = [bakTask EXCEPT ![t].made = @ \cup {k}]
  /\ UNCHANGED <<bakLocalVars, bakSource, bakMarker, bakFlying, bakFails>>

\* A source that is gone, a copy an earlier attempt left, or an error of the
\* store, whose write may have landed.
BakCopyFails(t, k) ==
  LET i == bakTask[t].id IN
  /\ BakTaskAt(t, "copy") /\ k \notin bakTask[t].made
  /\ \/ (k \notin bakSource \/ k \in bakCopies[i]) /\ UNCHANGED <<bakCopies, bakFails>>
     \/ BakFailing("fail") /\ UNCHANGED bakCopies
     \/ BakFailing("lost") /\ k \in bakSource /\ bakCopies' = [bakCopies EXCEPT ![i] = @ \cup {k}]
  /\ bakTask' = [bakTask EXCEPT ![t].pc = "clean"]
  /\ UNCHANGED <<bakLocalVars, bakSource, bakMarker, bakFlying>>

\* verify_objects and the marker, written if it does not exist; the error of a
\* write that landed is an error all the same.
BakMark(t) ==
  LET i == bakTask[t].id IN
  /\ BakTaskAt(t, "copy") /\ bakTask[t].made = BakObject
  /\ \/ /\ bakTask[t].made \subseteq bakCopies[i] /\ bakMarker[i] = BakNone
        /\ bakMarker' = [bakMarker EXCEPT ![i] = bakTask[t].made]
        /\ \/ BakEnd(t) /\ UNCHANGED bakFails
           \/ BakFailing("lost") /\ bakTask' = [bakTask EXCEPT ![t].pc = "clean"]
     \/ /\ BakFailing("fail") \/ (bakMarker[i] # BakNone /\ UNCHANGED bakFails)
        /\ bakTask' = [bakTask EXCEPT ![t].pc = "clean"] /\ UNCHANGED bakMarker
  /\ UNCHANGED <<bakLocalVars, bakSource, bakCopies, bakFlying>>

\* (mutant) what the attempt made is deleted without another look.
AnyMarker(i) == TRUE

\* The fresh check: a marker that cannot be read does not count as absent.
MarkerAbsent(i) == bakMarker[i] = BakNone

\* A failed attempt deletes the objects it made and no others, unless the check
\* or the delete fails.
BakClean(t) ==
  LET i == bakTask[t].id IN
  /\ BakTaskAt(t, "clean")
  /\ \/ /\ MarkerAbsent(i) /\ UNCHANGED bakFails
        /\ bakCopies' = [bakCopies EXCEPT ![i] = @ \ bakTask[t].made]
     \/ ~MarkerAbsent(i) /\ UNCHANGED <<bakCopies, bakFails>>
     \/ BakFailing("fail") /\ UNCHANGED bakCopies
  /\ BakEnd(t)
  /\ UNCHANGED <<bakLocalVars, bakSource, bakMarker, bakFlying>>

\* remove_incomplete_backup: the marker is absent, what is below the prefix is
\* listed; it is absent still, and the list is deleted.
BakSweep(t, i) ==
  /\ BakTaskAt(t, "idle") /\ BakUnclaimed(i) /\ MarkerAbsent(i)
  /\ bakTask' = [bakTask EXCEPT ![t] = [pc |-> "sweep", id |-> i, made |-> bakCopies[i]]]
  /\ UNCHANGED <<bakLocalVars, bakSource, bakCopies, bakMarker, bakFlying, bakFails>>

BakSwept(t) ==
  LET i == bakTask[t].id IN
  /\ BakTaskAt(t, "sweep")
  /\ \/ MarkerAbsent(i) /\ bakTask' = [bakTask EXCEPT ![t].pc = "erase"] /\ UNCHANGED bakFails
     \/ ~MarkerAbsent(i) /\ BakEnd(t) /\ UNCHANGED bakFails
     \/ BakFailing("fail") /\ BakEnd(t)
  /\ UNCHANGED <<bakLocalVars, bakSource, bakCopies, bakMarker, bakFlying>>

BakErase(t) ==
  LET i == bakTask[t].id IN
  /\ BakTaskAt(t, "erase")
  /\ bakCopies' = [bakCopies EXCEPT ![i] = @ \ bakTask[t].made]
  /\ BakEnd(t)
  /\ UNCHANGED <<bakLocalVars, bakSource, bakMarker, bakFlying, bakFails>>

\* The task is dropped at an await.  Its claim goes with it; the write or the
\* deletion it had sent does not.
BakDropTask(t) ==
  LET i == bakTask[t].id IN
  /\ ~BakTaskAt(t, "idle") /\ BakFailing("drop")
  /\ \/ UNCHANGED bakFlying
     \/ BakTaskAt(t, "copy") /\ bakTask[t].made = BakObject
        /\ bakFlying' = bakFlying \cup {<<i, bakTask[t].made>>}
  /\ BakEnd(t)
  /\ UNCHANGED <<bakLocalVars, bakSource, bakCopies, bakMarker>>

BakLand(w) ==
  /\ bakFlying' = bakFlying \ {w}
  /\ bakMarker' = [bakMarker EXCEPT ![w[1]] = IF @ = BakNone THEN w[2] ELSE @]
  /\ UNCHANGED <<bakLocalVars, bakSource, bakCopies, bakTask, bakFails>>

\* The owner crashes; the operating system frees its lock and a new owner starts.
BakOwnerCrash ==
  /\ \E t \in BakTask : ~BakTaskAt(t, "idle")
  /\ BakFailing("crash")
  /\ bakTask' = [t \in BakTask |-> BakIdleTask]
  /\ UNCHANGED <<bakLocalVars, bakSource, bakCopies, bakMarker, bakFlying>>

\* The server deletes what it no longer needs; restore_backup verifies the whole
\* backup and then puts every object back.
BakRetireSource(k) ==
  /\ k \in bakSource /\ bakSource' = bakSource \ {k}
  /\ UNCHANGED <<bakLocalVars, bakCopies, bakMarker, bakTask, bakFlying, bakFails>>

BakRestoreRemote(i) ==
  /\ bakMarker[i] # BakNone /\ bakMarker[i] \subseteq bakCopies[i]
  /\ bakSource' = bakSource \cup bakMarker[i]
  /\ UNCHANGED <<bakLocalVars, bakCopies, bakMarker, bakTask, bakFlying, bakFails>>

---------------------------------------------------------------------------
BakLocalNext ==
  \/ \E d \in BakDeployment : BakServe(d) \/ \E k \in BakObject : BakWork(d, k)
  \/ \E p \in BakProcess :
       \/ \E d \in BakDeployment, i \in BakId : BakBegin(p, d, i)
       \/ \E i \in BakId : BakRestore(p, i)
       \/ \E k \in BakObject : BakCopy(p, k) \/ BakRestoreCopy(p, k)
       \/ BakStage(p) \/ BakSnapshot(p) \/ BakPublish(p)
       \/ BakRestoreStage(p) \/ BakRestorePublish(p) \/ BakGiveUp(p)

BakRemoteNext ==
  \/ \E t \in BakTask :
       \/ \E i \in BakId : BakCreate(t, i) \/ BakSweep(t, i)
       \/ \E k \in BakObject : BakCopyRemote(t, k) \/ BakCopyFails(t, k)
       \/ BakMark(t) \/ BakClean(t) \/ BakSwept(t) \/ BakErase(t) \/ BakDropTask(t)
  \/ \E k \in BakObject : BakRetireSource(k)
  \/ \E i \in BakId : BakRestoreRemote(i)
  \/ \E w \in bakFlying : BakLand(w)
  \/ BakOwnerCrash

BakNext == BakLocalNext \/ BakRemoteNext

BakSpec == BakInit /\ [][BakNext]_bakVars

---------------------------------------------------------------------------
\* What carries the completion mark is whole: a tree under its final name, or a
\* restored deployment, has every object its catalogue names, and every key of a
\* remote manifest is below the prefix, however creations, sweeps, restores,
\* servers and crashes interleave.
BakCompleteIsWhole ==
  /\ \A i \in BakId : bakRoot[i] # BakNone => bakRoot[i].rows \subseteq bakRoot[i].objects
  /\ bakTarget # BakNone => bakTarget.rows \subseteq bakTarget.objects
  /\ \A i \in BakId : bakMarker[i] # BakNone => bakMarker[i] \subseteq bakCopies[i]

\* Observation (it does not hold): a deployment that has stopped, however, can be
\* backed up.  An object that a crash left leased and unwritten, or deleted
\* with its row, refuses every backup until a server has run again.
BakStoppedCanBeCopied ==
  \A d \in BakDeployment : bakWriter[d] = BakNone => bakRows[d] \subseteq bakLive[d]
=============================================================================
