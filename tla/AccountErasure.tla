--------------------------- MODULE AccountErasure ---------------------------
(***************************************************************************)
(* The erasure of one account.  begin_erasure revokes the account and      *)
(* withdraws its documents in one transaction; what names the account in   *)
(* documents of others goes in bounded batches, stage after stage, by      *)
(* passes of the maintenance worker and of the request.  A pass is one     *)
(* catalogue job of many transactions: two of them interleave, a process   *)
(* dies between two, and the row of erasure_batches says where to resume.  *)
(* Writes that name the account were asked for before and land at any      *)
(* time; each asks for its own authority in the transaction that inserts.  *)
(***************************************************************************)
EXTENDS Naturals, Sequences, FiniteSets

CONSTANTS
  ErStages,   \* the stages of a pass, in their order
  ErKeys,     \* references of a stage, by primary key
  ErBatch,    \* keys of one batch
  ErPasses,   \* passes that can run at once
  ErAsks,     \* bound on the writes asked for
  ErLives,    \* bound on the sign-ins and revocations
  ErCrashes,  \* bound on the restarts
  ErFaults    \* subset of {"late", "again"}

ASSUME ErAssumption ==
  /\ ErStages # <<>> /\ ErStages \in
       Seq({"grants", "guests", "comments", "replies", "checkpoints", "checkpoints_legacy"})
  /\ {ErKeys, ErBatch} \subseteq Nat \ {0}
  /\ {ErAsks, ErLives, ErCrashes} \subseteq Nat /\ ErFaults \subseteq {"late", "again"}

VARIABLES
  erAccount,  \* status ("none": no row) and session generation
  erRefs,     \* per stage, the keys of the rows that name the account
  erOwned,    \* its document: status, and whether its publication is prepared
  erProgress, \* the row of erasure_batches: stage and cursor; stage 0: no row
  erPass,     \* where each pass stands
  erJobs,     \* writes asked for that are still to run
  erUsed      \* writes asked for, generations and restarts so far

erVars == <<erAccount, erRefs, erOwned, erProgress, erPass, erJobs, erUsed>>

ErStage == DOMAIN ErStages
ErKey == 1 .. ErKeys
Off == [at |-> "off", stage |-> 0, cursor |-> 0]
Absent == [status |-> "absent", prepared |-> FALSE]
NoBatch == [stage |-> 0, cursor |-> 0]

\* Nothing written today names an account as the legacy rows do.
Writes == ({ErStages[s] : s \in ErStage} \ {"checkpoints_legacy"}) \cup {"create", "give"}

Active == erAccount.status = "active"
Erasing == erAccount.status = "erasing"

ErInit ==
  /\ erAccount = [status |-> "active", generation |-> 0]
  /\ erRefs \in [ErStage -> SUBSET ErKey]
  /\ erOwned \in {Absent, [status |-> "active", prepared |-> FALSE]}
  /\ erProgress = NoBatch
  /\ erPass = [p \in ErPasses |-> Off]
  /\ erJobs = {}
  /\ erUsed = [asks |-> 0, lives |-> 0, crashes |-> 0]

NextLife ==
  /\ erUsed.lives < ErLives
  /\ erUsed' = [erUsed EXCEPT !.lives = @ + 1]
  /\ erAccount' = [status |-> "active", generation |-> erUsed.lives + 1]

\* upsert_account: a new row; an account that is erasing cannot sign in.
SignIn ==
  /\ erAccount.status = "none" /\ NextLife
  /\ "again" \in ErFaults \/ \A p \in ErPasses : erPass[p] = Off
  /\ UNCHANGED <<erRefs, erOwned, erProgress, erPass, erJobs>>
\* revoke_sessions.
Revoke == Active /\ NextLife /\ UNCHANGED <<erRefs, erOwned, erProgress, erPass, erJobs>>

\* A request of the account's present session, or of a person who invites it,
\* is admitted; its write is still to run.
Ask(kind, k) ==
  /\ Active /\ erUsed.asks < ErAsks
  /\ erJobs' = erJobs \cup {[kind |-> kind, key |-> k, generation |-> erAccount.generation]}
  /\ erUsed' = [erUsed EXCEPT !.asks = @ + 1]
  /\ UNCHANGED <<erAccount, erRefs, erOwned, erProgress, erPass>>

\* The authority each insertion asks for in its own transaction.
\* annotation_session_active: an active account in the session that asked.
Allowed(j) ==
  CASE j.kind \in {"grants", "guests"} -> Active
    [] j.kind \in {"comments", "replies"} -> Active /\ erAccount.generation = j.generation
    \* attribution_for_insert: the checkpoint is kept, its attribution is not.
    [] OTHER -> ~Erasing
Insert(s, j) ==
  /\ j \in erJobs /\ j.kind = ErStages[s]
  \* A checkpoint asked for before an erasure is written before it is over.
  /\ j.kind = "checkpoints" /\ erAccount.status = "none" => "late" \in ErFaults
  /\ erJobs' = erJobs \ {j}
  /\ erRefs' = IF Allowed(j) THEN [erRefs EXCEPT ![s] = @ \cup {j.key}] ELSE erRefs
  /\ UNCHANGED <<erAccount, erOwned, erProgress, erPass, erUsed>>

\* create_document, or a document given to the account by its owner.
CreateDocument(j) ==
  /\ j \in erJobs /\ j.kind \in {"create", "give"}
  /\ erJobs' = erJobs \ {j}
  /\ erOwned' = IF ~Active \/ erOwned # Absent THEN erOwned
                ELSE IF j.kind = "create" THEN [status |-> "creating", prepared |-> TRUE]
                ELSE [status |-> "active", prepared |-> FALSE]
  /\ UNCHANGED <<erAccount, erRefs, erProgress, erPass, erUsed>>
\* The prepared publication commits, if nothing has aborted it.
CommitDocument ==
  /\ erOwned.prepared
  /\ erOwned' = [status |-> "active", prepared |-> FALSE]
  /\ UNCHANGED <<erAccount, erRefs, erProgress, erPass, erJobs, erUsed>>
\* The deletion worker is done with the objects of the document.
FinishDelete ==
  /\ erOwned.status = "deleting" /\ erOwned' = Absent
  /\ UNCHANGED <<erAccount, erRefs, erProgress, erPass, erJobs, erUsed>>

\* One transaction: no session is left, and no document that is not going.
BeginErasure ==
  /\ Active
  /\ erAccount' = [status |-> "erasing", generation |-> erUsed.lives + 1]
  /\ erUsed' = [erUsed EXCEPT !.lives = @ + 1]
  /\ erOwned' = IF erOwned.status \in {"active", "creating"}
                THEN [status |-> "deleting", prepared |-> FALSE] ELSE erOwned
  /\ UNCHANGED <<erRefs, erProgress, erPass, erJobs>>

Set(p, at, stage, cursor) ==
  erPass' = [erPass EXCEPT ![p] = [at |-> at, stage |-> stage, cursor |-> cursor]]

\* erasing_accounts and erasure_progress.
StartPass(p) ==
  /\ erPass[p] = Off /\ Erasing
  /\ IF erProgress = NoBatch THEN Set(p, "batch", 1, 0)
     ELSE Set(p, "batch", erProgress.stage, erProgress.cursor)
  /\ UNCHANGED <<erAccount, erRefs, erOwned, erProgress, erJobs, erUsed>>

\* erase_account_batch: the next keys after the cursor, in key order, and the
\* last of them; a pass that erased something is done with the account.
DueKeys(p) == {k \in erRefs[erPass[p].stage] : k > erPass[p].cursor}
Taken(p) == {k \in DueKeys(p) : Cardinality({i \in DueKeys(p) : i <= k}) <= ErBatch}
LastOf(keys) == IF keys = {} THEN 0 ELSE CHOOSE k \in keys : \A i \in keys : i <= k
EraseBatch(p) ==
  /\ erPass[p].at = "batch"
  /\ IF Erasing
     THEN /\ erRefs' = [erRefs EXCEPT ![erPass[p].stage] = @ \ Taken(p)]
          /\ erProgress' = [stage |-> erPass[p].stage, cursor |-> LastOf(Taken(p))]
          /\ IF Taken(p) # {} THEN erPass' = [erPass EXCEPT ![p] = Off]
             ELSE IF erPass[p].stage < Len(ErStages) THEN Set(p, "next", erPass[p].stage, erPass[p].cursor)
             ELSE Set(p, "finish", erPass[p].stage, 0)
     ELSE /\ erPass' = [erPass EXCEPT ![p] = Off]
          /\ UNCHANGED <<erRefs, erProgress>>
  /\ UNCHANGED <<erAccount, erOwned, erJobs, erUsed>>

\* (mutant) the cursor of a stage goes with the pass into the next one.
NextStageFromCursor(p) ==
  /\ erPass[p].at = "next"
  /\ IF Erasing
     THEN /\ erProgress' = [stage |-> erPass[p].stage + 1, cursor |-> erPass[p].cursor]
          /\ Set(p, "batch", erPass[p].stage + 1, erPass[p].cursor)
     ELSE erPass' = [erPass EXCEPT ![p] = Off] /\ UNCHANGED erProgress
  /\ UNCHANGED <<erAccount, erRefs, erOwned, erJobs, erUsed>>

\* erasure_batch(next stage, no cursor).
NextStage(p) ==
  /\ erPass[p].at = "next"
  /\ IF Erasing
     THEN /\ erProgress' = [stage |-> erPass[p].stage + 1, cursor |-> 0]
          /\ Set(p, "batch", erPass[p].stage + 1, 0)
     ELSE erPass' = [erPass EXCEPT ![p] = Off] /\ UNCHANGED erProgress
  /\ UNCHANGED <<erAccount, erRefs, erOwned, erJobs, erUsed>>

\* finish_erasure: the row goes, and its progress with it; a document or a
\* reference that is left makes it a conflict, which the pass lets be.
Named == {s \in ErStage : erRefs[s] # {}}
FinishErasure(p) ==
  /\ erPass[p].at = "finish"
  /\ IF Erasing /\ erOwned = Absent /\ Named = {}
     THEN erAccount' = [erAccount EXCEPT !.status = "none"] /\ erProgress' = NoBatch
     ELSE UNCHANGED <<erAccount, erProgress>>
  /\ erPass' = [erPass EXCEPT ![p] = Off]
  /\ UNCHANGED <<erRefs, erOwned, erJobs, erUsed>>

\* The process dies between two transactions.
ErCrash ==
  /\ erUsed.crashes < ErCrashes
  /\ erUsed' = [erUsed EXCEPT !.crashes = @ + 1]
  /\ erPass' = [p \in ErPasses |-> Off] /\ erJobs' = {}
  /\ UNCHANGED <<erAccount, erRefs, erOwned, erProgress>>

ErPassNext(p) == StartPass(p) \/ EraseBatch(p) \/ NextStage(p) \/ FinishErasure(p)
ErNext ==
  \/ SignIn \/ Revoke \/ BeginErasure
  \/ \E kind \in Writes, k \in ErKey : Ask(kind, k)
  \/ \E j \in erJobs : CreateDocument(j) \/ \E s \in ErStage : Insert(s, j)
  \/ CommitDocument \/ FinishDelete
  \/ \E p \in ErPasses : ErPassNext(p)
  \/ ErCrash

\* The maintenance worker passes again and again, and the deletion worker
\* deletes what is being deleted.
ErSpec ==
  /\ ErInit /\ [][ErNext]_erVars
  /\ WF_erVars(\E p \in ErPasses : ErPassNext(p)) /\ WF_erVars(FinishDelete)

----------------------------------------------------------------------------
ErTypeOK ==
  /\ erAccount.status \in {"none", "active", "erasing"}
  /\ erRefs \in [ErStage -> SUBSET ErKey]
  /\ erOwned.status \in {"absent", "creating", "active", "deleting"}
  /\ erProgress \in [stage : 0 .. Len(ErStages), cursor : 0 .. ErKeys]
  /\ \A p \in ErPasses : erPass[p].at \in {"off", "batch", "next", "finish"}

\* Erasure goes forward only: once it has begun no document of the account is
\* published or given to it, nothing that lies behind the durable cursor names
\* it again however late a write lands, and an account whose row is gone is
\* named by nothing.
ErErasureAdvances ==
  /\ erAccount.status = "none" => Named = {} /\ erOwned = Absent
  /\ Erasing =>
       /\ erOwned.status \in {"absent", "deleting"}
       /\ \A s \in ErStage : \A k \in erRefs[s] :
            s > erProgress.stage \/ (s = erProgress.stage /\ k > erProgress.cursor)

\* An erasure ends.
ErErasureEnds == Erasing ~> ~Erasing
=============================================================================
