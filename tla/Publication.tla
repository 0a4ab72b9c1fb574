---------------------------- MODULE Publication ----------------------------
(***************************************************************************)
(* Rendered publications of one document (server/publication.rs).  A       *)
(* publisher prepares a manifest under an idempotency key, uploads the     *)
(* objects the server lacks, and activates the manifest by a compare-and-  *)
(* swap on one pointer.  Objects are content addressed and shared between  *)
(* publications; a janitor removes expired staging and reclaims objects    *)
(* that nothing names.  All of it runs under one lock per document, which  *)
(* is free again as soon as the call that held it fails or is dropped, so  *)
(* every storage step of a call is an action of its own.  Some reads fail  *)
(* unseen: what they were to find then counts as absent.                   *)
(*                                                                         *)
(* A request ID stands for one manifest; times count in units of the       *)
(* janitor's view of the clock.                                            *)
(***************************************************************************)
EXTENDS Naturals, FiniteSets

CONSTANTS PubRequest,   \* idempotency keys
          PubHash,      \* object digests
          PubBundle,    \* the hashes of each request's manifest
          PubNone,      \* no publication
          PubTtl,       \* STAGING_TTL_SECS
          PubTicks,     \* how far the clock runs
          PubFailures   \* storage failures and dropped calls in a behaviour

ASSUME PubAssumption == /\ PubBundle \in [PubRequest -> SUBSET PubHash]
                        /\ PubNone \notin PubRequest
                        /\ PubTtl \in Nat \ {0} /\ PubTicks \in Nat

VARIABLES pubNow,
          pubCurrent,    \* the pointer: [id, previous]
          pubObjects,    \* objects/<sha>
          pubMeta,       \* staging/<request>/.meta: [at, expected]
          pubDescriptor, \* requests whose staging/<request>/.manifest exists
          pubStaged,     \* staging/<request>/<sha>
          pubRetired,    \* retire/<sha>: when, or 0
          pubCall,       \* the call that holds the document's lock
          pubMissing,    \* what a request was told to upload
          pubNamedAt,    \* when the pointer last named each object
          pubUnread,     \* requests a collection passed over since they were
                         \* last answered: it could not read their files
          pubFails
pubStore == <<pubCurrent, pubObjects, pubMeta, pubDescriptor, pubStaged,
              pubRetired>>
pubGhost == <<pubMissing, pubNamedAt, pubUnread>>
pubVars == <<pubNow, pubStore, pubCall, pubGhost, pubFails>>

PubIdle == [op |-> "none"]
NoMeta == [at |-> 0, expected |-> PubNone]
Bundle(r) == IF r = PubNone THEN {} ELSE PubBundle[r]

PubInit ==
    /\ pubNow = 1
    /\ pubCurrent = [id |-> PubNone, previous |-> PubNone]
    /\ pubObjects = {} /\ pubDescriptor = {}
    /\ pubMeta = [r \in PubRequest |-> NoMeta]
    /\ pubStaged = [r \in PubRequest |-> {}]
    /\ pubRetired = [h \in PubHash |-> 0]
    /\ pubCall = PubIdle
    /\ pubMissing = [r \in PubRequest |-> {}]
    /\ pubNamedAt = [h \in PubHash |-> 0]
    /\ pubUnread = {}
    /\ pubFails = PubFailures

Unlocked == pubCall.op = "none"
Doing(op) == pubCall.op = op
Finish == pubCall' = PubIdle
Fresh(r) == pubMeta[r].at # 0 /\ pubNow - pubMeta[r].at < PubTtl
Absent(r) == Bundle(r) \ (pubObjects \cup pubStaged[r])

PubTick ==
    /\ pubNow < PubTicks
    /\ pubNow' = pubNow + 1
    /\ pubNamedAt' = [h \in PubHash |->
                        IF h \in Bundle(pubCurrent.id) THEN pubNow'
                        ELSE pubNamedAt[h]]
    /\ UNCHANGED <<pubStore, pubCall, pubMissing, pubUnread, pubFails>>

\* A storage call fails and the call returns its error, or the request's
\* future is dropped, or the process stops: the lock is free, the rest of
\* the call does not happen.  The failures that a call does not look at are
\* part of its own actions; UnlessFailed says what happens without any.
UnlessFailed(ok) ==
    IF ok THEN UNCHANGED pubFails ELSE pubFails > 0 /\ pubFails' = pubFails - 1
PubBreak ==
    /\ ~Unlocked /\ pubFails > 0
    /\ pubFails' = pubFails - 1
    /\ Finish
    /\ UNCHANGED <<pubNow, pubStore, pubGhost>>
-----------------------------------------------------------------------------
(* prepare *)
Active == {r \in pubDescriptor : Fresh(r)}
Published(r, expected) ==
    pubCurrent = [id |-> r, previous |-> expected]
Supersedes(r, expected) == pubCurrent.id = expected
Admissible(r) == Cardinality(Active) < 2

\* The retry of a prepared request gets the missing objects again; the
\* retry of a published one, and every refusal, changes nothing.
PubPrepareAgain(r, expected) ==
    /\ Unlocked /\ ~Published(r, expected) /\ Supersedes(r, expected)
    /\ r \in pubDescriptor /\ Fresh(r) /\ pubMeta[r].expected = expected
    /\ pubMissing' = [pubMissing EXCEPT ![r] = Absent(r)]
    /\ pubUnread' = pubUnread \ {r}
    /\ UNCHANGED <<pubNow, pubStore, pubCall, pubNamedAt, pubFails>>
\* A preparation whose file cannot be read does not count as active, and a
\* descriptor that cannot be read as written.  The marker makes a request
\* that was not fresh one that has no answer yet.
PubPrepare(r, expected) ==
    /\ Unlocked /\ ~Published(r, expected) /\ Supersedes(r, expected)
    /\ UnlessFailed(r \notin pubDescriptor /\ Admissible(r))
    /\ pubMeta' = [pubMeta EXCEPT ![r] = [at |-> pubNow,
                                          expected |-> expected]]
    /\ pubMissing' = IF r \in Active THEN pubMissing
                     ELSE [pubMissing EXCEPT ![r] = Bundle(r)]
    /\ pubCall' = [op |-> "prepare", request |-> r]
    /\ UNCHANGED <<pubNow, pubCurrent, pubObjects, pubDescriptor, pubStaged,
                   pubRetired, pubNamedAt, pubUnread>>
PubPutDescriptor ==
    /\ Doing("prepare")
    /\ pubDescriptor' = pubDescriptor \cup {pubCall.request}
    /\ pubMissing' = [pubMissing EXCEPT ![pubCall.request] =
                        Absent(pubCall.request)]
    /\ pubUnread' = pubUnread \ {pubCall.request}
    /\ Finish
    /\ UNCHANGED <<pubNow, pubCurrent, pubObjects, pubMeta, pubStaged,
                   pubRetired, pubNamedAt, pubFails>>

(* stage_object: the marker is refreshed before the bytes are written *)
PubStage(r, h) ==
    /\ Unlocked /\ r \in pubDescriptor /\ Fresh(r) /\ h \in Bundle(r)
    /\ pubMeta' = [pubMeta EXCEPT ![r].at = pubNow]
    /\ pubCall' = [op |-> "stage", request |-> r, hash |-> h]
    /\ UNCHANGED <<pubNow, pubCurrent, pubObjects, pubDescriptor, pubStaged,
                   pubRetired, pubGhost, pubFails>>
PubPutBytes ==
    /\ Doing("stage")
    /\ pubStaged' = [pubStaged EXCEPT ![pubCall.request] =
                        @ \cup {pubCall.hash}]
    /\ Finish
    /\ UNCHANGED <<pubNow, pubCurrent, pubObjects, pubMeta, pubDescriptor,
                   pubRetired, pubGhost, pubFails>>

(* activate *)
MayActivate(r, expected) ==
    /\ ~Published(r, expected)
    /\ r \in pubDescriptor /\ Fresh(r) /\ pubMeta[r].expected = expected
    /\ Supersedes(r, expected)
PubActivate(r, expected) ==
    /\ Unlocked /\ MayActivate(r, expected)
    /\ pubCall' = [op |-> "activate", request |-> r, expected |-> expected]
    /\ UNCHANGED <<pubNow, pubStore, pubGhost, pubFails>>
\* Objects that are not there yet come from the staging of the request.
Unplaced == Bundle(pubCall.request) \ pubObjects
PubPlace(h) ==
    /\ Doing("activate") /\ h \in Unplaced
    /\ IF h \in pubStaged[pubCall.request]
       THEN pubObjects' = pubObjects \cup {h} /\ UNCHANGED pubCall
       ELSE Finish /\ UNCHANGED pubObjects
    /\ UNCHANGED <<pubNow, pubCurrent, pubMeta, pubDescriptor, pubStaged,
                   pubRetired, pubGhost, pubFails>>
PubSwap ==
    /\ Doing("activate") /\ Unplaced = {}
    /\ pubCurrent' = [id |-> pubCall.request, previous |-> pubCall.expected]
    /\ pubNamedAt' = [h \in PubHash |->
                        IF h \in Bundle(pubCurrent.id)
                                  \cup Bundle(pubCall.request)
                        THEN pubNow ELSE pubNamedAt[h]]
    /\ pubCall' = [op |-> "clear", request |-> pubCall.request]
    /\ UNCHANGED <<pubNow, pubObjects, pubMeta, pubDescriptor, pubStaged,
                   pubRetired, pubMissing, pubUnread, pubFails>>

\* The keys of a request's staging go in one deletion; where it stops, any
\* of them may be left.  After an activation that is only a warning.
ClearStaging(r) ==
    /\ \E meta, descriptor \in BOOLEAN, bytes \in SUBSET pubStaged[r] :
        LET all == meta /\ descriptor /\ bytes = pubStaged[r] IN
        /\ UnlessFailed(all)
        /\ pubMeta' = IF meta THEN [pubMeta EXCEPT ![r] = NoMeta] ELSE pubMeta
        /\ pubDescriptor' = IF descriptor THEN pubDescriptor \ {r}
                            ELSE pubDescriptor
        /\ pubStaged' = [pubStaged EXCEPT ![r] = @ \ bytes]
    /\ Finish
    /\ UNCHANGED <<pubNow, pubCurrent, pubObjects, pubRetired, pubGhost>>
PubClear == Doing("clear") /\ ClearStaging(pubCall.request)

(* cleanup_staging *)
Leftover(r) ==
    r \in pubDescriptor \/ pubMeta[r].at # 0 \/ pubStaged[r] # {}
PubCleanup(r) == Unlocked /\ Leftover(r) /\ ~Fresh(r) /\ ClearStaging(r)
-----------------------------------------------------------------------------
(* garbage_collect *)
LiveOfCurrent(unread) == Bundle(pubCurrent.id)
PubLive(unread) ==
    Bundle(pubCurrent.id) \cup UNION {Bundle(r) : r \in Active \ unread}
\* What is live, and the markers there are, are read first.  A preparation
\* whose marker or descriptor cannot be read is passed over.  The markers of
\* what is live go, as far as their deletion gets: its error is not looked at.
PubCollect ==
    /\ Unlocked
    /\ \E unread \in SUBSET Active :
        LET live == PubLive(unread)
            marked == {h \in live : pubRetired[h] # 0} IN
        \E gone \in SUBSET marked :
           /\ UnlessFailed(unread = {} /\ gone = marked)
           /\ pubRetired' = [h \in PubHash |->
                               IF h \in gone THEN 0 ELSE pubRetired[h]]
           /\ pubUnread' = pubUnread \cup unread
           /\ pubCall' = [op |-> "collect", left |-> pubObjects \ live]
    /\ UNCHANGED <<pubNow, pubCurrent, pubObjects, pubMeta, pubDescriptor,
                   pubStaged, pubMissing, pubNamedAt>>
Retire(h) == pubRetired' = [pubRetired EXCEPT ![h] = pubNow]
PubDue(h) == pubRetired[h] # 0 /\ pubNow - pubRetired[h] >= PubTtl
\* Each of the others is marked (again, where its marker cannot be read),
\* reclaimed, or left to its grace period.
PubMark(h) ==
    /\ Doing("collect") /\ h \in pubCall.left
    /\ UnlessFailed(pubRetired[h] = 0)
    /\ Retire(h)
    /\ pubCall' = [pubCall EXCEPT !.left = @ \ {h}]
    /\ UNCHANGED <<pubNow, pubCurrent, pubObjects, pubMeta, pubDescriptor,
                   pubStaged, pubGhost>>
\* An object and its marker go in one deletion; where it stops, either may be
\* left, and the call ends.
PubReclaim(h) ==
    /\ Doing("collect") /\ h \in pubCall.left /\ PubDue(h)
    /\ \E bytes, marker \in BOOLEAN :
        /\ UnlessFailed(bytes /\ marker)
        /\ pubObjects' = IF bytes THEN pubObjects \ {h} ELSE pubObjects
        /\ pubRetired' = IF marker THEN [pubRetired EXCEPT ![h] = 0]
                         ELSE pubRetired
        /\ IF bytes /\ marker THEN pubCall' = [pubCall EXCEPT !.left = @ \ {h}]
           ELSE Finish
    /\ UNCHANGED <<pubNow, pubCurrent, pubMeta, pubDescriptor, pubStaged,
                   pubGhost>>
PubCollected ==
    /\ Doing("collect")
    /\ \A h \in pubCall.left : pubRetired[h] # 0 /\ ~PubDue(h)
    /\ Finish
    /\ UNCHANGED <<pubNow, pubStore, pubGhost, pubFails>>

PubNext ==
    \/ PubTick \/ PubBreak
    \/ \E r \in PubRequest, expected \in PubRequest \cup {PubNone} :
         \/ PubPrepareAgain(r, expected) \/ PubPrepare(r, expected)
         \/ PubActivate(r, expected)
    \/ PubPutDescriptor
    \/ \E r \in PubRequest, h \in PubHash : PubStage(r, h)
    \/ PubPutBytes
    \/ \E h \in PubHash : PubPlace(h) \/ PubMark(h) \/ PubReclaim(h)
    \/ PubSwap \/ PubClear
    \/ \E r \in PubRequest : PubCleanup(r)
    \/ PubCollect \/ PubCollected

PubSpec == PubInit /\ [][PubNext]_pubVars
-----------------------------------------------------------------------------
\* The published page can always be served: every object the pointer's manifest
\* names is stored, wherever an activation, a deletion or the process stopped.
PubCurrentIsComplete == Bundle(pubCurrent.id) \subseteq pubObjects

\* And what prepare told a publisher it need not upload is still there when it
\* activates: for a request that has not expired, every object is in the store,
\* in its staging, or among those it was told to upload.  Objects are shared,
\* so the janitor must spare what only a preparation names; one it could not
\* read it does not spare (server/publication.rs, garbage_collect), so this is
\* promised only to requests that no collection passed over since the answer.
PubNeededIsStored ==
    /\ PubCurrentIsComplete
    /\ \A r \in Active \ pubUnread : Absent(r) \subseteq pubMissing[r]

\* "Mark and eventually reclaim immutable objects no longer reachable from the
\* current manifest or an unexpired prepared request": garbage_collect takes no
\* other, whatever fails (the comment before it, server/publication.rs:619).
PubReclaimsUnreachable ==
    [][\A h \in pubObjects \ pubObjects' : h \notin PubLive({})]_pubVars

\* docs/protocol/publication.md: "Superseded objects are reclaimed after a
\* 15-minute grace period once they are unreferenced by the current bundle".
PubSupersededHasGrace ==
    [][\A h \in pubObjects \ pubObjects' :
         pubNamedAt[h] # 0 => pubNow - pubNamedAt[h] >= PubTtl]_pubVars
=============================================================================
