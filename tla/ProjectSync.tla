---------------------------- MODULE ProjectSync ----------------------------
(***************************************************************************)
(* librepaper sync on a directory (cli/sync.rs, ProjectClient): the texts  *)
(* and assets of a project against the room, through a baseline that is    *)
(* kept on disk and names what the two last agreed on.  reconcile_local    *)
(* reads the tree, changes the shared document, uploads, writes the tree,  *)
(* fetches and only then saves the baseline; the author keeps saving, the  *)
(* peers keep editing, a transfer may fail and the process may stop        *)
(* between any two of these.                                               *)
(*                                                                         *)
(* A body is its set of words, no words standing for no file; an asset is  *)
(* a digest.  The shared document is a set of items (path, incarnation of  *)
(* the path, word, how often inserted before) with deletions, and a last-  *)
(* writer-wins register for each asset, so updates can be applied twice.   *)
(* The sharing policy, path checks and the renaming of a shared body are   *)
(* left out: every path is shared.                                         *)
(***************************************************************************)
EXTENDS Naturals, Sequences, FiniteSets

CONSTANTS PjText, PjAsset,  \* paths of sources and of assets
          PjEdits,          \* edits of author and peers in a behaviour
          PjFailures        \* transfers failed, connections lost, restarts

None == 0   \* no asset

VARIABLES pjRoom,
          pjSent,     \* what is on its way to the room
          pjConn, pjReady,
          pjDoc, pjOutbox,
          pjBase,     \* the baseline: [version, files, assets, state]
          pjNeeds,    \* needs_full_sync
          pjFromDisk, pjFromSession,
          pjCall,     \* the reconcile_local in progress
          pjFiles, pjAssets,   \* the tree
          pjEvent,    \* a watcher event not yet received
          pjDisk,     \* the baseline on disk
          pjEdit, pjFails,
          pjWords,    \* words the author or a peer typed and nobody removed
          pjRemoved,  \* incarnations of paths that a peer or the author removed
          pjLost,     \* a save was replaced before a reconcile had read it
          pjFresh,    \* paths saved since the tree was last read
          pjOpen,     \* assets in conflict that the author has not saved since
          pjChosen    \* such a conflict was decided
pjTree == <<pjFiles, pjAssets, pjEvent>>
pjMemory == <<pjDoc, pjOutbox, pjBase, pjNeeds, pjFromDisk, pjFromSession>>
pjWire == <<pjRoom, pjSent, pjConn, pjReady>>
pjBounds == <<pjEdit, pjFails>>
pjGhost == <<pjWords, pjRemoved, pjLost, pjFresh, pjOpen, pjChosen>>
pjVars == <<pjWire, pjMemory, pjCall, pjTree, pjDisk, pjBounds, pjGhost>>

NoDoc == [ins |-> {}, del |-> {}, asset |-> [a \in PjAsset |-> <<0, None>>]]
Newer(x, y) == IF x[1] < y[1] THEN y ELSE x
Joined(d, e) == [ins |-> d.ins \cup e.ins, del |-> d.del \cup e.del,
                 asset |-> [a \in PjAsset |-> Newer(d.asset[a], e.asset[a])]]
Gone(d, i) == i \in d.del \/ <<i[1], i[2]>> \in d.del
PjBody(d, p) == {i[3] : i \in {j \in d.ins : j[1] = p /\ ~Gone(d, j)}}
Texts(d) == [p \in PjText |-> PjBody(d, p)]
Assets(d) == [a \in PjAsset |-> d.asset[a][2]]

\* put_text and remove_path: a body that comes back gets a new incarnation.
Incarnation(d, p) ==
    LET known == {i[2] : i \in {j \in d.ins : j[1] = p}}
        live == {n \in known : <<p, n>> \notin d.del}
    IN IF live = {} THEN Cardinality(known) ELSE CHOOSE n \in live : TRUE
PutText(d, p, body) ==
    LET n == Incarnation(d, p) IN
    IF body = PjBody(d, p) THEN d
    ELSE IF body = {} THEN [d EXCEPT !.del = @ \cup {<<p, n>>}]
    ELSE [d EXCEPT
            !.ins = @ \cup {<<p, n, w, Cardinality({i \in d.ins : i[3] = w})>> :
                                w \in body \ PjBody(d, p)},
            !.del = @ \cup {i \in d.ins : i[1] = p /\ i[3] \notin body}]
PutTexts(d, bodies) ==
    LET after == [p \in PjText |-> PutText(d, p, bodies[p])] IN
    [d EXCEPT !.ins = UNION {after[p].ins : p \in PjText},
              !.del = UNION {after[p].del : p \in PjText}]
\* actor is 0 for a peer and 1 for the client; it breaks ties.
PjPutAsset(d, a, digest, actor) ==
    [d EXCEPT !.asset[a] = <<2 * ((@[1] \div 2) + 1) + actor, digest>>]

NoBase == [version |-> 0, files |-> [p \in PjText |-> {}],
           assets |-> [a \in PjAsset |-> None], state |-> NoDoc]
PjIdle == [step |-> "none"]

PjInit ==
    /\ \E files \in [PjText -> {{}, {1}}], room \in [PjText -> {{}, {1}}] :
         /\ pjFiles = files
         /\ pjRoom = PutTexts(NoDoc, room)
         /\ pjWords = {1} \cap (UNION {files[p] : p \in PjText}
                                \cup UNION {room[p] : p \in PjText})
    /\ pjAssets = [a \in PjAsset |-> None]
    /\ pjSent = NoDoc /\ pjConn = "down" /\ pjReady = FALSE
    /\ pjDoc = NoDoc /\ pjOutbox = NoDoc /\ pjBase = NoBase /\ pjNeeds = FALSE
    /\ pjFromDisk = FALSE /\ pjFromSession = FALSE /\ pjCall = PjIdle
    /\ pjEvent = FALSE /\ pjDisk = NoBase /\ pjEdit = 1 /\ pjFails = PjFailures
    /\ pjRemoved = {} /\ pjLost = FALSE /\ pjFresh = {} /\ pjOpen = {} /\ pjChosen = FALSE

-----------------------------------------------------------------------------
(* The merge of one path.                                                  *)

\* merge_project_conflict: the text merge where it succeeds, else both sides
\* and the base between markers.
Clean(base, local, remote) ==
    (local \cap remote) \cup (local \ base) \cup (remote \ base)
PjMarked(base, local, remote) == base \cup local \cup remote
\* merge_project_value
RemoteBodies(base, local, remote) == {IF remote = base THEN local ELSE remote}
MergedBodies(base, local, remote) ==
    CASE local = base -> {remote}
      [] remote = base -> {local}
      [] local = remote -> {local}
      [] OTHER -> {PjMarked(base, local, remote)}
                  \cup IF local = {} \/ remote = {} THEN {}
                       ELSE {Clean(base, local, remote)}

\* What reconcile_local does about an asset: l on disk, r in the room, b in the
\* baseline.
Decision(l, r, b) ==
    IF l = None THEN IF r # None /\ r = b THEN "unshare" ELSE "leave"
    ELSE IF r = l THEN "leave"
    ELSE IF b = l THEN IF r = None THEN "remove" ELSE "leave"
    ELSE IF b # None /\ r \notin {None, b} THEN "conflict"
    ELSE "upload"

-----------------------------------------------------------------------------
(* The client.                                                             *)

PjFree == pjCall.step = "none"
PjMayFail == pjFails > 0
PjFail == pjFails' = pjFails - 1

\* The socket is gone; the room may have handled what was on its way.
Lose(sent) ==
    /\ pjConn' = "down" /\ pjSent' = NoDoc
    /\ pjRoom' \in {pjRoom, Joined(pjRoom, sent)}

Connect ==
    /\ pjConn = "down" /\ PjFree
    /\ pjConn' = "up" /\ pjReady' = FALSE
    /\ pjNeeds' = (pjBase.version = 1)
    /\ pjSent' = pjOutbox /\ pjOutbox' = NoDoc
    /\ UNCHANGED <<pjRoom, pjDoc, pjBase, pjFromDisk, pjFromSession, pjCall,
                   pjTree, pjDisk, pjBounds, pjGhost>>

Disconnected ==
    /\ pjConn = "up" /\ PjMayFail /\ PjFree
    /\ Lose(pjSent) /\ PjFail
    /\ UNCHANGED <<pjReady, pjMemory, pjCall, pjTree, pjDisk, pjEdit, pjGhost>>

RoomReceive ==
    /\ pjConn = "up" /\ Joined(pjRoom, pjSent) # pjRoom
    /\ pjRoom' = Joined(pjRoom, pjSent) /\ pjSent' = NoDoc
    /\ UNCHANGED <<pjConn, pjReady, pjMemory, pjCall, pjTree, pjDisk, pjBounds,
                   pjGhost>>

PjReceiveUpdate ==
    /\ pjConn = "up" /\ pjReady /\ PjFree
    /\ Joined(pjDoc, pjRoom) # pjDoc
    /\ pjDoc' = Joined(pjDoc, pjRoom) /\ pjFromSession' = TRUE
    /\ UNCHANGED <<pjWire, pjOutbox, pjBase, pjNeeds, pjFromDisk, pjCall, pjTree,
                   pjDisk, pjBounds, pjGhost>>

Watched ==
    /\ pjConn = "up" /\ PjFree /\ pjEvent
    /\ pjEvent' = FALSE /\ pjFromDisk' = TRUE
    /\ UNCHANGED <<pjWire, pjDoc, pjOutbox, pjBase, pjNeeds, pjFromSession,
                   pjCall, pjFiles, pjAssets, pjDisk, pjBounds, pjGhost>>

\* reconcile_local up to its first upload: the tree is read, the texts are
\* merged and the merge is put into the document.
Inventory(doc, why) ==
    /\ \E merged \in [PjText -> SUBSET (0..pjEdit)] :
        /\ \A p \in PjText :
             merged[p] \in MergedBodies(pjBase.files[p], pjFiles[p], PjBody(doc, p))
        /\ LET decide == [a \in PjAsset |->
                 Decision(pjAssets[a], Assets(doc)[a], pjBase.assets[a])]
           IN /\ pjCall' = [step |-> "assets", why |-> why, files |-> pjFiles,
                            assets |-> pjAssets, merged |-> merged,
                            decide |-> decide, before |-> doc]
              /\ pjOpen' = pjOpen \cup {a \in PjAsset : decide[a] = "conflict"}
        /\ pjDoc' = PutTexts(doc, merged)
        /\ pjRemoved' = pjRemoved \cup {<<p, Incarnation(doc, p)>> :
                            p \in {q \in PjText : pjFiles[q] = {} /\ merged[q] = {}}}
    /\ pjFresh' = {}
    /\ UNCHANGED <<pjWords, pjLost, pjChosen>>

\* y-state arrives.
ReceiveState ==
    /\ pjConn = "up" /\ ~pjReady /\ PjFree
    /\ pjReady' = TRUE
    /\ Inventory(Joined(pjDoc, pjRoom), "state")
    /\ UNCHANGED <<pjRoom, pjSent, pjConn, pjOutbox, pjBase, pjNeeds, pjFromDisk,
                   pjFromSession, pjTree, pjDisk, pjBounds>>

\* settle: one side has been quiet for the interval.
PjSettle ==
    /\ pjConn = "up" /\ pjReady /\ PjFree
    /\ \/ pjFromDisk /\ pjFromDisk' = FALSE /\ UNCHANGED pjFromSession
       \/ pjFromSession /\ pjFromSession' = FALSE /\ UNCHANGED pjFromDisk
    /\ Inventory(pjDoc, "settle")
    /\ UNCHANGED <<pjWire, pjOutbox, pjBase, pjNeeds, pjTree, pjDisk, pjBounds>>

PjDoing(step) == pjCall.step = step
Deciding(what) == {a \in PjAsset : pjCall.decide[a] = what}

\* A local copy of an asset the room no longer has is removed.
RemoveAsset ==
    /\ PjDoing("assets") /\ Deciding("remove") # {}
    /\ \E a \in Deciding("remove") :
        /\ pjAssets' = [pjAssets EXCEPT ![a] = None]
        /\ pjLost' = (pjLost \/ a \in pjFresh)
        /\ pjCall' = [pjCall EXCEPT !.decide[a] = "leave"]
    /\ pjEvent' = TRUE
    /\ UNCHANGED <<pjWire, pjMemory, pjFiles, pjDisk, pjBounds, pjWords, pjRemoved, pjFresh,
                   pjOpen, pjChosen>>

Upload ==
    /\ PjDoing("assets") /\ Deciding("remove") = {}
    /\ \E a \in Deciding("upload") :
        /\ pjDoc' = PjPutAsset(pjDoc, a, pjCall.assets[a], 1)
        /\ pjCall' = [pjCall EXCEPT !.decide[a] = "leave"]
        /\ pjChosen' = (pjChosen \/ a \in pjOpen)
    /\ UNCHANGED <<pjWire, pjOutbox, pjBase, pjNeeds, pjFromDisk, pjFromSession,
                   pjTree, pjDisk, pjBounds, pjWords, pjRemoved, pjLost, pjFresh, pjOpen>>

\* A transfer fails: run returns, and with it the call.
TransferFails ==
    /\ PjMayFail
    /\ \/ PjDoing("assets") /\ Deciding("upload") # {} /\ Deciding("remove") = {}
       \/ PjDoing("fetch")
    /\ pjCall' = PjIdle
    /\ Lose(pjSent) /\ PjFail
    /\ UNCHANGED <<pjReady, pjMemory, pjTree, pjDisk, pjEdit, pjGhost>>

\* What the document gained since it was read for this call.
Said == [ins |-> pjDoc'.ins \ pjCall.before.ins,
         del |-> pjDoc'.del \ pjCall.before.del, asset |-> pjDoc'.asset]

\* The update is queued, then the texts that differ from what was read are
\* written and those the merge dropped are removed.
WriteTexts ==
    /\ PjDoing("assets") /\ Deciding("remove") = {} /\ Deciding("upload") = {}
    /\ pjDoc' = [pjDoc EXCEPT !.asset = [a \in PjAsset |->
                   IF pjCall.decide[a] = "unshare"
                   THEN PjPutAsset(pjDoc, a, None, 1).asset[a] ELSE @[a]]]
    /\ pjOutbox' = Joined(pjOutbox, Said)
    /\ LET written == {p \in PjText : pjCall.merged[p] # pjCall.files[p]} IN
       /\ pjFiles' = [p \in PjText |-> IF p \in written THEN pjCall.merged[p]
                                       ELSE pjFiles[p]]
       /\ pjEvent' = (pjEvent \/ written # {})
       /\ pjLost' = (pjLost \/ written \cap pjFresh # {})
    /\ pjCall' = [pjCall EXCEPT !.step = "fetch"]
    /\ UNCHANGED <<pjWire, pjBase, pjNeeds, pjFromDisk, pjFromSession, pjAssets,
                   pjDisk, pjBounds, pjWords, pjRemoved, pjFresh, pjOpen, pjChosen>>

\* The assets of the document whose file does not hold them are fetched, a
\* conflicting one to a name of its own.
Unfetched == {a \in PjAsset : /\ Assets(pjDoc)[a] \notin {None, pjAssets[a]}
                              /\ pjCall.decide[a] # "conflict"}
Fetch ==
    /\ PjDoing("fetch")
    /\ \E a \in Unfetched :
        /\ pjAssets' = [pjAssets EXCEPT ![a] = Assets(pjDoc)[a]]
        /\ pjLost' = (pjLost \/ a \in pjFresh)
    /\ pjEvent' = TRUE
    /\ UNCHANGED <<pjWire, pjMemory, pjCall, pjFiles, pjDisk, pjBounds, pjWords, pjRemoved,
                   pjFresh, pjOpen, pjChosen>>

\* The whole document follows a join that had a checkpoint to start from.
Whole == IF pjCall.why = "state" /\ pjNeeds THEN pjDoc ELSE NoDoc

\* The baseline is replaced on disk and in memory, and the outbox goes out.
SaveBaseline ==
    /\ PjDoing("fetch") /\ Unfetched = {}
    /\ pjBase' = [version |-> 1, files |-> pjCall.merged,
                  assets |-> Assets(pjDoc), state |-> pjDoc]
    /\ pjDisk' = pjBase'
    /\ pjCall' = PjIdle
    /\ LET frames == Joined(pjOutbox, Whole) IN
       \/ /\ pjSent' = Joined(pjSent, frames) /\ pjOutbox' = NoDoc
          /\ pjNeeds' = (pjNeeds /\ pjCall.why # "state")
          /\ UNCHANGED <<pjRoom, pjConn, pjFails>>
       \/ /\ PjMayFail /\ PjFail /\ Lose(Joined(pjSent, frames))
          /\ pjOutbox' = frames /\ UNCHANGED pjNeeds
    /\ UNCHANGED <<pjReady, pjDoc, pjFromDisk, pjFromSession, pjTree, pjEdit,
                   pjGhost>>

\* The process stops and is started again: all it has is the tree, with the
\* baseline among it.
Restart ==
    /\ PjMayFail /\ PjFail
    /\ Lose(pjSent) /\ pjBase' = pjDisk /\ pjDoc' = pjDisk.state
    /\ pjReady' = FALSE /\ pjNeeds' = (pjDisk.version = 1) /\ pjOutbox' = NoDoc
    /\ pjFromDisk' = FALSE /\ pjFromSession' = FALSE /\ pjCall' = PjIdle
    /\ pjEvent' = FALSE
    /\ UNCHANGED <<pjFiles, pjAssets, pjDisk, pjEdit, pjGhost>>

-----------------------------------------------------------------------------
(* The author and the peers.                                               *)

MayEdit == pjEdit < PjEdits + 1
NextEdit == pjEdit' = pjEdit + 1

AuthorSavesText ==
    /\ MayEdit /\ NextEdit
    /\ \E p \in PjText :
        \E body \in {{}, {pjEdit'}, pjFiles[p] \cup {pjEdit'}} :
            /\ body # pjFiles[p]
            /\ pjFiles' = [pjFiles EXCEPT ![p] = body]
            /\ pjWords' = (pjWords \ (pjFiles[p] \ body)) \cup (body \cap {pjEdit'})
            /\ pjFresh' = pjFresh \cup {p}
    /\ pjEvent' = TRUE
    /\ UNCHANGED <<pjWire, pjMemory, pjCall, pjAssets, pjDisk, pjFails, pjRemoved,
                   pjLost, pjOpen, pjChosen>>

AuthorSavesAsset ==
    /\ MayEdit /\ NextEdit
    /\ \E a \in PjAsset, digest \in {None, pjEdit'} :
        /\ digest # pjAssets[a]
        /\ pjAssets' = [pjAssets EXCEPT ![a] = digest]
        /\ pjFresh' = pjFresh \cup {a} /\ pjOpen' = pjOpen \ {a}
    /\ pjEvent' = TRUE
    /\ UNCHANGED <<pjWire, pjMemory, pjCall, pjFiles, pjDisk, pjFails, pjWords, pjRemoved,
                   pjLost, pjChosen>>

\* A peer changes or removes a body the room has.
PeerEdits ==
    /\ MayEdit /\ NextEdit
    /\ \E p \in PjText :
        LET said == PjBody(pjRoom, p) IN
        /\ said # {}
        /\ \E body \in {{}, {pjEdit'}, said \cup {pjEdit'}} :
            /\ pjRoom' = PutText(pjRoom, p, body)
            /\ pjWords' = (pjWords \ (said \ body)) \cup (body \cap {pjEdit'})
        /\ pjRemoved' = pjRemoved \cup {x \in pjRoom'.del : Len(x) = 2}
    /\ UNCHANGED <<pjSent, pjConn, pjReady, pjMemory, pjCall, pjTree, pjDisk,
                   pjFails, pjLost, pjFresh, pjOpen, pjChosen>>

PeerPutsAsset ==
    /\ MayEdit /\ NextEdit
    /\ \E a \in PjAsset, digest \in {None, pjEdit'} :
        /\ digest # Assets(pjRoom)[a]
        /\ pjRoom' = PjPutAsset(pjRoom, a, digest, 0)
    /\ UNCHANGED <<pjSent, pjConn, pjReady, pjMemory, pjCall, pjTree, pjDisk,
                   pjFails, pjGhost>>

PjNext == Connect \/ Disconnected \/ RoomReceive \/ PjReceiveUpdate \/ Watched
          \/ ReceiveState \/ PjSettle \/ RemoveAsset \/ Upload \/ TransferFails
          \/ WriteTexts \/ Fetch \/ SaveBaseline \/ Restart
          \/ AuthorSavesText \/ AuthorSavesAsset \/ PeerEdits \/ PeerPutsAsset
PjSpec == PjInit /\ [][PjNext]_pjVars

-----------------------------------------------------------------------------
(* Properties.                                                             *)

Everywhere == UNION {pjFiles[p] \cup PjBody(pjDoc, p) \cup PjBody(pjRoom, p)
                     \cup pjBase.files[p] : p \in PjText}

\* A client with nothing left to do holds what the room and the tree hold.
PjSettled == /\ pjConn = "up" /\ pjReady /\ PjFree
           /\ ~pjEvent /\ ~pjFromDisk /\ ~pjFromSession
           /\ pjSent = NoDoc /\ pjOutbox = NoDoc
PjTreeAgrees ==
    PjSettled
        => /\ Texts(pjDoc) = pjFiles /\ pjBase.files = pjFiles
           /\ \A a \in PjAsset \ pjOpen : Assets(pjDoc)[a] = pjAssets[a]

\* No word that somebody typed and nobody removed is lost by a merge, a failed
\* transfer or a restart, unless a save was replaced before it was read or the
\* file it was typed into was removed by a peer or the author at the same time;
\* and a client with nothing left to do has brought the session, the tree and
\* the base of the next merge to the same content.
PjWordsSurvive ==
    pjLost
      \/ /\ PjTreeAgrees
         /\ \A w \in pjWords : w \in Everywhere
              \/ \E i \in pjDoc.ins \cup pjRoom.ins :
                   i[3] = w /\ <<i[1], i[2]>> \in pjRemoved

\* Whatever the client put into its document reaches the room.
PjChangesArrive == PjSettled => Joined(pjRoom, pjDoc) = pjRoom

\* No save is replaced before a reconcile has read it.
PjSavesAreRead == ~pjLost

\* Two versions of an asset that conflict stay with the author until the next
\* save of that asset.
PjConflictsStay == ~pjChosen
=============================================================================
