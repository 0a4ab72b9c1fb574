------------------------------ MODULE FileSync ------------------------------
(***************************************************************************)
(* librepaper sync on one file (cli/sync.rs, Client): the file on disk as  *)
(* a peer of the session.  One task owns the shared document, the text the *)
(* file and the session last agreed on (base) and what is to be sent; the  *)
(* socket may close at any point, and the author's editor writes the file  *)
(* whenever it likes, also between the read and the write of a merge.      *)
(*                                                                         *)
(* A text is the set of its words; a word is <<place, n>>.  Two texts      *)
(* conflict where both changed the words of one place.  A shared document  *)
(* is the items inserted and the items deleted, as in Yjs, so that an      *)
(* update can be applied late, twice or out of order; an item is a word    *)
(* and how often it was inserted before.  The request for a mark in the    *)
(* timeline that follows a save carries no text and is left out, as are    *)
(* files that cannot be read.                                              *)
(***************************************************************************)
EXTENDS Naturals, Sequences, FiniteSets, Functions

CONSTANTS SyncPlace,   \* the places of the text
          SyncWords,   \* words typed in a behaviour, by the author or a peer
          SyncDrops,   \* connections lost
          SyncNone     \* no digest, no file

ASSUME SyncAssumption ==
  /\ IsFiniteSet(SyncPlace) /\ SyncWords \in Nat
  /\ \A text \in SUBSET (SyncPlace \X (0..SyncWords)) : text # SyncNone

VARIABLES syServer,      \* the room's document
          sySent,        \* frames on their way to the room
          syInbox,       \* frames on their way to the client
          syConn,        \* "down" or "up"
          syReady,       \* state_ready
          syDoc,         \* the client's document
          syBase, syWrote, syEstablished, syOutbox,
          syFromDisk, syFromSession,
          syMerge,       \* the file as read, while a merge is being written
          syFile, syEvent,  \* the file, and a watcher event not yet received
          syBuffer,      \* the author's editor: its text now and one undo before
          syWord, syDropped,   \* words typed, connections lost
          syKnown,       \* words the author's editor ever held
          syInFile,      \* words the file ever held
          syErased,      \* words merges deleted from the session, once joined
          syUnread,      \* the file holds a save no read has seen
          syLost         \* such a save was replaced
syWire == <<sySent, syInbox, syConn, syReady, syDropped>>
syClient == <<syDoc, syBase, syWrote, syEstablished, syFromDisk, syFromSession, syMerge>>
syDisk == <<syFile, syEvent, syUnread, syLost, syInFile>>
syAuthor == <<syBuffer, syWord, syKnown>>
syVars == <<syServer, syWire, syClient, syOutbox, syDisk, syAuthor, syErased>>

Empty == [ins |-> {}, del |-> {}]
Text(d) == {<<i[1], i[2]>> : i \in d.ins \ d.del}
FileJoined(d, e) == [ins |-> d.ins \cup e.ins, del |-> d.del \cup e.del]
FileAt(text, p) == {w \in text : w[1] = p}
SyncTexts == {{<<p, 0>> : p \in SyncPlace}}

\* wasm_helpers::text::merge: where both sides changed a place the session's
\* words are kept.
FileMergedText(base, local, remote) ==
    UNION {IF FileAt(local, p) = FileAt(base, p) \/ FileAt(remote, p) # FileAt(base, p)
           THEN FileAt(remote, p) ELSE FileAt(local, p) : p \in SyncPlace}

\* The update that makes a document say text: a word deleted before comes back
\* as an item of its own.
Edits(d, text) ==
    [ins |-> {<<w[1], w[2], Cardinality({i \in d.ins : <<i[1], i[2]>> = w})>> :
                 w \in text \ Text(d)},
     del |-> {i \in d.ins \ d.del : <<i[1], i[2]>> \notin text}]

SyncInit ==
    \E text \in SyncTexts, file \in SyncTexts \cup {SyncNone} :
        /\ syServer = Edits(Empty, text)
        /\ syFile = file /\ syBuffer = [now |-> text, before |-> text] /\ syKnown = text
        /\ syInFile = IF file = SyncNone THEN {} ELSE file
        /\ sySent = <<>> /\ syInbox = <<>>
        /\ syConn = "down" /\ syReady = FALSE
        /\ syDoc = Empty /\ syBase = {} /\ syWrote = SyncNone
        /\ syEstablished = FALSE /\ syOutbox = <<>>
        /\ syFromDisk = FALSE /\ syFromSession = FALSE /\ syMerge = <<>>
        /\ syEvent = FALSE /\ syWord = 0 /\ syDropped = 0
        /\ syErased = {} /\ syUnread = FALSE /\ syLost = FALSE

-----------------------------------------------------------------------------
(* The room, as the client meets it.                                       *)

\* What the room holds after handling the first frames of a sequence.
Updates(frames) == {f \in Range(frames) : f.type = "update"}
Handled(frames) ==
    [ins |-> syServer.ins \cup UNION {f.update.ins : f \in Updates(frames)},
     del |-> syServer.del \cup UNION {f.update.del : f \in Updates(frames)}]

FileRoomReceive ==
    /\ syConn = "up" /\ sySent # <<>>
    /\ sySent' = Tail(sySent)
    /\ syServer' = Handled(<<Head(sySent)>>)
    /\ IF Head(sySent).type = "open"
       THEN syInbox' = Append(syInbox, [type |-> "state", update |-> syServer])
       ELSE UNCHANGED syInbox
    /\ UNCHANGED <<syConn, syReady, syDropped, syClient, syOutbox, syDisk,
                   syAuthor, syErased>>

\* Another peer replaces the words of a place, or removes them.
FilePeerEdits ==
    /\ syWord < SyncWords
    /\ \E p \in SyncPlace : \E new \in SUBSET {<<p, syWord + 1>>} :
        LET said == Text(syServer)
            update == Edits(syServer, (said \ FileAt(said, p)) \cup new) IN
        /\ update # Empty
        /\ syServer' = FileJoined(syServer, update)
        /\ syInbox' = IF syConn = "up"
                      THEN Append(syInbox, [type |-> "update", update |-> update])
                      ELSE syInbox
    /\ syWord' = syWord + 1
    /\ UNCHANGED <<sySent, syConn, syReady, syDropped, syClient,
                   syOutbox, syDisk, syBuffer, syKnown, syErased>>

\* The socket closes: what was under way to the client is lost, and the room
\* may have handled some of what was under way to it.
FileLose(frames) ==
    /\ syDropped < SyncDrops
    /\ \E k \in 0..Len(frames) : syServer' = Handled(SubSeq(frames, 1, k))
    /\ syDropped' = syDropped + 1
    /\ syConn' = "down" /\ sySent' = <<>> /\ syInbox' = <<>>

-----------------------------------------------------------------------------
(* The client.                                                             *)

Idling == syMerge = <<>>

\* The outbox goes out whole, or stays whole for the next connection.
Flush(frames) ==
    \/ /\ sySent' = sySent \o frames /\ syOutbox' = <<>>
       /\ UNCHANGED <<syServer, syConn, syInbox, syDropped>>
    \/ frames # <<>> /\ FileLose(sySent \o frames) /\ syOutbox' = frames

FileConnect ==
    /\ syConn = "down" /\ Idling
    /\ syReady' = FALSE
    /\ LET frames == <<[type |-> "open"]>> \o syOutbox IN
       \/ /\ syConn' = "up" /\ sySent' = frames /\ syOutbox' = <<>>
          /\ UNCHANGED <<syServer, syInbox, syDropped>>
       \/ FileLose(frames) /\ syOutbox' = frames
    /\ UNCHANGED <<syClient, syDisk, syAuthor, syErased>>

FileDisconnected ==
    /\ syConn = "up" /\ Idling
    /\ FileLose(sySent)
    /\ UNCHANGED <<syReady, syClient, syOutbox, syDisk, syAuthor, syErased>>

\* y-state: the document as the room holds it, then the file is read.
FileReceiveState ==
    /\ syConn = "up" /\ Idling /\ syInbox # <<>>
    /\ Head(syInbox).type = "state"
    /\ syInbox' = Tail(syInbox)
    /\ syDoc' = FileJoined(syDoc, Head(syInbox).update)
    /\ syMerge' = <<[why |-> "joined", local |-> syFile]>>
    /\ syUnread' = FALSE
    /\ UNCHANGED <<syServer, sySent, syConn, syReady, syDropped,
                   syBase, syWrote, syEstablished, syFromDisk, syFromSession, syOutbox, syFile, syEvent, syLost,
                   syInFile, syAuthor, syErased>>

FileReceiveUpdate ==
    /\ syConn = "up" /\ Idling /\ syInbox # <<>>
    /\ Head(syInbox).type = "update"
    /\ syInbox' = Tail(syInbox)
    /\ syDoc' = FileJoined(syDoc, Head(syInbox).update)
    /\ syFromSession' = TRUE
    /\ UNCHANGED <<syServer, sySent, syConn, syReady, syDropped,
                   syBase, syWrote, syEstablished, syFromDisk, syMerge, syOutbox, syDisk, syAuthor, syErased>>

\* The watcher's event is received; the debounce starts over.
FileWatched ==
    /\ syConn = "up" /\ Idling /\ syEvent
    /\ syEvent' = FALSE /\ syFromDisk' = TRUE
    /\ UNCHANGED <<syServer, syWire, syDoc, syBase, syWrote, syEstablished,
                   syFromSession, syMerge, syOutbox, syFile,
                   syUnread, syLost, syInFile, syAuthor, syErased>>

\* settle: the file has been quiet for the interval and is read.
SettleDisk ==
    /\ syConn = "up" /\ Idling /\ syReady /\ syFromDisk
    /\ syFromDisk' = FALSE
    /\ syMerge' = <<[why |-> "disk", local |-> syFile]>>
    /\ syUnread' = FALSE
    /\ UNCHANGED <<syServer, syWire, syDoc, syBase, syWrote, syEstablished,
                   syFromSession, syOutbox, syFile, syEvent,
                   syLost, syInFile, syAuthor, syErased>>

WriteFile(text) ==
    /\ syFile' = text /\ syWrote' = text /\ syEvent' = TRUE
    /\ syLost' = (syLost \/ syUnread) /\ syUnread' = FALSE
    /\ syInFile' = syInFile \cup text

LeaveFile == UNCHANGED <<syFile, syEvent, syLost, syUnread, syInFile>>

\* reconcile: base, what the file said when it was read, and what the document
\* says now.
Reconcile(base, local, wrote) ==
    LET merged == FileMergedText(base, local, Text(syDoc))
        update == Edits(syDoc, merged)
    IN /\ syDoc' = FileJoined(syDoc, update)
       /\ syBase' = merged
       /\ syErased' = IF syEstablished THEN syErased \cup (Text(syDoc) \ merged)
                      ELSE syErased
       /\ IF merged # local THEN WriteFile(merged)
          ELSE LeaveFile /\ syWrote' = wrote

Update(d) == IF d = Empty THEN <<>> ELSE <<[type |-> "update", update |-> d]>>

\* The base of a join: what the file and the session last agreed on, or, the
\* first time, the session's text.
JoinBaseRemote(remote) == remote
JoinBase(remote) == IF syEstablished THEN syBase ELSE remote

\* The whole document follows every join.
CatchUpNothing(d) == <<>>
CatchUp(d) == <<[type |-> "update", update |-> d]>>

MarkerUsed == SyncNone

\* joined: what a join or a rejoin does with the file that was read.
FinishJoin ==
    /\ syMerge # <<>> /\ syMerge[1].why = "joined"
    /\ LET local == syMerge[1].local
           remote == Text(syDoc)
       IN CASE local = SyncNone ->
                 /\ WriteFile(remote) /\ syBase' = remote
                 /\ UNCHANGED <<syDoc, syErased>>
            [] local = remote ->
                 /\ syBase' = remote /\ LeaveFile
                 /\ UNCHANGED <<syDoc, syWrote, syErased>>
            [] OTHER -> Reconcile(JoinBase(remote), local, syWrote)
    /\ syEstablished' = TRUE /\ syMerge' = <<>>
    /\ LET update == [ins |-> syDoc'.ins \ syDoc.ins,
                      del |-> syDoc'.del \ syDoc.del]
       IN Flush(syOutbox \o Update(update) \o CatchUp(syDoc'))
    /\ syReady' = TRUE
    /\ UNCHANGED <<syFromDisk, syFromSession, syAuthor>>

\* read_file, after the read.  The marker of the client's own write is used up.
FinishRead ==
    /\ syMerge # <<>> /\ syMerge[1].why = "disk"
    /\ LET local == syMerge[1].local IN
       CASE local \in {syWrote, SyncNone} ->
              /\ syWrote' = IF local = SyncNone THEN syWrote ELSE MarkerUsed
              /\ LeaveFile
              /\ UNCHANGED <<syDoc, syBase, syErased>>
         [] local # syWrote /\ local = Text(syDoc) ->
              /\ syWrote' = MarkerUsed /\ syBase' = local /\ LeaveFile
              /\ UNCHANGED <<syDoc, syErased>>
         [] OTHER -> Reconcile(syBase, local, MarkerUsed)
    /\ syMerge' = <<>>
    /\ LET update == [ins |-> syDoc'.ins \ syDoc.ins,
                      del |-> syDoc'.del \ syDoc.del]
       IN Flush(syOutbox \o Update(update))
    /\ UNCHANGED <<syReady, syEstablished, syFromDisk, syFromSession, syAuthor>>

\* settle: the session has been quiet for the interval.  A save that waits for
\* its own interval goes first.
SettleSession ==
    /\ syConn = "up" /\ Idling /\ syReady /\ syFromSession /\ ~syFromDisk
    /\ syFromSession' = FALSE
    /\ IF Text(syDoc) # syBase
       THEN WriteFile(Text(syDoc)) /\ syBase' = Text(syDoc)
       ELSE LeaveFile /\ UNCHANGED <<syWrote, syBase>>
    /\ UNCHANGED <<syServer, syWire, syDoc, syEstablished, syFromDisk, syMerge,
                   syOutbox, syAuthor, syErased>>

-----------------------------------------------------------------------------
(* The author's editor: it loads the file, and saves its buffer whole.     *)

FileLoad ==
    /\ syFile \notin {SyncNone, syBuffer.now}
    /\ syBuffer' = [now |-> syFile, before |-> syBuffer.now]
    /\ syKnown' = syKnown \cup syFile
    /\ UNCHANGED <<syServer, syWire, syClient, syOutbox, syDisk, syWord, syErased>>

Saved(text) ==
    /\ syFile' = text /\ syEvent' = TRUE /\ syUnread' = TRUE
    /\ syInFile' = syInFile \cup text
    /\ syBuffer' = [now |-> text, before |-> syBuffer.now]
    /\ UNCHANGED <<syServer, syWire, syClient, syOutbox, syLost, syErased>>

Save ==
    /\ syWord < SyncWords /\ syFile # SyncNone
    /\ \E p \in SyncPlace : \E new \in SUBSET {<<p, syWord + 1>>} :
        LET text == (syBuffer.now \ FileAt(syBuffer.now, p)) \cup new IN
        text # syBuffer.now /\ Saved(text)
    /\ syWord' = syWord + 1
    /\ syKnown' = syKnown \cup syBuffer'.now

Undo ==
    /\ syWord < SyncWords /\ syFile # SyncNone
    /\ syBuffer.before # syBuffer.now
    /\ Saved(syBuffer.before)
    /\ syWord' = syWord + 1 /\ UNCHANGED syKnown

SyncClientStep == FileConnect \/ FileReceiveState \/ FileReceiveUpdate \/ FileWatched
                  \/ SettleDisk \/ FinishJoin \/ FinishRead \/ SettleSession
SyncNext == SyncClientStep \/ FileRoomReceive \/ FilePeerEdits \/ FileDisconnected
            \/ FileLoad \/ Save \/ Undo
SyncSpec == SyncInit /\ [][SyncNext]_syVars

-----------------------------------------------------------------------------
(* Properties.                                                             *)

\* Once joined, a merge deletes from the session only words that were in the
\* file at some time: what the session gained while the socket was down, or
\* while the author was typing, is never taken for a deletion.
SyncSessionWordsSurvive == syErased \subseteq syInFile

\* What the client changed reaches the room, over any number of connections lost
\* with updates under way: a client that is joined, has nothing to send and
\* nothing on the wire holds no change the room lacks.  And when it has acted on
\* every event of its connection, the file, the base and the document say the
\* same, unless the connection is a second one.
SyncSettles ==
    syConn = "up" /\ syReady /\ Idling =>
        /\ syOutbox = <<>> /\ sySent = <<>> => FileJoined(syServer, syDoc) = syServer
        /\ ~syEvent /\ ~syFromDisk /\ ~syFromSession /\ syDropped = 0
             => syBase = Text(syDoc) /\ syFile = syBase

\* Nobody's words are lost to the other side: neither the session's to a merge
\* nor the file's to a lost connection.
SyncWordsSurvive == SyncSessionWordsSurvive /\ SyncSettles

\* No save of the author is replaced by a file the client had not read it for.
SyncSavesAreRead == ~syLost

\* A merge never deletes words the author's editor has never held.
SyncUnseenWordsSurvive == syErased \subseteq syKnown
=============================================================================
