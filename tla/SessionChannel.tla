--------------------------- MODULE SessionChannel ---------------------------
(***************************************************************************)
(* The channel between a browser's copy of a document and the room's: the  *)
(* socket with its reconnections (web/src/lib/room.js), the check made     *)
(* before a rejoin (lib/reader/collaboration.js), the Yjs session with the *)
(* updates it still counts as unsaved (lib/collab.js), and the server's    *)
(* half: the slot and the queue of a socket, the reader loop, the relay to *)
(* the other editors, and the acknowledgement that follows a write         *)
(* (server/socket.rs, room/mod.rs, room/outgoing.rs).                      *)
(*                                                                         *)
(* A copy is a set of edits <<b, n>>, the n-th edit of browser b; an edit  *)
(* whose predecessor is missing waits, unseen, as a Yjs struct does.       *)
(***************************************************************************)
EXTENDS Integers, FiniteSets, Sequences, SequencesExt

CONSTANTS
  Browser,        \* the tabs that edit the document
  SessConns,      \* how many connections each tab makes
  SessQueue,      \* session.peer_queue: frames waiting for one socket
  SessSlots,      \* document_editors_max
  SessFaults      \* what happens in a run: [edits (of each tab), drops (connections the
                  \* network cuts), crashes, failures, decisions (reviews),
                  \* ref (whether a y-state is too large for a frame)]

VARIABLES
  tab,       \* of each browser: its copy, what it holds as pending, its socket
  link,      \* of each connection: the server's task and the frames both ways
  mem,       \* the room's document
  durable,   \* the document in storage
  dirty, writing,
  blind,     \* edits made before their tab heard of the review
  over,      \* edits the review was made over
  sessLeft

sessVars == <<tab, link, mem, durable, dirty, writing, blind, over, sessLeft>>

Decided == <<"review", 0>>                     \* the server's own edit
Conn == UNION {1..SessConns[b] : b \in Browser}
NoWrite == [on |-> FALSE]
NoLink == [phase |-> "none"]

\* What a copy shows: an edit whose predecessors are all there.
Seen(doc) == {w \in doc : \A n \in 1..(w[2] - 1) : <<w[1], n>> \in doc}

\* An edit of a tracked change made without knowing of the review, in the case
\* where the browser's version of the record wins over the server's when the
\* two meet: the update would take the review back.
Clashes(words) == Decided \in mem /\ words \cap (blind \ over) # {}

------------------------------------------------------------------------------
(* The browser.                                                            *)

Held(b) == UNION {h.words : h \in tab[b].held}
Socket(b) == link[b][tab[b].conn]
IsOpen(b) == tab[b].conn > 0 /\ tab[b].live

\* sendUpdate: an update too large for one frame goes as start, chunks, end.
Frames(words, seq) ==
  IF Cardinality(words) <= 1 THEN <<[kind |-> "update", seq |-> seq, words |-> words]>>
  ELSE LET parts == SetToSeq(words) IN
       <<[kind |-> "start", seq |-> seq, size |-> Len(parts)]>>
       \o [i \in DOMAIN parts |-> [kind |-> "chunk", seq |-> seq, index |-> i, words |-> {parts[i]}]]
       \o <<[kind |-> "end", seq |-> seq]>>

\* room.send: a frame that finds no open socket is not kept anywhere.
Sent(b, frames) ==
  IF IsOpen(b) /\ Socket(b).phase # "none"
  THEN [link EXCEPT ![b][tab[b].conn].up = @ \o frames] ELSE link

\* A handshake the server has a slot for; the socket's events start anew.
Admitted == {c \in Browser \X Conn : link[c[1]][c[2]].phase # "none"}
OpenSocket(b) ==
  /\ ~tab[b].live
  /\ tab[b].conn < SessConns[b]
  /\ Cardinality(Admitted) < SessSlots
  /\ tab' = [tab EXCEPT ![b].conn = @ + 1, ![b].live = TRUE,
                        ![b].joined = FALSE, ![b].checking = TRUE]
  /\ link' = [link EXCEPT ![b][tab[b].conn + 1] =
       [phase |-> "upgraded", peer |-> FALSE, cut |-> FALSE, up |-> <<>>, down |-> <<>>,
        sent |-> 0, acked |-> 0, parts |-> [on |-> FALSE], relay |-> <<>>]]
  /\ UNCHANGED <<mem, durable, dirty, writing, blind, over, sessLeft>>

\* reconnect: the document is the one it was, so the session asks for it.
Rejoin(b) ==
  /\ tab[b].checking
  /\ tab' = [tab EXCEPT ![b].checking = FALSE]
  /\ link' = Sent(b, <<[kind |-> "open", vector |-> Seen(tab[b].doc)]>>)
  /\ UNCHANGED <<mem, durable, dirty, writing, blind, over, sessLeft>>

\* A keystroke: held until it is acknowledged, sent if the session is joined.
Type(b) ==
  LET n == Cardinality({w \in tab[b].doc : w[1] = b}) + 1 IN
  /\ n <= sessLeft.edits[b]
  /\ tab' = [tab EXCEPT ![b].doc = @ \cup {<<b, n>>}, ![b].seq = @ + 1,
             ![b].held = @ \cup {[seq |-> tab[b].seq + 1, words |-> {<<b, n>>}]}]
  /\ blind' = IF Decided \in tab[b].doc THEN blind ELSE blind \cup {<<b, n>>}
  /\ link' = IF tab[b].joined THEN Sent(b, Frames({<<b, n>>}, tab[b].seq + 1)) ELSE link
  /\ UNCHANGED <<mem, durable, dirty, writing, over, sessLeft>>

\* start and catchUp: with the server's copy in, everything its vector lacks
\* goes out under one number, which stands for all that was pending.
Missing(b, words, vector) == (tab[b].doc \cup words) \ vector
CaughtUp(b, words, vector) ==
  [tab[b] EXCEPT !.doc = @ \cup words, !.joined = TRUE, !.seq = @ + 1,
                 !.held = {[seq |-> tab[b].seq + 1, words |-> Missing(b, words, vector)]}]

\* acknowledge: the numbers up to this one are in storage.
Acknowledged(t, seq) == [t EXCEPT !.held = {h \in @ : h.seq > seq}]

\* A frame from the socket the tab holds now; those of older ones are dropped.
FrameArrives(b) ==
  LET frame == Head(Socket(b).down)
      now == [link EXCEPT ![b][tab[b].conn].down = Tail(@)] IN
  /\ IsOpen(b) /\ Socket(b).phase # "none" /\ Socket(b).down # <<>>
  /\ \/ /\ frame.kind = "update"
        /\ tab' = [tab EXCEPT ![b].doc = @ \cup frame.words]
        /\ link' = now
     \/ /\ frame.kind = "ack"
        /\ tab' = [tab EXCEPT ![b] = Acknowledged(@, frame.seq)]
        /\ link' = now
     \/ /\ frame.kind = "ref"
        /\ tab' = [tab EXCEPT ![b].fetching = @ \cup {frame.vector}]
        /\ link' = now
     \/ /\ frame.kind = "state"
        /\ tab' = [tab EXCEPT ![b] = CaughtUp(b, frame.words, frame.vector)]
        /\ link' = [now EXCEPT ![b][tab[b].conn].up =
                      @ \o Frames(Missing(b, frame.words, frame.vector), tab[b].seq + 1)]
  /\ UNCHANGED <<mem, durable, dirty, writing, blind, over, sessLeft>>

\* The answer to a reference, fetched beside the socket.
Fetched(b) ==
  \E vector \in tab[b].fetching :
    /\ tab' = [tab EXCEPT ![b] =
                 [CaughtUp(b, mem, vector) EXCEPT !.fetching = @ \ {vector}]]
    /\ link' = Sent(b, Frames(Missing(b, mem, vector), tab[b].seq + 1))
    /\ UNCHANGED <<mem, durable, dirty, writing, blind, over, sessLeft>>

\* The network cuts a connection: the browser is told, the server later.
Cut(b) ==
  /\ sessLeft.drops > 0 /\ IsOpen(b)
  /\ tab' = [tab EXCEPT ![b].live = FALSE]
  /\ link' = IF Socket(b).phase = "none" THEN link ELSE [link EXCEPT ![b][tab[b].conn].cut = TRUE]
  /\ sessLeft' = [sessLeft EXCEPT !.drops = @ - 1]
  /\ UNCHANGED <<mem, durable, dirty, writing, blind, over>>

\* A socket the server closed: onclose.
Closed(b) ==
  /\ IsOpen(b) /\ Socket(b).phase = "none"
  /\ tab' = [tab EXCEPT ![b].live = FALSE]
  /\ UNCHANGED <<link, mem, durable, dirty, writing, blind, over, sessLeft>>

\* Two seconds without a socket.
Unjoin(b) ==
  /\ ~tab[b].live /\ (tab[b].joined \/ tab[b].checking)
  /\ tab' = [tab EXCEPT ![b].joined = FALSE, ![b].checking = FALSE]
  /\ UNCHANGED <<link, mem, durable, dirty, writing, blind, over, sessLeft>>

------------------------------------------------------------------------------
(* The server's half of a connection.                                      *)

Attach(b, k) ==
  /\ link[b][k].phase = "upgraded"
  /\ link' = [link EXCEPT ![b][k].phase = "open", ![b][k].peer = TRUE]
  /\ UNCHANGED <<tab, mem, durable, dirty, writing, blind, over, sessLeft>>

\* A frame for one peer; a peer whose queue is full is dropped from the room.
Queued(l, frame) ==
  IF Len(l.down) >= SessQueue THEN [l EXCEPT !.peer = FALSE]
  ELSE [l EXCEPT !.down = Append(@, frame)]
Peers(links) == {c \in Browser \X Conn : links[c[1]][c[2]].phase = "open" /\ links[c[1]][c[2]].peer}
Posted(links, to, frame(_)) ==
  [x \in Browser |-> [y \in Conn |->
     IF <<x, y>> \in to THEN Queued(links[x][y], frame(<<x, y>>)) ELSE links[x][y]]]

\* The reader loop takes the next frame, as long as the room knows the peer.
Reading(b, k) == /\ link[b][k].phase = "open" /\ link[b][k].up # <<>>
                 /\ link[b][k].relay = <<>> /\ link[b][k].peer
Taken(b, k) == [link EXCEPT ![b][k].up = Tail(@)]
Breaks(b, k) == link' = [link EXCEPT ![b][k].phase = "closing"]

ReadOpen(b, k) ==
  /\ Reading(b, k) /\ Head(link[b][k].up).kind = "open"
  /\ IF Len(link[b][k].down) >= SessQueue THEN Breaks(b, k)
     ELSE link' = [Taken(b, k) EXCEPT ![b][k].down = Append(@,
              IF sessLeft.ref THEN [kind |-> "ref", vector |-> Seen(mem)]
              ELSE [kind |-> "state", vector |-> Seen(mem),
                    words |-> mem \ Head(link[b][k].up).vector])]
  /\ UNCHANGED <<tab, mem, durable, dirty, writing, blind, over, sessLeft>>

\* UpdateAssembly: the parts of one update, in order.
ReadPart(b, k) ==
  LET frame == Head(link[b][k].up)
      parts == link[b][k].parts IN
  /\ Reading(b, k) /\ frame.kind \in {"start", "chunk"}
  /\ IF frame.kind = "start"
     THEN IF parts.on THEN Breaks(b, k)
          ELSE link' = [Taken(b, k) EXCEPT ![b][k].parts =
                 [on |-> TRUE, seq |-> frame.seq, size |-> frame.size, next |-> 1, words |-> {}]]
     ELSE IF ~parts.on \/ parts.seq # frame.seq \/ parts.next # frame.index THEN Breaks(b, k)
          ELSE link' = [Taken(b, k) EXCEPT ![b][k].parts.next = @ + 1,
                                           ![b][k].parts.words = @ \cup frame.words]
  /\ UNCHANGED <<tab, mem, durable, dirty, writing, blind, over, sessLeft>>

\* receive_update: an update that would rewrite a reviewed record is ignored,
\* and so does not move the number this socket is acknowledged up to; any
\* other is applied, dirties the room and is to be relayed.
ReadUpdate(b, k) ==
  LET frame == Head(link[b][k].up)
      whole == frame.kind = "end"
      parts == link[b][k].parts
      words == IF whole THEN parts.words ELSE frame.words IN
  /\ Reading(b, k) /\ frame.kind \in {"update", "end"}
  /\ IF whole /\ (~parts.on \/ parts.seq # frame.seq \/ parts.next # parts.size + 1)
     THEN /\ Breaks(b, k)
          /\ UNCHANGED <<mem, dirty, writing>>
     ELSE LET now == [Taken(b, k) EXCEPT ![b][k].parts = [on |-> FALSE]] IN
          IF Clashes(words)
          THEN /\ link' = now
               /\ UNCHANGED <<mem, dirty, writing>>
          ELSE /\ link' = [now EXCEPT ![b][k].relay = <<words>>,
                           ![b][k].sent = IF frame.seq > @ THEN frame.seq ELSE @]
               /\ mem' = mem \cup words
               /\ dirty' = TRUE
               /\ writing' = IF writing.on THEN [writing EXCEPT !.moved = TRUE] ELSE writing
  /\ UNCHANGED <<tab, durable, blind, over, sessLeft>>

\* broadcast_editors_except, after the room has let go of the update.
Relay(b, k) ==
  /\ link[b][k].phase = "open" /\ link[b][k].relay # <<>>
  /\ LET now == [link EXCEPT ![b][k].relay = <<>>] IN
     link' = Posted(now, Peers(now) \ {<<b, k>>},
                  LAMBDA c : [kind |-> "update", words |-> Head(link[b][k].relay)])
  /\ UNCHANGED <<tab, mem, durable, dirty, writing, blind, over, sessLeft>>

\* The loop ends: the browser is gone, or housekeeping (or the check before a
\* frame) finds that the room has dropped the peer.
Breaking(b, k) ==
  /\ link[b][k].phase = "open" /\ link[b][k].relay = <<>>
  /\ link[b][k].cut \/ ~link[b][k].peer
  /\ Breaks(b, k)
  /\ UNCHANGED <<tab, mem, durable, dirty, writing, blind, over, sessLeft>>

\* Teardown: the last editor to leave waits for what was written here.
Leave(b, k) ==
  /\ link[b][k].phase = "closing"
  /\ \/ ~dirty \/ Peers(link) \ {<<b, k>>} # {}
     \/ sessLeft.failures > 0
  /\ link' = [link EXCEPT ![b][k] = NoLink]
  /\ sessLeft' = IF dirty /\ Peers(link) \ {<<b, k>>} = {}
                 THEN [sessLeft EXCEPT !.failures = @ - 1] ELSE sessLeft
  /\ UNCHANGED <<tab, mem, durable, dirty, writing, blind, over>>

------------------------------------------------------------------------------
(* The room's writes.                                                      *)

\* write_session_inner: the state and the number each peer has sent, taken
\* together.
WriteBegins ==
  /\ dirty /\ ~writing.on
  /\ writing' = [on |-> TRUE, words |-> mem, moved |-> FALSE,
                 sent |-> [c \in Peers(link) |-> link[c[1]][c[2]].sent]]
  /\ UNCHANGED <<tab, link, mem, durable, dirty, blind, over, sessLeft>>

\* Mutant: what the peer has sent by the end of the write is acknowledged.
AckedLate(c) == link[c[1]][c[2]].sent

\* What a finished write lets a peer count as saved: what it had sent when the
\* state was taken.
Acked(c) == writing.sent[c]

WriteEnds ==
  LET due == {c \in Peers(link) \cap DOMAIN writing.sent :
                Acked(c) > link[c[1]][c[2]].acked}
      now == [x \in Browser |-> [y \in Conn |->
                IF <<x, y>> \in due THEN [link[x][y] EXCEPT !.acked = Acked(<<x, y>>)]
                ELSE link[x][y]]] IN
  /\ writing.on
  /\ durable' = writing.words
  /\ dirty' = writing.moved
  /\ writing' = NoWrite
  /\ link' = Posted(now, due, LAMBDA c : [kind |-> "ack", seq |-> Acked(c)])
  /\ UNCHANGED <<tab, mem, blind, over, sessLeft>>

WriteFails ==
  /\ writing.on /\ sessLeft.failures > 0
  /\ writing' = NoWrite
  /\ sessLeft' = [sessLeft EXCEPT !.failures = @ - 1]
  /\ UNCHANGED <<tab, link, mem, durable, dirty, blind, over>>

\* An owner accepts a tracked change; the edits it covers are known by then.
Review ==
  /\ sessLeft.decisions > 0
  /\ mem' = mem \cup {Decided} /\ over' = mem
  /\ dirty' = TRUE
  /\ writing' = IF writing.on THEN [writing EXCEPT !.moved = TRUE] ELSE writing
  /\ link' = Posted(link, Peers(link), LAMBDA c : [kind |-> "update", words |-> {Decided}])
  /\ sessLeft' = [sessLeft EXCEPT !.decisions = @ - 1]
  /\ UNCHANGED <<tab, durable, blind>>

\* A crash: a write that was under way is in storage or not.
SessCrash ==
  /\ sessLeft.crashes > 0
  /\ \E words \in {durable} \cup (IF writing.on THEN {writing.words} ELSE {}) :
       mem' = words /\ durable' = words
  /\ dirty' = FALSE /\ writing' = NoWrite
  /\ link' = [b \in Browser |-> [k \in Conn |-> NoLink]]
  /\ sessLeft' = [sessLeft EXCEPT !.crashes = @ - 1]
  /\ UNCHANGED <<tab, blind, over>>

------------------------------------------------------------------------------
SessInit ==
  /\ tab = [b \in Browser |-> [doc |-> {}, held |-> {}, seq |-> 0, joined |-> FALSE,
              checking |-> FALSE, conn |-> 0, live |-> FALSE, fetching |-> {}]]
  /\ link = [b \in Browser |-> [k \in Conn |-> NoLink]]
  /\ mem = {} /\ durable = {} /\ dirty = FALSE /\ writing = NoWrite
  /\ blind = {} /\ over = {}
  /\ sessLeft \in SessFaults

SessNext ==
  \/ \E b \in Browser :
       \/ OpenSocket(b) \/ Rejoin(b) \/ Type(b) \/ FrameArrives(b) \/ Fetched(b)
       \/ Cut(b) \/ Closed(b) \/ Unjoin(b)
       \/ \E k \in Conn : \/ Attach(b, k) \/ ReadOpen(b, k) \/ ReadPart(b, k)
                          \/ ReadUpdate(b, k) \/ Relay(b, k) \/ Breaking(b, k) \/ Leave(b, k)
  \/ WriteBegins \/ WriteEnds \/ WriteFails \/ Review \/ SessCrash

SessSpec == SessInit /\ [][SessNext]_sessVars

\* A tab that counts nothing as pending has its edits in storage, in a place
\* where they show: "pending is the honest answer to 'is my work safe'".
SessPendingIsHonest ==
  \A b \in Browser : tab[b].held = {} =>
    \A w \in tab[b].doc : w[1] = b => w \in Seen(durable)

\* With nothing under way, everybody who is joined reads the room's text.
SessQuiet(b) ==
  /\ IsOpen(b) /\ tab[b].joined /\ tab[b].fetching = {} /\ Socket(b).phase = "open"
  /\ Socket(b).peer /\ Socket(b).up = <<>> /\ Socket(b).down = <<>>
SessAgrees ==
  (\A b \in Browser, k \in Conn : link[b][k].phase = "open" => link[b][k].relay = <<>>) =>
    \A b \in Browser : SessQuiet(b) => Seen(tab[b].doc) = Seen(mem)

\* Saved is saved, and what is there is shown to all.
SessEditsArrive == SessPendingIsHonest /\ SessAgrees
=============================================================================
