---------------------------- MODULE RoomRegistry ----------------------------
(***************************************************************************)
(* RoomSet: which in-memory room stands for a document.  Callers look a    *)
(* room up, load a cold one behind a slot that callers of the same slug    *)
(* share, and keep a reference; the sweeper writes and drops idle rooms; a *)
(* deletion fences whatever stands for its document.  A reference count is *)
(* the number of holders; the resident limit counts rooms (the limit on    *)
(* their bytes evicts and refuses in the same places).                     *)
(***************************************************************************)
EXTENDS Naturals, FiniteSets, FiniteSetsExt

CONSTANTS
  RegSlug,     \* documents
  RegCaller,   \* calls of get and try_get; each makes at most one room
  RegNone,     \* nobody
  RegMax,      \* config.session.rooms_max
  RegDeletes   \* bound: documents that are deleted

ASSUME RegAssumption ==
  RegMax \in Nat \ {0} /\ RegDeletes \in Nat /\ RegNone \notin RegCaller

VARIABLES
  regDeleting,  \* documents whose catalogue row says deleting
  regRooms,     \* RoomSet.rooms: slug -> the caller that made the room
  regLoading,   \* RoomSet.loading: slug -> slot
  regLoaded,    \* what each slot holds, once loaded
  regRoom,      \* each room made: fenced, dirty
  regCaller,    \* what each call is doing, and what it holds
  regPurge      \* the deletion of each document

regVars == <<regDeleting, regRooms, regLoading, regLoaded, regRoom, regCaller, regPurge>>

RegSlot == RegCaller \X {"try_get", "get"}
NoSlot == <<RegNone, "get">>

RegHolding(c, step) == regCaller[c].step = step
GateFree == \A c \in RegCaller : ~RegHolding(c, "publish")
SlotLocked(k) == \E c \in RegCaller :
                   regCaller[c].step \in {"load", "insert", "publish"} /\ regCaller[c].slot = k
SlotHeld(k) == \/ \E c \in RegCaller : k \in {regCaller[c].pin, regCaller[c].slot}
               \/ \E s \in RegSlug : regPurge[s].slot = k
Resident == {s \in RegSlug : regRooms[s] # RegNone}

\* Somebody other than the map retains the room: a call, a slot that is itself
\* retained, a deletion.
\* (mutant) slots are not counted.
PinnedByCalls(r) == \E c \in RegCaller : regCaller[c].room = r
Pinned(r) ==
  \/ \E c \in RegCaller : regCaller[c].room = r
  \/ \E k \in RegSlot : regLoaded[k] = r /\ (SlotHeld(k) \/ \E s \in RegSlug : regLoading[s] = k)
  \/ \E s \in RegSlug : regPurge[s].room = r
RegIdle(s) == /\ regRooms[s] # RegNone /\ ~Pinned(regRooms[s])
           /\ ~regRoom[regRooms[s]].dirty

\* evict_idle(ceiling): idle rooms go, oldest first, until there is room.
Evictions(ceiling) ==
  LET idle == {s \in RegSlug : RegIdle(s)}
      excess == IF Cardinality(Resident) < ceiling THEN 0 ELSE Cardinality(Resident) - ceiling + 1
      n == Min({excess, Cardinality(idle)})
  IN {gone \in SUBSET idle : Cardinality(gone) = n}

Without(gone) == [s \in RegSlug |-> IF s \in gone THEN RegNone ELSE regRooms[s]]

---------------------------------------------------------------------------
RegGoes(c, step) == regCaller' = [regCaller EXCEPT ![c].step = step]
RegGets(c, r) ==
  regCaller' = [regCaller EXCEPT ![c].step = IF regCaller[c].pin = NoSlot THEN "have" ELSE "check",
                                 ![c].room = r, ![c].slot = NoSlot]

\* get or try_get of a slug: a cached room is returned at once.
RegOpen(c, s, strict) ==
  /\ RegHolding(c, "new")
  /\ IF regRooms[s] # RegNone
     THEN regCaller' = [regCaller EXCEPT ![c] = [@ EXCEPT !.step = "have", !.slug = s,
                                                          !.strict = strict, !.room = regRooms[s]]]
     ELSE regCaller' = [regCaller EXCEPT ![c] = [@ EXCEPT !.slug = s, !.strict = strict,
                                  !.step = IF strict THEN "admit" ELSE "reserve"]]
  /\ UNCHANGED <<regDeleting, regRooms, regLoading, regLoaded, regRoom, regPurge>>

\* Slots nobody waits for are forgotten.
Retained == [s \in RegSlug |-> IF regLoading[s] = NoSlot \/ SlotHeld(regLoading[s])
                               THEN regLoading[s] ELSE NoSlot]

\* try_get, under the admission gate.  Loads under way count as rooms.
RegAdmit(c) ==
  /\ RegHolding(c, "admit") /\ GateFree
  /\ LET s == regCaller[c].slug
         loads == Cardinality({t \in RegSlug : Retained[t] # NoSlot})
         full(rooms) == Cardinality(rooms) + loads >= RegMax
     IN IF regRooms[s] # RegNone
        THEN RegGets(c, regRooms[s]) /\ UNCHANGED <<regRooms, regLoading>>
        ELSE \E gone \in IF Retained[s] = NoSlot /\ full(Resident)
                         THEN Evictions(RegMax - Min({loads, RegMax})) ELSE {{}} :
               /\ regRooms' = Without(gone)
               /\ IF Retained[s] = NoSlot /\ full(Resident \ gone)
                  THEN RegGoes(c, "refused") /\ regLoading' = Retained
                  ELSE LET slot == IF Retained[s] # NoSlot THEN Retained[s] ELSE <<c, "try_get">>
                       IN /\ regLoading' = [Retained EXCEPT ![s] = slot]
                          /\ regCaller' = [regCaller EXCEPT ![c].step = "reserve", ![c].pin = slot]
  /\ UNCHANGED <<regDeleting, regLoaded, regRoom, regPurge>>

\* get: the load is reserved under the admission gate, without a limit.
RegReserve(c) ==
  /\ RegHolding(c, "reserve") /\ GateFree
  /\ LET s == regCaller[c].slug
         slot == IF Retained[s] # NoSlot THEN Retained[s] ELSE <<c, "get">>
     IN IF regRooms[s] # RegNone
        THEN RegGets(c, regRooms[s]) /\ UNCHANGED regLoading
        ELSE /\ regLoading' = [Retained EXCEPT ![s] = slot]
             /\ regCaller' = [regCaller EXCEPT ![c].step = "lock", ![c].slot = slot]
  /\ UNCHANGED <<regDeleting, regRooms, regLoaded, regRoom, regPurge>>

RegLock(c) ==
  /\ RegHolding(c, "lock") /\ ~SlotLocked(regCaller[c].slot)
  /\ IF regLoaded[regCaller[c].slot] # RegNone
     THEN RegGets(c, regLoaded[regCaller[c].slot])
     ELSE RegGoes(c, "load")
  /\ UNCHANGED <<regDeleting, regRooms, regLoading, regLoaded, regRoom, regPurge>>

\* The catalogue is read and the room built from storage.
RegLoad(c) ==
  /\ RegHolding(c, "load")
  /\ regRoom' = [regRoom EXCEPT ![c] = [fenced |-> regCaller[c].slug \in regDeleting, dirty |-> FALSE]]
  /\ regCaller' = [regCaller EXCEPT ![c].step = "insert", ![c].room = c]
  /\ UNCHANGED <<regDeleting, regRooms, regLoading, regLoaded, regPurge>>

\* Under the gate: make room, and cache the new room or fence it.
\* (mutant) a room that is not cached stays writable.
UncachedWritable(c) == regRoom
Uncached(c) == [regRoom EXCEPT ![c].fenced = TRUE]

RegInsert(c) ==
  /\ RegHolding(c, "insert") /\ GateFree
  /\ \E gone \in Evictions(RegMax) :
       IF Cardinality(Resident \ gone) < RegMax
       THEN /\ regRooms' = [Without(gone) EXCEPT ![regCaller[c].slug] = c]
            /\ UNCHANGED regRoom
       ELSE /\ regRooms' = Without(gone)
            /\ regRoom' = Uncached(c)
  /\ regLoaded' = [regLoaded EXCEPT ![regCaller[c].slot] = c]
  /\ RegGoes(c, "publish")
  /\ UNCHANGED <<regDeleting, regLoading, regPurge>>

RegPublish(c) ==
  /\ RegHolding(c, "publish")
  /\ regLoading' = [regLoading EXCEPT ![regCaller[c].slug] = NoSlot]
  /\ RegGets(c, c)
  /\ UNCHANGED <<regDeleting, regRooms, regLoaded, regRoom, regPurge>>

\* try_get answers with the room only if its slug is cached.
RegCheck(c) ==
  /\ RegHolding(c, "check")
  /\ IF regRooms[regCaller[c].slug] # RegNone
     THEN regCaller' = [regCaller EXCEPT ![c].step = "have", ![c].pin = NoSlot]
     ELSE regCaller' = [regCaller EXCEPT ![c].step = "refused", ![c].pin = NoSlot, ![c].room = RegNone]
  /\ UNCHANGED <<regDeleting, regRooms, regLoading, regLoaded, regRoom, regPurge>>

---------------------------------------------------------------------------
RegEdit(c) ==
  /\ RegHolding(c, "have") /\ ~regRoom[regCaller[c].room].fenced
  /\ regRoom' = [regRoom EXCEPT ![regCaller[c].room].dirty = TRUE]
  /\ UNCHANGED <<regDeleting, regRooms, regLoading, regLoaded, regCaller, regPurge>>

\* The caller is done, or its request is dropped at an await: a half-built room
\* goes with it, a published slot stays behind.
RegLeave(c) ==
  /\ regCaller[c].step \notin {"new", "left", "refused"}
  /\ regCaller' = [regCaller EXCEPT ![c] = [@ EXCEPT !.step = "left", !.pin = NoSlot,
                                                     !.slot = NoSlot, !.room = RegNone]]
  /\ UNCHANGED <<regDeleting, regRooms, regLoading, regLoaded, regRoom, regPurge>>

\* sweep: rooms in the map are written; idle ones go while more than half of
\* the limit is resident.
RegTick(s) ==
  /\ regRooms[s] # RegNone
  /\ regRoom[regRooms[s]].dirty /\ ~regRoom[regRooms[s]].fenced
  /\ regRoom' = [regRoom EXCEPT ![regRooms[s]].dirty = FALSE]
  /\ UNCHANGED <<regDeleting, regRooms, regLoading, regLoaded, regCaller, regPurge>>

RegTrim(s) ==
  /\ GateFree /\ RegIdle(s) /\ Cardinality(Resident) > RegMax \div 2
  /\ regRooms' = Without({s})
  /\ UNCHANGED <<regDeleting, regLoading, regLoaded, regRoom, regCaller, regPurge>>

---------------------------------------------------------------------------
\* A deletion: the row first, then whatever stands for the document, loading
\* or loaded, is fenced and dropped from the map.
RegBeginDelete(s) ==
  /\ s \notin regDeleting /\ Cardinality(regDeleting) < RegDeletes
  /\ regDeleting' = regDeleting \cup {s}
  /\ regPurge' = [regPurge EXCEPT ![s].step = "look"]
  /\ UNCHANGED <<regRooms, regLoading, regLoaded, regRoom, regCaller>>

PurgeSlot(s) == regLoading[s]

RegPurgeLook(s) ==
  /\ regPurge[s].step = "look"
  /\ regPurge' = [regPurge EXCEPT ![s] =
       CASE regRooms[s] # RegNone -> [@ EXCEPT !.step = "fence", !.room = regRooms[s]]
         [] regRooms[s] = RegNone /\ PurgeSlot(s) # NoSlot -> [@ EXCEPT !.step = "wait", !.slot = PurgeSlot(s)]
         [] OTHER -> [@ EXCEPT !.step = "done"]]
  /\ UNCHANGED <<regDeleting, regRooms, regLoading, regLoaded, regRoom, regCaller>>

RegPurgeWait(s) ==
  /\ regPurge[s].step = "wait" /\ ~SlotLocked(regPurge[s].slot)
  /\ LET r == regLoaded[regPurge[s].slot]
     IN regPurge' = [regPurge EXCEPT ![s] = [step |-> IF r = RegNone THEN "done" ELSE "fence",
                                             slot |-> NoSlot, room |-> r]]
  /\ UNCHANGED <<regDeleting, regRooms, regLoading, regLoaded, regRoom, regCaller>>

RegPurgeFence(s) ==
  /\ regPurge[s].step = "fence"
  /\ regRoom' = [regRoom EXCEPT ![regPurge[s].room].fenced = TRUE]
  /\ regPurge' = [regPurge EXCEPT ![s].step = "drop"]
  /\ UNCHANGED <<regDeleting, regRooms, regLoading, regLoaded, regCaller>>

RegPurgeDrop(s) ==
  /\ regPurge[s].step = "drop"
  /\ regRooms' = Without({s})
  /\ regPurge' = [regPurge EXCEPT ![s] = [step |-> "done", slot |-> NoSlot, room |-> RegNone]]
  /\ UNCHANGED <<regDeleting, regLoading, regLoaded, regRoom, regCaller>>

---------------------------------------------------------------------------
RegInit ==
  /\ regDeleting = {}
  /\ regRooms = [s \in RegSlug |-> RegNone]
  /\ regLoading = [s \in RegSlug |-> NoSlot]
  /\ regLoaded = [k \in RegSlot |-> RegNone]
  /\ regRoom = [c \in RegCaller |-> [fenced |-> FALSE, dirty |-> FALSE]]
  /\ regCaller = [c \in RegCaller |-> [step |-> "new", slug |-> RegNone, strict |-> FALSE,
                                       pin |-> NoSlot, slot |-> NoSlot, room |-> RegNone]]
  /\ regPurge = [s \in RegSlug |-> [step |-> "no", slot |-> NoSlot, room |-> RegNone]]

RegNext ==
  \/ \E c \in RegCaller : \/ \E s \in RegSlug, strict \in BOOLEAN : RegOpen(c, s, strict)
                          \/ RegAdmit(c) \/ RegReserve(c) \/ RegLock(c) \/ RegLoad(c)
                          \/ RegInsert(c) \/ RegPublish(c) \/ RegCheck(c)
                          \/ RegEdit(c) \/ RegLeave(c)
  \/ \E s \in RegSlug : \/ RegTick(s) \/ RegTrim(s) \/ RegBeginDelete(s)
                        \/ RegPurgeLook(s) \/ RegPurgeWait(s) \/ RegPurgeFence(s) \/ RegPurgeDrop(s)

RegSpec == RegInit /\ [][RegNext]_regVars

---------------------------------------------------------------------------
\* Rooms that somebody can still write through, or that are about to be handed out.
Made(s) == {c \in RegCaller : /\ regCaller[c].slug = s
                              /\ \/ regRooms[s] = c
                                 \/ \E d \in RegCaller : regCaller[d].room = c
                                 \/ \E k \in RegSlot : regLoaded[k] = c /\ SlotHeld(k)}
\* An edit that was accepted into memory is in a room the sweeper visits, until
\* it is written or its document is deleted.
RegDirtyIsSwept ==
  \A s \in RegSlug : \A c \in RegCaller :
    regCaller[c].slug = s /\ regRoom[c].dirty /\ ~regRoom[c].fenced => regRooms[s] = c

\* One document, one writable room, and the one the sweeper visits when it has
\* edits to write: two of them would each append snapshots that lack the
\* other's edits, and one that nobody visits would keep its own in memory.
RegSingleWriter ==
  /\ RegDirtyIsSwept
  /\ \A s \in RegSlug : Cardinality({c \in Made(s) : ~regRoom[c].fenced}) <= 1

\* try_get admits a caller to the room that stands for the document.
RegAdmittedToTheRoom ==
  \A c \in RegCaller : RegHolding(c, "have") /\ regCaller[c].strict
    => \/ regRooms[regCaller[c].slug] = regCaller[c].room
       \/ regCaller[c].slug \in regDeleting
=============================================================================
