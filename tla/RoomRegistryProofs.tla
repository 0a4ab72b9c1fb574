-------------------------- MODULE RoomRegistryProofs --------------------------
(***************************************************************************)
(* For every set of documents and callers and every resident limit: one    *)
(* document has one writable room, and the sweeper visits it while it has  *)
(* edits to write.  For every set of requests to the assistant: none is    *)
(* lost on its way and none is worked on twice.  And for every set of      *)
(* places of a file kept in step with its session, and any number of words *)
(* and lost connections: neither side's words are lost to the other.       *)
(***************************************************************************)
EXTENDS RoomRegistry, AssistantChannel, FileSync, FiniteSetTheorems, SequenceTheorems, TLAPS

RegSteps == {"new", "admit", "reserve", "lock", "load", "insert", "publish", "check", "have",
             "left", "refused"}
RegCalls == [step : RegSteps, slug : RegSlug \cup {RegNone}, strict : BOOLEAN,
             pin : RegSlot \cup {NoSlot}, slot : RegSlot \cup {NoSlot},
             room : RegCaller \cup {RegNone}]
RegPurges == [step : {"no", "look", "wait", "fence", "drop", "done"},
              slot : RegSlot \cup {NoSlot}, room : RegCaller \cup {RegNone}]
RegTypeOK ==
  /\ regDeleting \in SUBSET RegSlug
  /\ regRooms \in [RegSlug -> RegCaller \cup {RegNone}]
  /\ regLoading \in [RegSlug -> RegSlot \cup {NoSlot}]
  /\ regLoaded \in [RegSlot -> RegCaller \cup {RegNone}]
  /\ regRoom \in [RegCaller -> [fenced : BOOLEAN, dirty : BOOLEAN]]
  /\ regCaller \in [RegCaller -> RegCalls]
  /\ regPurge \in [RegSlug -> RegPurges]

\* A room, and a slot, is of the document of the call that made it.
SlugOf(c) == regCaller[c].slug
SlotSlug(k) == regCaller[k[1]].slug
EverythingIsOfItsDocument ==
  /\ \A c \in RegCaller : regCaller[c].step # "new" => SlugOf(c) \in RegSlug
  /\ \A s \in RegSlug :
       /\ regRooms[s] # RegNone => SlugOf(regRooms[s]) = s
       /\ regLoading[s] # NoSlot => SlotSlug(regLoading[s]) = s
       /\ regPurge[s].room # RegNone => SlugOf(regPurge[s].room) = s
       /\ regPurge[s].slot # NoSlot => SlotSlug(regPurge[s].slot) = s
  /\ \A k \in RegSlot : regLoaded[k] # RegNone => SlugOf(regLoaded[k]) = SlotSlug(k)
  /\ \A c \in RegCaller :
       /\ regCaller[c].room # RegNone => SlugOf(regCaller[c].room) = SlugOf(c)
       /\ regCaller[c].pin # NoSlot => SlotSlug(regCaller[c].pin) = SlugOf(c)
       /\ regCaller[c].slot # NoSlot => SlotSlug(regCaller[c].slot) = SlugOf(c)

\* Nobody but the calls in S has the room.
OnlyBy(S, r) ==
  /\ \A c \in RegCaller \ S : regCaller[c].room # r
  /\ \A k \in RegSlot : regLoaded[k] # r
  /\ \A s \in RegSlug : regRooms[s] # r /\ regPurge[s].room # r
\* A room is nowhere before its call has built it, and nowhere else before the
\* call has inserted it.
RoomsAreBuilt ==
  \A c \in RegCaller :
    /\ regCaller[c].step \in {"new", "admit", "reserve", "lock", "load"} => OnlyBy({}, c) /\ ~regRoom[c].dirty
    /\ regCaller[c].step = "insert" => OnlyBy({c}, c)

\* A slot is nowhere before its call has made it.
Nowhere(k) ==
  /\ regLoaded[k] = RegNone /\ ~SlotHeld(k) /\ \A s \in RegSlug : regLoading[s] # k
SlotsAreMade ==
  \A c \in RegCaller :
    /\ regCaller[c].step \in {"new", "admit"} => Nowhere(<<c, "try_get">>)
    /\ regCaller[c].step \in {"new", "admit", "reserve"} => Nowhere(<<c, "get">>)

\* What a call has at each step.
Locking(c) == regCaller[c].step \in {"load", "insert", "publish"}
StepsAreSound ==
  /\ \A c \in RegCaller :
       /\ regCaller[c].step = "new" =>
            regCaller[c].pin = NoSlot /\ regCaller[c].slot = NoSlot /\ regCaller[c].room = RegNone
       /\ regCaller[c].step \in {"lock", "load", "insert", "publish"} => regCaller[c].slot # NoSlot
       /\ regCaller[c].step \in {"load", "insert"} => regLoaded[regCaller[c].slot] = RegNone
       /\ regCaller[c].step \in {"insert", "publish"} => regCaller[c].room = c
       /\ regCaller[c].step \in {"have", "check"} => regCaller[c].room # RegNone
       /\ regCaller[c].step = "publish" =>
            regLoaded[regCaller[c].slot] = c /\ regLoading[SlugOf(c)] = regCaller[c].slot
  /\ \A c, d \in RegCaller :
       Locking(c) /\ Locking(d) /\ regCaller[c].slot = regCaller[d].slot => c = d
  /\ \A c, d \in RegCaller :
       regCaller[c].step = "publish" /\ regCaller[d].step = "publish" => c = d

\* Whoever may still load a document does it through the slot that is in the
\* map, and while that slot is empty the document has no room.
LoadsShareASlot ==
  /\ \A k \in RegSlot : SlotHeld(k) /\ regLoaded[k] = RegNone => regLoading[SlotSlug(k)] = k
  /\ \A s \in RegSlug :
       regLoading[s] # NoSlot /\ regLoaded[regLoading[s]] = RegNone => regRooms[s] = RegNone

\* A writable room that somebody has is the one in the map, or is being built.
WritableIsCached ==
  \A c \in RegCaller :
    Pinned(c) /\ ~regRoom[c].fenced => regRooms[SlugOf(c)] = c \/ regCaller[c].step = "insert"

\* What a deletion has left to fence.
Writable(s) == {c \in RegCaller : SlugOf(c) = s /\ ~regRoom[c].fenced /\
                                  (Pinned(c) \/ regRooms[s] = c)}
PurgesAreSound ==
  \A s \in RegSlug :
    /\ regPurge[s].step # "no" => s \in regDeleting
    /\ regPurge[s].step = "wait" =>
         /\ regPurge[s].slot # NoSlot
         /\ \A c \in Writable(s) : \/ regCaller[c].step = "insert" /\ regCaller[c].slot = regPurge[s].slot
                                   \/ regLoaded[regPurge[s].slot] = c
    /\ regPurge[s].step = "fence" =>
         regPurge[s].room # RegNone /\ Writable(s) \subseteq {regPurge[s].room}
    /\ regPurge[s].step = "drop" => Writable(s) = {}

\* The inductive invariant.
RegInv ==
  /\ RegTypeOK /\ EverythingIsOfItsDocument /\ RoomsAreBuilt /\ SlotsAreMade /\ StepsAreSound
  /\ LoadsShareASlot /\ WritableIsCached /\ PurgesAreSound /\ RegDirtyIsSwept

---------------------------------------------------------------------------
\* The mark for no slot is not a slot.
LEMMA NoSlotIsNoSlot == NoSlot \notin RegSlot
BY RegAssumption DEF RegSlot, NoSlot

\* The initial states satisfy the invariant.
THEOREM InitRegInv == RegInit => RegInv
<1> SUFFICES ASSUME RegInit PROVE RegInv
  OBVIOUS
<1> USE RegAssumption, NoSlotIsNoSlot DEF RegInit
<1>1. RegTypeOK
  BY DEF RegTypeOK, RegCalls, RegSteps, RegPurges
<1>2. EverythingIsOfItsDocument
  BY DEF EverythingIsOfItsDocument
<1>3. RoomsAreBuilt
  BY DEF RoomsAreBuilt, OnlyBy
<1>4. SlotsAreMade
  <2>1. \A k \in RegSlot : ~SlotHeld(k)
    BY DEF SlotHeld
  <2>2. \A c \in RegCaller : <<c, "try_get">> \in RegSlot /\ <<c, "get">> \in RegSlot
    BY DEF RegSlot
  <2>. QED  BY <2>1, <2>2 DEF SlotsAreMade, Nowhere
<1>5. StepsAreSound
  BY DEF StepsAreSound, Locking
<1>6. LoadsShareASlot
  BY DEF LoadsShareASlot, SlotHeld
<1>7. WritableIsCached
  BY DEF WritableIsCached, Pinned
<1>8. PurgesAreSound
  BY DEF PurgesAreSound
<1>9. RegDirtyIsSwept
  BY DEF RegDirtyIsSwept
<1>. QED  BY <1>1, <1>2, <1>3, <1>4, <1>5, <1>6, <1>7, <1>8, <1>9 DEF RegInv
---------------------------------------------------------------------------
\* What a look into the registry's maps can return.
LEMMA ValuesAreTyped ==
  ASSUME RegTypeOK
  PROVE  /\ \A s \in RegSlug : /\ regRooms[s] \in RegCaller \cup {RegNone}
                              /\ regLoading[s] \in RegSlot \cup {NoSlot}
                              /\ regPurge[s].slot \in RegSlot \cup {NoSlot}
                              /\ regPurge[s].room \in RegCaller \cup {RegNone}
         /\ \A k \in RegSlot : regLoaded[k] \in RegCaller \cup {RegNone}
         /\ \A c \in RegCaller : /\ regCaller[c].room \in RegCaller \cup {RegNone}
                                /\ regCaller[c].slot \in RegSlot \cup {NoSlot}
                                /\ regCaller[c].pin \in RegSlot \cup {NoSlot}
BY DEF RegTypeOK, RegCalls, RegPurges

\* The document of a caller and of a slot changes only when the caller's does.
LEMMA SlugsKept ==
  ASSUME \A d \in RegCaller : regCaller'[d].slug = regCaller[d].slug
  PROVE  /\ \A d \in RegCaller : SlugOf(d)' = SlugOf(d)
         /\ \A k \in RegSlot : SlotSlug(k)' = SlotSlug(k)
BY DEF SlugOf, SlotSlug, RegSlot

\* A call that gives up what it has, or part of it.
Released(c) ==
  LET b == regCaller'[c]
  IN /\ regCaller[c].step \notin {"new", "left", "refused"}
     /\ regCaller' = [regCaller EXCEPT ![c] = b]
     /\ b \in RegCalls /\ b.slug = regCaller[c].slug
     /\ b.step \in {"have", "left", "refused"}
     /\ b.pin \in {NoSlot, regCaller[c].pin} /\ b.slot \in {NoSlot, regCaller[c].slot}
     /\ b.room \in {RegNone, regCaller[c].room} 
     /\ (b.step = "have" => regCaller[c].step = "check" /\ b.room # RegNone)
     /\ (b.step # "have" => b.room = RegNone)
     /\ UNCHANGED <<regDeleting, regRooms, regLoading, regLoaded, regRoom, regPurge>>

\* A caller that lets go of everything keeps the invariant.
LEMMA ReleaseKeeps ==
  ASSUME RegInv, NEW c \in RegCaller, Released(c)
  PROVE  RegInv'
<1> USE RegAssumption, NoSlotIsNoSlot
<1>1. /\ \A d \in RegCaller : d # c => regCaller'[d] = regCaller[d]
      /\ \A d \in RegCaller : regCaller'[d].slug = regCaller[d].slug
      /\ regCaller'[c].step \in {"have", "left", "refused"}
      /\ regCaller'[c].pin \in {NoSlot, regCaller[c].pin}
      /\ regCaller'[c].slot \in {NoSlot, regCaller[c].slot}
      /\ regCaller'[c].room \in {RegNone, regCaller[c].room}
      /\ regCaller'[c].step = "have" => regCaller[c].step = "check" /\ regCaller'[c].room # RegNone
      /\ regCaller'[c].step # "have" => regCaller'[c].room = RegNone
      /\ UNCHANGED <<regDeleting, regRooms, regLoading, regLoaded, regRoom, regPurge>>
      /\ regCaller[c].step \notin {"new", "left", "refused"}
  BY DEF RegInv, RegTypeOK, Released
<1>2. RegTypeOK'
  BY DEF RegInv, RegTypeOK, Released
<1>a. \A k \in RegSlot : SlotHeld(k)' => SlotHeld(k)
  BY <1>1 DEF SlotHeld
<1>b. \A r \in RegCaller : Pinned(r)' => Pinned(r)
  BY <1>1, <1>a DEF Pinned
<1>c. regCaller[c].step = "insert" => ~Pinned(c)'
  BY <1>1 DEF RegInv, RoomsAreBuilt, OnlyBy, Pinned
<1>3. EverythingIsOfItsDocument'
  BY <1>1, SlugsKept, ValuesAreTyped DEF RegInv, EverythingIsOfItsDocument
<1>4. RoomsAreBuilt'
  BY <1>1 DEF RegInv, RoomsAreBuilt, OnlyBy
<1>5. SlotsAreMade'
  BY <1>1, <1>a DEF RegInv, SlotsAreMade, Nowhere, RegSlot
<1>6. StepsAreSound'
  BY <1>1 DEF RegInv, StepsAreSound, Locking, SlugOf
<1>7. LoadsShareASlot'
  BY <1>1, <1>a DEF RegInv, LoadsShareASlot, SlotSlug, RegSlot
<1>8. WritableIsCached'
  BY <1>1, <1>b, <1>c DEF RegInv, WritableIsCached, SlugOf
<1>9. PurgesAreSound'
  <2>1. ASSUME NEW s \in RegSlug, NEW d \in RegCaller, (d \in Writable(s))'
        PROVE  d \in Writable(s) /\ (d = c => regCaller[d].step # "insert")
    BY <1>1, <1>b, <1>c, <2>1 DEF Writable, SlugOf, RegInv, RoomsAreBuilt, OnlyBy
  <2>2. \A s \in RegSlug : Writable(s)' \subseteq Writable(s) /\ Writable(s) \subseteq RegCaller
    BY <2>1 DEF Writable
  <2>. QED  BY <1>1, <2>1, <2>2 DEF RegInv, PurgesAreSound
<1>10. RegDirtyIsSwept'
  BY <1>1 DEF RegInv, RegDirtyIsSwept
<1>. QED  BY <1>2, <1>3, <1>4, <1>5, <1>6, <1>7, <1>8, <1>9, <1>10 DEF RegInv

\* A call that goes on to its next step, and changes nothing else of itself.
LEMMA GoesOn ==
  ASSUME RegTypeOK, NEW c \in RegCaller, NEW step \in RegSteps, RegGoes(c, step)
  PROVE  /\ regCaller' \in [RegCaller -> RegCalls]
         /\ \A d \in RegCaller : d # c => regCaller'[d] = regCaller[d]
         /\ \A d \in RegCaller : /\ regCaller'[d].slug = regCaller[d].slug
                                 /\ regCaller'[d].pin = regCaller[d].pin
                                 /\ regCaller'[d].slot = regCaller[d].slot
                                 /\ regCaller'[d].room = regCaller[d].room
                                 /\ regCaller'[d].strict = regCaller[d].strict
         /\ regCaller'[c].step = step
<1> DEFINE b == [regCaller[c] EXCEPT !.step = step]
<1>1. regCaller[c] \in RegCalls /\ regCaller \in [RegCaller -> RegCalls]
  BY DEF RegTypeOK
<1>2. b \in RegCalls /\ b.step = step
  BY <1>1 DEF RegCalls
<1>3. /\ b.slug = regCaller[c].slug /\ b.pin = regCaller[c].pin /\ b.slot = regCaller[c].slot
      /\ b.room = regCaller[c].room /\ b.strict = regCaller[c].strict
  BY <1>1 DEF RegCalls
<1>4. regCaller' = [regCaller EXCEPT ![c] = b]
  BY <1>1 DEF RegGoes
<1> HIDE DEF b
<1>. QED  BY <1>1, <1>2, <1>3, <1>4

\* The look whether the room's document is still cached keeps the invariant.
LEMMA CheckKeeps ==
  ASSUME RegInv, NEW c \in RegCaller, RegCheck(c)
  PROVE  RegInv'
<1>1. regCaller[c].room # RegNone /\ regCaller[c] \in RegCalls
  BY DEF RegInv, StepsAreSound, RegTypeOK, RegCheck, RegHolding
<1>2. Released(c)
  BY <1>1 DEF RegCheck, RegHolding, Released, RegCalls, RegSteps, RegInv, RegTypeOK
<1>. QED  BY <1>2, ReleaseKeeps

\* Leaving a room keeps the invariant.
LEMMA LeaveKeeps ==
  ASSUME RegInv, NEW c \in RegCaller, RegLeave(c)
  PROVE  RegInv'
<1>1. regCaller[c] \in RegCalls
  BY DEF RegInv, RegTypeOK
<1>2. Released(c)
  BY <1>1 DEF RegLeave, Released, RegCalls, RegSteps, RegInv, RegTypeOK
<1>. QED  BY <1>2, ReleaseKeeps

\* A call that gets a room that stands for its document, or that the slot it
\* waited for holds.
Gotten(c, r) ==
  /\ regCaller[c].step \in {"admit", "reserve", "lock"} /\ r \in RegCaller
  /\ \/ regRooms[SlugOf(c)] = r
     \/ regCaller[c].slot \in RegSlot /\ regLoaded[regCaller[c].slot] = r
  /\ RegGets(c, r)
  /\ UNCHANGED <<regDeleting, regRooms, regLoading, regLoaded, regRoom, regPurge>>

\* A caller that is handed a room of its document keeps the invariant.
LEMMA GotKeeps ==
  ASSUME RegInv, NEW c \in RegCaller, NEW r \in RegCaller, Gotten(c, r)
  PROVE  RegInv'
<1> USE RegAssumption, NoSlotIsNoSlot
<1>1. /\ \A d \in RegCaller : d # c => regCaller'[d] = regCaller[d]
      /\ \A d \in RegCaller : regCaller'[d].slug = regCaller[d].slug
      /\ regCaller'[c].step \in {"have", "check"}
      /\ regCaller'[c].pin = regCaller[c].pin
      /\ regCaller'[c].slot = NoSlot
      /\ regCaller'[c].room = r
      /\ UNCHANGED <<regDeleting, regRooms, regLoading, regLoaded, regRoom, regPurge>>
      /\ regCaller[c].step \in {"admit", "reserve", "lock"}
  BY DEF RegInv, RegTypeOK, RegCalls, Gotten, RegGets
<1>2. RegTypeOK'
  <2>1. regCaller[c] \in RegCalls
    BY DEF RegInv, RegTypeOK
  <2> DEFINE b == [regCaller[c] EXCEPT !.step = IF regCaller[c].pin = NoSlot THEN "have" ELSE "check",
                                       !.room = r, !.slot = NoSlot]
  <2>2. b \in RegCalls
    BY <2>1 DEF RegCalls, RegSteps
  <2>3. regCaller' = [regCaller EXCEPT ![c] = b]
    BY DEF RegInv, RegTypeOK, Gotten, RegGets
  <2>. QED  BY <1>1, <2>2, <2>3 DEF RegInv, RegTypeOK
<1>s. SlugOf(c) \in RegSlug
  BY <1>1 DEF RegInv, EverythingIsOfItsDocument
<1>a. \A k \in RegSlot : SlotHeld(k)' => SlotHeld(k)
  BY <1>1 DEF SlotHeld
<1>b. (Pinned(r) \/ regRooms[SlugOf(c)] = r) /\ SlugOf(r) = SlugOf(c)
  <2>1. CASE regRooms[SlugOf(c)] = r
    BY <2>1, <1>s DEF RegInv, EverythingIsOfItsDocument
  <2>2. CASE regCaller[c].slot \in RegSlot /\ regLoaded[regCaller[c].slot] = r
    BY <2>2, <1>s DEF RegInv, EverythingIsOfItsDocument, Pinned, SlotHeld
  <2>. QED  BY <2>1, <2>2 DEF Gotten
<1>c. \A d \in RegCaller : Pinned(d)' => Pinned(d) \/ d = r
  BY <1>1, <1>a DEF Pinned
<1>d. regCaller[r].step \notin {"new", "admit", "reserve", "lock", "load", "insert"}
  BY <1>s DEF RegInv, RoomsAreBuilt, OnlyBy, Gotten
<1>3. EverythingIsOfItsDocument'
  BY <1>1, <1>b, SlugsKept, ValuesAreTyped DEF RegInv, EverythingIsOfItsDocument
<1>4. RoomsAreBuilt'
  BY <1>1, <1>d DEF RegInv, RoomsAreBuilt, OnlyBy
<1>5. SlotsAreMade'
  BY <1>1, <1>a DEF RegInv, SlotsAreMade, Nowhere, RegSlot
<1>6. StepsAreSound'
  BY <1>1 DEF RegInv, StepsAreSound, Locking, SlugOf
<1>7. LoadsShareASlot'
  BY <1>1, <1>a DEF RegInv, LoadsShareASlot, SlotSlug, RegSlot
<1>8. WritableIsCached'
  BY <1>1, <1>b, <1>c DEF RegInv, WritableIsCached, SlugOf
<1>9. PurgesAreSound'
  <2>1. ASSUME NEW s \in RegSlug, NEW d \in RegCaller, (d \in Writable(s))'
        PROVE  d \in Writable(s) /\ d # c
    BY <1>1, <1>b, <1>c, <2>1 DEF Writable, SlugOf, RegInv, RoomsAreBuilt, OnlyBy, Pinned
  <2>2. \A s \in RegSlug : Writable(s)' \subseteq Writable(s) /\ Writable(s) \subseteq RegCaller
    BY <2>1 DEF Writable
  <2>. QED  BY <1>1, <2>1, <2>2 DEF RegInv, PurgesAreSound
<1>10. RegDirtyIsSwept'
  BY <1>1 DEF RegInv, RegDirtyIsSwept
<1>. QED  BY <1>2, <1>3, <1>4, <1>5, <1>6, <1>7, <1>8, <1>9, <1>10 DEF RegInv

\* Entering a loading slot, with its room or to build one, keeps the invariant.
LEMMA LockKeeps ==
  ASSUME RegInv, NEW c \in RegCaller, RegLock(c)
  PROVE  RegInv'
<1> USE RegAssumption, NoSlotIsNoSlot
<1> DEFINE k == regCaller[c].slot
<1>1. k \in RegSlot /\ regCaller[c].step = "lock"
  BY ValuesAreTyped DEF RegLock, RegHolding, RegInv, StepsAreSound
<1>2. CASE regLoaded[k] # RegNone
  <2>1. regLoaded[k] \in RegCaller
    BY <1>1, <1>2, ValuesAreTyped DEF RegInv
  <2>2. Gotten(c, regLoaded[k])
    BY <1>1, <1>2, <2>1 DEF Gotten, RegLock
  <2>. QED  BY <2>1, <2>2, GotKeeps
<1>3. CASE regLoaded[k] = RegNone
  <2>1. /\ \A d \in RegCaller : d # c => regCaller'[d] = regCaller[d]
        /\ \A d \in RegCaller : /\ regCaller'[d].slug = regCaller[d].slug
                                /\ regCaller'[d].pin = regCaller[d].pin
                                /\ regCaller'[d].slot = regCaller[d].slot
                                /\ regCaller'[d].room = regCaller[d].room
        /\ regCaller'[c].step = "load"
        /\ UNCHANGED <<regDeleting, regRooms, regLoading, regLoaded, regRoom, regPurge>>
        /\ \A d \in RegCaller : Locking(d) => regCaller[d].slot # k
    <3>1. RegGoes(c, "load") /\ "load" \in RegSteps
      BY <1>3 DEF RegLock, RegSteps
    <3>3. \A d \in RegCaller : Locking(d) => regCaller[d].slot # k
      BY DEF RegLock, SlotLocked, Locking
    <3>2. UNCHANGED <<regDeleting, regRooms, regLoading, regLoaded, regRoom, regPurge>>
      BY DEF RegLock
    <3>. QED  BY <3>1, <3>2, <3>3, GoesOn DEF RegInv
  <2>2. RegTypeOK'
    BY <1>3, GoesOn DEF RegInv, RegTypeOK, RegLock, RegSteps
  <2>a. \A j \in RegSlot : SlotHeld(j)' = SlotHeld(j)
    BY <2>1 DEF SlotHeld
  <2>b. \A d \in RegCaller : Pinned(d)' = Pinned(d)
    BY <2>1, <2>a DEF Pinned
  <2>3. EverythingIsOfItsDocument'
    BY <1>1, <2>1, SlugsKept, ValuesAreTyped DEF RegInv, EverythingIsOfItsDocument
  <2>4. RoomsAreBuilt'
    BY <1>1, <2>1 DEF RegInv, RoomsAreBuilt, OnlyBy
  <2>5. SlotsAreMade'
    BY <1>1, <2>1, <2>a DEF RegInv, SlotsAreMade, Nowhere, RegSlot
  <2>6. StepsAreSound'
    BY <1>1, <1>3, <2>1 DEF RegInv, StepsAreSound, Locking, SlugOf
  <2>7. LoadsShareASlot'
    BY <2>1, <2>a DEF RegInv, LoadsShareASlot, SlotSlug, RegSlot
  <2>8. WritableIsCached'
    BY <1>1, <2>1, <2>b DEF RegInv, WritableIsCached, SlugOf
  <2>9. PurgesAreSound'
    <3>1. \A s \in RegSlug : Writable(s)' = Writable(s) /\ Writable(s) \subseteq RegCaller
      BY <2>1, <2>b DEF Writable, SlugOf
    <3>. QED  BY <1>1, <2>1, <3>1 DEF RegInv, PurgesAreSound
  <2>10. RegDirtyIsSwept'
    BY <2>1 DEF RegInv, RegDirtyIsSwept
  <2>. QED  BY <2>2, <2>3, <2>4, <2>5, <2>6, <2>7, <2>8, <2>9, <2>10 DEF RegInv
<1>. QED  BY <1>2, <1>3
---------------------------------------------------------------------------
\* Whoever has a room or a slot has asked for a document.
LEMMA HeldSlots ==
  ASSUME RegInv, NEW k \in RegSlot, SlotHeld(k)
  PROVE  SlotSlug(k) \in RegSlug
<1>1. k[1] \in RegCaller /\ (k = <<k[1], "try_get">> \/ k = <<k[1], "get">>)
  BY DEF RegSlot
<1>2. regCaller[k[1]].step # "new"
  BY <1>1 DEF RegInv, SlotsAreMade, Nowhere
<1>. QED  BY <1>1, <1>2 DEF RegInv, EverythingIsOfItsDocument, SlotSlug, SlugOf

\* A pinned room is a room of some document.
LEMMA PinnedRooms ==
  ASSUME RegInv, NEW r \in RegCaller, Pinned(r)
  PROVE  SlugOf(r) \in RegSlug
<1>1. regCaller[r].step # "new"
  BY DEF RegInv, RoomsAreBuilt, OnlyBy, Pinned
<1>. QED  BY <1>1 DEF RegInv, EverythingIsOfItsDocument

\* Slots that are kept are those somebody waits for.
LEMMA RetainedSlots ==
  ASSUME RegTypeOK, NEW s \in RegSlug
  PROVE  /\ Retained[s] \in {regLoading[s], NoSlot} /\ Retained[s] \in RegSlot \cup {NoSlot}
         /\ Retained[s] # NoSlot => SlotHeld(Retained[s])
         /\ SlotHeld(regLoading[s]) => Retained[s] = regLoading[s]
BY ValuesAreTyped DEF Retained

\* Rooms go that nobody has and that have nothing to write.
Evicted(gone) == gone \subseteq {s \in RegSlug : RegIdle(s)} /\ regRooms' = Without(gone)

\* Eviction takes idle rooms out of the registry: neither a pinned nor a dirty one.
LEMMA EvictedRooms ==
  ASSUME RegTypeOK, NEW gone, Evicted(gone), NEW s \in RegSlug
  PROVE  /\ regRooms'[s] \in {regRooms[s], RegNone}
         /\ regRooms[s] # RegNone /\ (Pinned(regRooms[s]) \/ regRoom[regRooms[s]].dirty)
              => regRooms'[s] = regRooms[s]
         /\ regRooms' \in [RegSlug -> RegCaller \cup {RegNone}]
BY DEF Evicted, Without, RegIdle, RegTypeOK

\* Rooms go, and a call takes part in nothing new.
Cleared(c, gone) ==
  /\ Evicted(gone)
  /\ \/ UNCHANGED <<regCaller, regLoading>>
     \/ regCaller[c].step = "admit" /\ RegGoes(c, "refused") /\ regLoading' = Retained /\ GateFree
  /\ UNCHANGED <<regDeleting, regLoaded, regRoom, regPurge>>

\* A caller that evicts and goes on keeps the invariant.
LEMMA ClearKeeps ==
  ASSUME RegInv, NEW c \in RegCaller, NEW gone, Cleared(c, gone)
  PROVE  RegInv'
<1> USE RegAssumption, NoSlotIsNoSlot
<1>t. RegTypeOK /\ "refused" \in RegSteps
  BY DEF RegInv, RegSteps
<1>1. /\ \A d \in RegCaller : d # c => regCaller'[d] = regCaller[d]
      /\ \A d \in RegCaller : /\ regCaller'[d].slug = regCaller[d].slug
                              /\ regCaller'[d].pin = regCaller[d].pin
                              /\ regCaller'[d].slot = regCaller[d].slot
                              /\ regCaller'[d].room = regCaller[d].room
      /\ \/ regCaller'[c].step = regCaller[c].step
         \/ regCaller'[c].step = "refused" /\ regCaller[c].step = "admit"
      /\ regCaller' \in [RegCaller -> RegCalls]
  BY <1>t, GoesOn DEF Cleared, RegTypeOK
<1>2. UNCHANGED <<regDeleting, regLoaded, regRoom, regPurge>>
  BY DEF Cleared
<1>3. \A s \in RegSlug : /\ regRooms'[s] \in {regRooms[s], RegNone}
                         /\ regRooms[s] # RegNone /\ (Pinned(regRooms[s]) \/ regRoom[regRooms[s]].dirty)
                              => regRooms'[s] = regRooms[s]
  BY <1>t, EvictedRooms DEF Cleared
<1>4. \A s \in RegSlug : /\ regLoading'[s] \in {regLoading[s], NoSlot}
                         /\ SlotHeld(regLoading[s]) => regLoading'[s] = regLoading[s]
  BY <1>t, RetainedSlots DEF Cleared
<1>5. regLoading' \in [RegSlug -> RegSlot \cup {NoSlot}]
  BY <1>t, RetainedSlots DEF Cleared, Retained, RegTypeOK
<1>a. \A k \in RegSlot : SlotHeld(k)' = SlotHeld(k)
  BY <1>1, <1>2 DEF SlotHeld
<1>b. \A r \in RegCaller : Pinned(r)' => Pinned(r)
  BY <1>1, <1>2, <1>4, <1>a DEF Pinned
<1>6. RegTypeOK'
  <2>1. regRooms' \in [RegSlug -> RegCaller \cup {RegNone}]
    BY <1>t DEF Cleared, Evicted, Without, RegTypeOK
  <2>. QED  BY <2>1, <1>1, <1>2, <1>5 DEF RegInv, RegTypeOK
<1>7. EverythingIsOfItsDocument'
  BY <1>1, <1>2, <1>3, <1>4, SlugsKept, ValuesAreTyped DEF RegInv, EverythingIsOfItsDocument
<1>8. RoomsAreBuilt'
  BY <1>1, <1>2, <1>3 DEF RegInv, RoomsAreBuilt, OnlyBy
<1>9. SlotsAreMade'
  <2>1. \A d \in RegCaller : <<d, "try_get">> \in RegSlot /\ <<d, "get">> \in RegSlot
    BY DEF RegSlot
  <2>2. \A k \in RegSlot : Nowhere(k) => Nowhere(k)'
    BY <1>2, <1>4, <1>a DEF Nowhere
  <2>. QED  BY <1>1, <2>1, <2>2 DEF RegInv, SlotsAreMade
<1>10. StepsAreSound'
  BY <1>1, <1>2, <1>4 DEF RegInv, StepsAreSound, Locking, SlugOf, SlotHeld, EverythingIsOfItsDocument
<1>11. LoadsShareASlot'
  <2>1. \A k \in RegSlot : SlotSlug(k)' = SlotSlug(k)
    BY <1>1, SlugsKept
  <2>2. \A s \in RegSlug : regLoading'[s] # NoSlot => regLoading'[s] = regLoading[s]
    BY <1>4
  <2>. QED  BY <1>2, <1>3, <1>4, <1>a, <2>1, <2>2, HeldSlots DEF RegInv, LoadsShareASlot
<1>12. WritableIsCached'
  BY <1>1, <1>2, <1>3, <1>b, <1>t, ValuesAreTyped, PinnedRooms DEF RegInv, WritableIsCached, SlugOf
<1>13. PurgesAreSound'
  <2>1. \A s \in RegSlug : Writable(s)' \subseteq Writable(s) /\ Writable(s) \subseteq RegCaller
    BY <1>1, <1>2, <1>3, <1>b DEF Writable, SlugOf
  <2>. QED  BY <1>1, <1>2, <2>1 DEF RegInv, PurgesAreSound
<1>14. RegDirtyIsSwept'
  BY <1>1, <1>2, <1>3 DEF RegInv, RegDirtyIsSwept
<1>. QED
  BY <1>6, <1>7, <1>8, <1>9, <1>10, <1>11, <1>12, <1>13, <1>14 DEF RegInv

\* The trimming of the registry keeps the invariant.
LEMMA TrimKeeps ==
  ASSUME RegInv, NEW s \in RegSlug, RegTrim(s), NEW c \in RegCaller
  PROVE  RegInv'
<1>1. Cleared(c, {s})
  BY DEF RegTrim, Cleared, Evicted
<1>. QED  BY <1>1, ClearKeeps

\* A call takes the slot of its document, making it if there is none.
Claims(c, gone, kind, slot, b) ==
  /\ kind \in {"try_get", "get"} /\ GateFree /\ Evicted(gone)
  /\ regRooms[SlugOf(c)] = RegNone
  /\ regCaller[c].step = IF kind = "get" THEN "reserve" ELSE "admit"
  /\ slot = IF Retained[SlugOf(c)] # NoSlot THEN Retained[SlugOf(c)] ELSE <<c, kind>>
  /\ regLoading' = [Retained EXCEPT ![SlugOf(c)] = slot]
  /\ regCaller' = [regCaller EXCEPT ![c] = b] /\ b \in RegCalls
  /\ b.slug = regCaller[c].slug /\ b.room = regCaller[c].room
  /\ IF kind = "get" THEN b.step = "lock" /\ b.slot = slot /\ b.pin = regCaller[c].pin
                     ELSE b.step = "reserve" /\ b.pin = slot /\ b.slot = regCaller[c].slot
  /\ UNCHANGED <<regDeleting, regLoaded, regRoom, regPurge>>

\* Claiming the loading of a document keeps the invariant.
LEMMA ClaimKeeps ==
  ASSUME RegInv, NEW c \in RegCaller, NEW gone, NEW kind, NEW slot, NEW b,
         Claims(c, gone, kind, slot, b)
  PROVE  RegInv'
<1> USE RegAssumption, NoSlotIsNoSlot
<1> DEFINE s == SlugOf(c)
<1>t. RegTypeOK
  BY DEF RegInv
<1>s. s \in RegSlug /\ regRooms[s] = RegNone
  BY DEF RegInv, EverythingIsOfItsDocument, Claims
<1>1. /\ \A d \in RegCaller : d # c => regCaller'[d] = regCaller[d]
      /\ \A d \in RegCaller : /\ regCaller'[d].slug = regCaller[d].slug
                              /\ regCaller'[d].room = regCaller[d].room
      /\ regCaller'[c].pin \in {slot, regCaller[c].pin}
      /\ regCaller'[c].slot \in {slot, regCaller[c].slot}
      /\ \/ regCaller[c].step = "admit" /\ regCaller'[c].step = "reserve" /\ kind = "try_get"
         \/ regCaller[c].step = "reserve" /\ regCaller'[c].step = "lock" /\ kind = "get"
              /\ regCaller'[c].slot = slot
      /\ regCaller' \in [RegCaller -> RegCalls]
  BY <1>t DEF Claims, RegTypeOK
<1>2. /\ UNCHANGED <<regDeleting, regLoaded, regRoom, regPurge>>
      /\ \A d \in RegCaller : regCaller[d].step # "publish"
  BY DEF Claims, GateFree, RegHolding
<1>3. \A t \in RegSlug : /\ regRooms'[t] \in {regRooms[t], RegNone}
                         /\ regRooms[t] # RegNone /\ (Pinned(regRooms[t]) \/ regRoom[regRooms[t]].dirty)
                              => regRooms'[t] = regRooms[t]
  BY <1>t, EvictedRooms DEF Claims
<1>4. /\ \A t \in RegSlug \ {s} : /\ regLoading'[t] \in {regLoading[t], NoSlot}
                                  /\ SlotHeld(regLoading[t]) => regLoading'[t] = regLoading[t]
      /\ regLoading'[s] = slot
  <2>1. regLoading' = [Retained EXCEPT ![s] = slot]
    BY DEF Claims
  <2>2. Retained = [t \in RegSlug |-> Retained[t]]
    BY DEF Retained
  <2>3. regLoading'[s] = slot /\ \A t \in RegSlug \ {s} : regLoading'[t] = Retained[t]
    BY <1>s, <2>1, <2>2
  <2>. QED  BY <1>t, <2>3, RetainedSlots
<1>5. /\ slot \in RegSlot /\ SlotSlug(slot) = s
      /\ SlotHeld(regLoading[s]) /\ regLoading[s] # NoSlot => slot = regLoading[s]
      /\ \/ slot = regLoading[s] /\ SlotHeld(slot)
         \/ slot = <<c, kind>> /\ Nowhere(slot)
  <2>1. CASE Retained[s] # NoSlot
    <3>1. slot = Retained[s] /\ slot = regLoading[s] /\ slot \in RegSlot /\ SlotHeld(slot)
      BY <1>s, <1>t, <2>1, RetainedSlots DEF Claims
    <3>. QED  BY <1>s, <2>1, <3>1 DEF RegInv, EverythingIsOfItsDocument
  <2>2. CASE Retained[s] = NoSlot
    <3>1. slot = <<c, kind>> /\ slot \in RegSlot /\ SlotSlug(slot) = s
      BY <2>2 DEF Claims, RegSlot, SlotSlug, SlugOf
    <3>2. Nowhere(slot)
      BY <1>1, <3>1 DEF RegInv, SlotsAreMade
    <3>3. SlotHeld(regLoading[s]) => regLoading[s] = NoSlot
      BY <1>s, <1>t, <2>2, RetainedSlots
    <3>. QED  BY <3>1, <3>2, <3>3
  <2>. QED  BY <2>1, <2>2
<1> HIDE DEF s
<1>6. \A t \in RegSlug : regLoading'[t] \in RegSlot \cup {NoSlot}
  BY <1>t, <1>4, <1>5, ValuesAreTyped
<1>a. \A k \in RegSlot : SlotHeld(k)' => SlotHeld(k) \/ k = slot
  BY <1>1, <1>2 DEF SlotHeld
<1>b. \A r \in RegCaller : Pinned(r)' => Pinned(r)
  <2>1. regLoaded[slot] = RegNone \/ (SlotHeld(slot) /\ slot \in RegSlot)
    BY <1>5 DEF Nowhere
  <2>. QED  BY <1>1, <1>2, <1>4, <1>a, <2>1 DEF Pinned
<1>7. RegTypeOK'
  <2>1. regRooms' \in [RegSlug -> RegCaller \cup {RegNone}]
    BY <1>t DEF Claims, Evicted, Without, RegTypeOK
  <2>2. regLoading' \in [RegSlug -> RegSlot \cup {NoSlot}]
    BY <1>6 DEF Claims, Retained
  <2>. QED  BY <2>1, <2>2, <1>1, <1>2 DEF RegInv, RegTypeOK
<1>k. /\ \A d \in RegCaller : SlugOf(d)' = SlugOf(d)
      /\ \A k \in RegSlot : SlotSlug(k)' = SlotSlug(k)
  BY <1>1, SlugsKept
<1>8. EverythingIsOfItsDocument'
  <2>1. \A t \in RegSlug : regLoading'[t] # NoSlot => SlotSlug(regLoading'[t]) = t
    BY <1>4, <1>5, <1>6, <1>k, <1>t, ValuesAreTyped DEF RegInv, EverythingIsOfItsDocument
  <2>2. \A d \in RegCaller : /\ regCaller'[d].pin # NoSlot => SlotSlug(regCaller'[d].pin) = SlugOf(d)
                             /\ regCaller'[d].slot # NoSlot => SlotSlug(regCaller'[d].slot) = SlugOf(d)
    BY <1>1, <1>5, <1>t, ValuesAreTyped DEF RegInv, EverythingIsOfItsDocument, s
  <2>3. /\ \A d \in RegCaller : /\ regCaller'[d].pin \in RegSlot \cup {NoSlot}
                                /\ regCaller'[d].slot \in RegSlot \cup {NoSlot}
                                /\ regCaller'[d].room \in RegCaller \cup {RegNone}
                                /\ regCaller'[d].step # "new" => SlugOf(d) \in RegSlug
    BY <1>1, <1>5, <1>t, ValuesAreTyped DEF RegInv, EverythingIsOfItsDocument
  <2>4. \A t \in RegSlug : regRooms'[t] # RegNone => SlugOf(regRooms'[t]) = t /\ regRooms'[t] \in RegCaller
    BY <1>3, <1>t, ValuesAreTyped DEF RegInv, EverythingIsOfItsDocument
  <2>. QED
    BY <1>1, <1>2, <1>6, <1>k, <1>t, <2>1, <2>2, <2>3, <2>4, ValuesAreTyped DEF RegInv, EverythingIsOfItsDocument
<1>9. RoomsAreBuilt'
  BY <1>1, <1>2, <1>3 DEF RegInv, RoomsAreBuilt, OnlyBy
<1>10. SlotsAreMade'
  <2>1. \A d \in RegCaller : <<d, "try_get">> \in RegSlot /\ <<d, "get">> \in RegSlot
    BY DEF RegSlot
  <2>2. \A k \in RegSlot : Nowhere(k) /\ k # slot => Nowhere(k)'
    BY <1>2, <1>4, <1>5, <1>a DEF Nowhere
  <2>3. \A d \in RegCaller :
          /\ slot = <<d, "try_get">> => regCaller'[d].step \notin {"new", "admit"}
          /\ slot = <<d, "get">> => regCaller'[d].step \notin {"new", "admit", "reserve"}
    <3>1. CASE SlotHeld(slot)
      BY <1>1, <3>1 DEF RegInv, SlotsAreMade, Nowhere
    <3>2. CASE slot = <<c, kind>>
      <4>1. /\ kind = "try_get" => regCaller'[c].step = "reserve"
            /\ kind = "get" => regCaller'[c].step = "lock"
        BY <1>1
      <4>2. TAKE d \in RegCaller
      <4>3. CASE slot = <<d, "try_get">>
        <5>1. d = c /\ kind = "try_get"
          BY <3>2, <4>3
        <5>. QED  BY <4>1, <4>3, <5>1
      <4>4. CASE slot = <<d, "get">>
        <5>1. d = c /\ kind = "get"
          BY <3>2, <4>4
        <5>. QED  BY <4>1, <4>4, <5>1
      <4>. QED  BY <4>3, <4>4
    <3>. QED  BY <1>5, <3>1, <3>2
  <2>. QED  BY <1>1, <2>1, <2>2, <2>3 DEF RegInv, SlotsAreMade
<1>11. StepsAreSound'
  BY <1>1, <1>2, <1>5 DEF RegInv, StepsAreSound, Locking
<1>12. LoadsShareASlot'
  <2>2. \A k \in RegSlot : SlotHeld(k) /\ regLoaded[k] = RegNone => regLoading'[SlotSlug(k)] = k
    BY <1>4, <1>5, HeldSlots DEF RegInv, LoadsShareASlot
  <2>3. \A t \in RegSlug : regLoading'[t] # NoSlot /\ regLoaded[regLoading'[t]] = RegNone => regRooms'[t] = RegNone
    BY <1>3, <1>4, <1>s DEF RegInv, LoadsShareASlot
  <2>. QED  BY <1>2, <1>4, <1>5, <1>a, <1>k, <2>2, <2>3 DEF LoadsShareASlot
<1>13. WritableIsCached'
  BY <1>1, <1>2, <1>3, <1>b, <1>t, ValuesAreTyped, PinnedRooms DEF RegInv, WritableIsCached, SlugOf
<1>14. PurgesAreSound'
  <2>1. \A t \in RegSlug : Writable(t)' \subseteq Writable(t) /\ Writable(t) \subseteq RegCaller
    BY <1>1, <1>2, <1>3, <1>b DEF Writable, SlugOf
  <2>. QED  BY <1>1, <1>2, <2>1 DEF RegInv, PurgesAreSound
<1>15. RegDirtyIsSwept'
  BY <1>1, <1>2, <1>3 DEF RegInv, RegDirtyIsSwept
<1>. QED
  BY <1>7, <1>8, <1>9, <1>10, <1>11, <1>12, <1>13, <1>14, <1>15 DEF RegInv

\* Admission to the registry, with what it evicts, keeps the invariant.
LEMMA AdmitKeeps ==
  ASSUME RegInv, NEW c \in RegCaller, RegAdmit(c)
  PROVE  RegInv'
<1> USE RegAssumption, NoSlotIsNoSlot
<1> DEFINE s == regCaller[c].slug
<1>1. /\ regCaller[c].step = "admit" /\ GateFree /\ s = SlugOf(c) /\ s \in RegSlug
      /\ UNCHANGED <<regDeleting, regLoaded, regRoom, regPurge>>
  BY DEF RegAdmit, RegHolding, SlugOf, RegInv, EverythingIsOfItsDocument
<1>2. CASE regRooms[s] # RegNone
  <2>1. PICK r \in RegCaller : r = regRooms[s]
    BY <1>1, <1>2, ValuesAreTyped DEF RegInv
  <2>2. Gotten(c, r)
    BY <1>1, <1>2, <2>1 DEF Gotten, RegAdmit
  <2>. QED  BY <2>1, <2>2, GotKeeps
<1>3. CASE regRooms[s] = RegNone
  <2> DEFINE loads == Cardinality({t \in RegSlug : Retained[t] # NoSlot})
             full(rooms) == Cardinality(rooms) + loads >= RegMax
  <2>1. PICK gone \in IF Retained[s] = NoSlot /\ full(Resident)
                      THEN Evictions(RegMax - Min({loads, RegMax})) ELSE {{}} :
               /\ regRooms' = Without(gone)
               /\ IF Retained[s] = NoSlot /\ full(Resident \ gone)
                  THEN RegGoes(c, "refused") /\ regLoading' = Retained
                  ELSE LET slot == IF Retained[s] # NoSlot THEN Retained[s] ELSE <<c, "try_get">>
                       IN /\ regLoading' = [Retained EXCEPT ![s] = slot]
                          /\ regCaller' = [regCaller EXCEPT ![c].step = "reserve", ![c].pin = slot]
    BY <1>3 DEF RegAdmit
  <2>2. Evicted(gone)
    BY <2>1 DEF Evictions, Evicted
  <2> HIDE DEF loads, full
  <2>3. CASE Retained[s] = NoSlot /\ full(Resident \ gone)
    <3>1. Cleared(c, gone)
      BY <1>1, <2>1, <2>2, <2>3 DEF Cleared
    <3>. QED  BY <3>1, ClearKeeps
  <2>4. CASE ~(Retained[s] = NoSlot /\ full(Resident \ gone))
    <3>1. PICK slot : slot = IF Retained[s] # NoSlot THEN Retained[s] ELSE <<c, "try_get">>
      OBVIOUS
    <3>2. PICK b : b = [regCaller[c] EXCEPT !.step = "reserve", !.pin = slot]
      OBVIOUS
    <3>3. regLoading' = [Retained EXCEPT ![s] = slot] /\ regCaller' = [regCaller EXCEPT ![c] = b]
      <4>1. regCaller' = [regCaller EXCEPT ![c].step = "reserve", ![c].pin = slot]
        BY <2>1, <2>4, <3>1
      <4>. QED  BY <2>1, <2>4, <3>1, <3>2, <4>1 DEF RegInv, RegTypeOK
    <3>4. slot \in RegSlot
      BY <1>1, <3>1, RetainedSlots DEF RegSlot, RegInv
    <3>5. regCaller[c] \in RegCalls
      BY DEF RegInv, RegTypeOK
    <3>6. b \in RegCalls /\ b.step = "reserve" /\ b.pin = slot
      BY <3>2, <3>4, <3>5 DEF RegCalls, RegSteps
    <3>7. b.slug = regCaller[c].slug /\ b.room = regCaller[c].room /\ b.slot = regCaller[c].slot
      BY <3>2, <3>5 DEF RegCalls
    <3>8. Claims(c, gone, "try_get", slot, b)
      BY <1>1, <1>3, <2>2, <3>1, <3>3, <3>6, <3>7 DEF Claims
    <3>. QED  BY <3>8, ClaimKeeps
  <2>. QED  BY <2>3, <2>4
<1>. QED  BY <1>2, <1>3

\* Finding a room, joining its loading or claiming it keeps the invariant.
LEMMA ReserveKeeps ==
  ASSUME RegInv, NEW c \in RegCaller, RegReserve(c)
  PROVE  RegInv'
<1> USE RegAssumption, NoSlotIsNoSlot
<1> DEFINE s == regCaller[c].slug
<1>1. /\ regCaller[c].step = "reserve" /\ GateFree /\ s = SlugOf(c) /\ s \in RegSlug
      /\ UNCHANGED <<regDeleting, regRooms, regLoaded, regRoom, regPurge>>
  BY DEF RegReserve, RegHolding, SlugOf, RegInv, EverythingIsOfItsDocument
<1>2. CASE regRooms[s] # RegNone
  <2>1. PICK r \in RegCaller : r = regRooms[s]
    BY <1>1, <1>2, ValuesAreTyped DEF RegInv
  <2>2. Gotten(c, r)
    BY <1>1, <1>2, <2>1 DEF Gotten, RegReserve
  <2>. QED  BY <2>1, <2>2, GotKeeps
<1>3. CASE regRooms[s] = RegNone
  <2>1. PICK slot : slot = IF Retained[s] # NoSlot THEN Retained[s] ELSE <<c, "get">>
    OBVIOUS
  <2>2. PICK b : b = [regCaller[c] EXCEPT !.step = "lock", !.slot = slot]
    OBVIOUS
  <2>3. regLoading' = [Retained EXCEPT ![s] = slot] /\ regCaller' = [regCaller EXCEPT ![c] = b]
    <3>1. /\ regCaller' = [regCaller EXCEPT ![c].step = "lock", ![c].slot = slot]
          /\ regLoading' = [Retained EXCEPT ![s] = slot]
      BY <1>3, <2>1 DEF RegReserve
    <3>. QED  BY <2>2, <3>1 DEF RegInv, RegTypeOK
  <2>4. slot \in RegSlot
    BY <1>1, <2>1, RetainedSlots DEF RegSlot, RegInv
  <2>5. regCaller[c] \in RegCalls
    BY DEF RegInv, RegTypeOK
  <2>6. b \in RegCalls /\ b.step = "lock" /\ b.slot = slot
    BY <2>2, <2>4, <2>5 DEF RegCalls, RegSteps
  <2>7. b.slug = regCaller[c].slug /\ b.room = regCaller[c].room /\ b.pin = regCaller[c].pin
    BY <2>2, <2>5 DEF RegCalls
  <2>8. Evicted({})
    <3>1. regRooms = [t \in RegSlug |-> regRooms[t]]
      BY DEF RegInv, RegTypeOK
    <3>. QED  BY <1>1, <3>1 DEF Evicted, Without
  <2>9. Claims(c, {}, "get", slot, b)
    BY <1>1, <1>3, <2>1, <2>3, <2>6, <2>7, <2>8 DEF Claims
  <2>. QED  BY <2>9, ClaimKeeps
<1>. QED  BY <1>2, <1>3
---------------------------------------------------------------------------
\* A call begins: what others have is not of it, so its document may be set.
LEMMA OpenKeeps ==
  ASSUME RegInv, NEW c \in RegCaller, NEW s \in RegSlug, NEW strict \in BOOLEAN,
         RegOpen(c, s, strict)
  PROVE  RegInv'
<1> USE RegAssumption, NoSlotIsNoSlot
<1>t. RegTypeOK
  BY DEF RegInv
<1>1. /\ regCaller' = [regCaller EXCEPT ![c] = regCaller'[c]] /\ regCaller'[c] \in RegCalls
      /\ regCaller'[c].slug = s
      /\ regCaller'[c].pin = regCaller[c].pin /\ regCaller'[c].slot = regCaller[c].slot
      /\ \/ regRooms[s] # RegNone /\ regCaller'[c].step = "have" /\ regCaller'[c].room = regRooms[s]
         \/ regCaller'[c].step \in {"admit", "reserve"} /\ regCaller'[c].room = regCaller[c].room
  <2>1. regCaller[c] \in RegCalls
    BY <1>t DEF RegTypeOK
  <2>2. CASE regRooms[s] # RegNone
    <3> DEFINE b == [regCaller[c] EXCEPT !.step = "have", !.slug = s, !.strict = strict, !.room = regRooms[s]]
    <3>1. b \in RegCalls
      BY <1>t, <2>1, ValuesAreTyped DEF RegCalls, RegSteps
    <3>2. /\ b.step = "have" /\ b.slug = s /\ b.room = regRooms[s]
          /\ b.pin = regCaller[c].pin /\ b.slot = regCaller[c].slot
      BY <2>1 DEF RegCalls
    <3>3. regCaller' = [regCaller EXCEPT ![c] = b]
      BY <2>2 DEF RegOpen
    <3> HIDE DEF b
    <3>. QED  BY <1>t, <2>2, <3>1, <3>2, <3>3 DEF RegTypeOK
  <2>3. CASE regRooms[s] = RegNone
    <3> DEFINE b == [regCaller[c] EXCEPT !.slug = s, !.strict = strict,
                                         !.step = IF strict THEN "admit" ELSE "reserve"]
    <3>1. b \in RegCalls
      BY <2>1 DEF RegCalls, RegSteps
    <3>2. /\ b.step \in {"admit", "reserve"} /\ b.slug = s /\ b.room = regCaller[c].room
          /\ b.pin = regCaller[c].pin /\ b.slot = regCaller[c].slot
      BY <2>1 DEF RegCalls
    <3>3. regCaller' = [regCaller EXCEPT ![c] = b]
      BY <2>3 DEF RegOpen
    <3> HIDE DEF b
    <3>. QED  BY <1>t, <2>3, <3>1, <3>2, <3>3 DEF RegTypeOK
  <2>. QED  BY <2>2, <2>3
<1>2. /\ \A d \in RegCaller : d # c => regCaller'[d] = regCaller[d]
      /\ regCaller' \in [RegCaller -> RegCalls]
      /\ regCaller[c].step = "new" /\ regCaller[c].pin = NoSlot /\ regCaller[c].slot = NoSlot
      /\ regCaller[c].room = RegNone /\ OnlyBy({}, c)
      /\ Nowhere(<<c, "try_get">>) /\ Nowhere(<<c, "get">>)
      /\ UNCHANGED <<regDeleting, regRooms, regLoading, regLoaded, regRoom, regPurge>>
  <2>1. /\ regCaller[c].step = "new"
        /\ UNCHANGED <<regDeleting, regRooms, regLoading, regLoaded, regRoom, regPurge>>
    BY DEF RegOpen, RegHolding
  <2>2. regCaller \in [RegCaller -> RegCalls]
    BY <1>t DEF RegTypeOK
  <2>3. regCaller[c].pin = NoSlot /\ regCaller[c].slot = NoSlot /\ regCaller[c].room = RegNone
    BY <2>1 DEF RegInv, StepsAreSound
  <2>4. OnlyBy({}, c)
    BY <2>1 DEF RegInv, RoomsAreBuilt
  <2>5. Nowhere(<<c, "try_get">>) /\ Nowhere(<<c, "get">>)
    BY <2>1 DEF RegInv, SlotsAreMade
  <2>6. /\ \A d \in RegCaller : d # c => regCaller'[d] = regCaller[d]
        /\ regCaller' \in [RegCaller -> RegCalls]
    BY <1>1, <2>2
  <2>. QED  BY <2>1, <2>3, <2>4, <2>5, <2>6
<1>a. \A k \in RegSlot : SlotHeld(k)' = SlotHeld(k)
  BY <1>1, <1>2 DEF SlotHeld
<1>b. \A r \in RegCaller : Pinned(r)' => Pinned(r) \/ regRooms[s] = r
  BY <1>1, <1>2, <1>a DEF Pinned
<1>c. ~Pinned(c)' /\ \A t \in RegSlug : regRooms[t] # c
  BY <1>1, <1>2 DEF Pinned, OnlyBy
<1>3. RegTypeOK'
  BY <1>1, <1>2 DEF RegInv, RegTypeOK
<1>4. EverythingIsOfItsDocument'
  <2>1. /\ \A d \in RegCaller : d # c => SlugOf(d)' = SlugOf(d)
        /\ SlugOf(c)' = s
        /\ \A k \in RegSlot : ~Nowhere(k) => SlotSlug(k)' = SlotSlug(k)
    <3>1. \A k \in RegSlot : ~Nowhere(k) => k[1] \in RegCaller /\ k[1] # c
      BY <1>2 DEF RegSlot
    <3>. QED  BY <1>1, <1>2, <3>1 DEF SlugOf, SlotSlug
  <2>2. \A k \in RegSlot : (\E t \in RegSlug : k \in {regLoading[t], regPurge[t].slot}) => ~Nowhere(k)
    BY DEF Nowhere, SlotHeld
  <2>3. \A k \in RegSlot : (\E d \in RegCaller : k \in {regCaller[d].pin, regCaller[d].slot}) => ~Nowhere(k)
    BY DEF Nowhere, SlotHeld
  <2>4. \A k \in RegSlot : regLoaded[k] # RegNone => ~Nowhere(k)
    BY DEF Nowhere
  <2>5. \A t \in RegSlug : regRooms[t] # c /\ regPurge[t].room # c
    BY <1>2 DEF OnlyBy
  <2>6. \A k \in RegSlot : regLoaded[k] # c
    BY <1>2 DEF OnlyBy
  <2>7. \A d \in RegCaller : regCaller[d].room # c
    BY <1>2 DEF OnlyBy
  <2>8. \A t \in RegSlug :
       /\ regRooms'[t] # RegNone => SlugOf(regRooms[t])' = t
       /\ regLoading'[t] # NoSlot => SlotSlug(regLoading[t])' = t
       /\ regPurge'[t].room # RegNone => SlugOf(regPurge[t].room)' = t
       /\ regPurge'[t].slot # NoSlot => SlotSlug(regPurge[t].slot)' = t
    BY <1>2, <1>t, <2>1, <2>2, <2>5, ValuesAreTyped DEF RegInv, EverythingIsOfItsDocument
  <2>9. \A k \in RegSlot : regLoaded'[k] # RegNone => SlugOf(regLoaded[k])' = SlotSlug(k)'
    BY <1>2, <1>t, <2>1, <2>4, <2>6, ValuesAreTyped DEF RegInv, EverythingIsOfItsDocument
  <2>10. \A d \in RegCaller :
       /\ regCaller'[d].room # RegNone => SlugOf(regCaller[d].room)' = SlugOf(d)'
       /\ regCaller'[d].pin # NoSlot => SlotSlug(regCaller[d].pin)' = SlugOf(d)'
       /\ regCaller'[d].slot # NoSlot => SlotSlug(regCaller[d].slot)' = SlugOf(d)'
    BY <1>1, <1>2, <1>t, <2>1, <2>3, <2>5, <2>7, <2>8, ValuesAreTyped DEF RegInv, EverythingIsOfItsDocument
  <2>. QED
    BY <1>1, <1>2, <2>1, <2>8, <2>9, <2>10 DEF RegInv, EverythingIsOfItsDocument
<1>5. RoomsAreBuilt'
  BY <1>1, <1>2, <1>c DEF RegInv, RoomsAreBuilt, OnlyBy
<1>6. SlotsAreMade'
  <2>1. \A k \in RegSlot : Nowhere(k) => Nowhere(k)'
    BY <1>2, <1>a DEF Nowhere
  <2>2. \A d \in RegCaller : <<d, "try_get">> \in RegSlot /\ <<d, "get">> \in RegSlot
    BY DEF RegSlot
  <2>. QED  BY <1>1, <1>2, <2>1, <2>2 DEF RegInv, SlotsAreMade
<1>7. StepsAreSound'
  BY <1>1, <1>2 DEF RegInv, StepsAreSound, Locking, SlugOf
<1>8. LoadsShareASlot'
  <2>1. \A k \in RegSlot : SlotHeld(k) => SlotSlug(k)' = SlotSlug(k)
    <3>1. \A k \in RegSlot : SlotHeld(k) => k[1] \in RegCaller /\ k[1] # c
      BY <1>2 DEF RegSlot, Nowhere
    <3>. QED  BY <1>2, <3>1 DEF SlotSlug
  <2>. QED  BY <1>2, <1>a, <2>1 DEF RegInv, LoadsShareASlot
<1>9. WritableIsCached'
  <2>1. \A d \in RegCaller : d # c => SlugOf(d)' = SlugOf(d)
    BY <1>2 DEF SlugOf
  <2>2. \A d \in RegCaller : regRooms[s] = d => SlugOf(d) = s
    BY DEF RegInv, EverythingIsOfItsDocument
  <2>. QED  BY <1>2, <1>b, <1>c, <2>1, <2>2 DEF RegInv, WritableIsCached
<1>10. PurgesAreSound'
  <2>1. \A t \in RegSlug : Writable(t)' \subseteq Writable(t) \ {c} /\ Writable(t) \subseteq RegCaller
    <3>1. \A d \in RegCaller : d # c => SlugOf(d)' = SlugOf(d)
      BY <1>2 DEF SlugOf
    <3>2. \A d \in RegCaller : regRooms[s] = d => SlugOf(d) = s
      BY DEF RegInv, EverythingIsOfItsDocument
    <3>. QED  BY <1>2, <1>b, <1>c, <3>1, <3>2 DEF Writable
  <2>. QED  BY <1>2, <2>1 DEF RegInv, PurgesAreSound
<1>11. RegDirtyIsSwept'
  <2>1. ~regRoom[c].dirty
    BY <1>2 DEF RegInv, RoomsAreBuilt
  <2>. QED  BY <1>2, <2>1 DEF RegInv, RegDirtyIsSwept
<1>. QED
  BY <1>3, <1>4, <1>5, <1>6, <1>7, <1>8, <1>9, <1>10, <1>11 DEF RegInv
---------------------------------------------------------------------------
\* The room is built: only its call has it, and it is fenced when its document
\* is being deleted.
LEMMA LoadKeeps ==
  ASSUME RegInv, NEW c \in RegCaller, RegLoad(c)
  PROVE  RegInv'
<1> USE RegAssumption, NoSlotIsNoSlot
<1>t. RegTypeOK
  BY DEF RegInv
<1>1. /\ regCaller' = [regCaller EXCEPT ![c] = regCaller'[c]] /\ regCaller'[c] \in RegCalls
      /\ regCaller'[c].step = "insert" /\ regCaller'[c].room = c
      /\ regCaller'[c].slug = regCaller[c].slug /\ regCaller'[c].pin = regCaller[c].pin
      /\ regCaller'[c].slot = regCaller[c].slot
  <2> DEFINE b == [regCaller[c] EXCEPT !.step = "insert", !.room = c]
  <2>1. regCaller[c] \in RegCalls
    BY <1>t DEF RegTypeOK
  <2>2. /\ b \in RegCalls /\ b.step = "insert" /\ b.room = c /\ b.slug = regCaller[c].slug
        /\ b.pin = regCaller[c].pin /\ b.slot = regCaller[c].slot
    BY <2>1 DEF RegCalls, RegSteps
  <2>3. regCaller' = [regCaller EXCEPT ![c] = b]
    BY <1>t DEF RegLoad, RegTypeOK
  <2> HIDE DEF b
  <2>. QED  BY <1>t, <2>2, <2>3 DEF RegTypeOK
<1>2. /\ \A d \in RegCaller : d # c => regCaller'[d] = regCaller[d] /\ regRoom'[d] = regRoom[d]
      /\ \A d \in RegCaller : regCaller'[d].slug = regCaller[d].slug
      /\ regCaller' \in [RegCaller -> RegCalls]
      /\ regRoom' \in [RegCaller -> [fenced : BOOLEAN, dirty : BOOLEAN]]
      /\ regRoom'[c].fenced = (SlugOf(c) \in regDeleting) /\ ~regRoom'[c].dirty
      /\ regCaller[c].step = "load" /\ OnlyBy({}, c)
      /\ UNCHANGED <<regDeleting, regRooms, regLoading, regLoaded, regPurge>>
  <2>1. /\ regCaller[c].step = "load"
        /\ regRoom' = [regRoom EXCEPT ![c] = [fenced |-> SlugOf(c) \in regDeleting, dirty |-> FALSE]]
        /\ UNCHANGED <<regDeleting, regRooms, regLoading, regLoaded, regPurge>>
    BY DEF RegLoad, RegHolding, SlugOf
  <2>2. OnlyBy({}, c)
    BY <2>1 DEF RegInv, RoomsAreBuilt
  <2>. QED  BY <1>t, <1>1, <2>1, <2>2 DEF RegTypeOK
<1>a. \A k \in RegSlot : SlotHeld(k)' = SlotHeld(k)
  BY <1>1, <1>2 DEF SlotHeld
<1>b. \A r \in RegCaller : r # c => (Pinned(r)' => Pinned(r))
  BY <1>1, <1>2, <1>a DEF Pinned
<1>3. RegTypeOK'
  BY <1>2 DEF RegInv, RegTypeOK
<1>4. EverythingIsOfItsDocument'
  BY <1>1, <1>2, SlugsKept, <1>t, ValuesAreTyped DEF RegInv, EverythingIsOfItsDocument
<1>5. RoomsAreBuilt'
  BY <1>1, <1>2 DEF RegInv, RoomsAreBuilt, OnlyBy
<1>6. SlotsAreMade'
  <2>1. \A j \in RegSlot : Nowhere(j) => Nowhere(j)'
    BY <1>2, <1>a DEF Nowhere
  <2>2. \A d \in RegCaller : <<d, "try_get">> \in RegSlot /\ <<d, "get">> \in RegSlot
    BY DEF RegSlot
  <2>. QED  BY <1>1, <1>2, <2>1, <2>2 DEF RegInv, SlotsAreMade
<1>7. StepsAreSound'
  <2>1. \A d \in RegCaller : Locking(d)' <=> Locking(d)
    BY <1>1, <1>2 DEF Locking
  <2>2. /\ \A d \in RegCaller : regCaller'[d].slot = regCaller[d].slot
        /\ \A d \in RegCaller : regCaller'[d].step = "publish" => regCaller[d].step = "publish"
        /\ regCaller[c].slot # NoSlot /\ regLoaded[regCaller[c].slot] = RegNone
    BY <1>1, <1>2 DEF RegInv, StepsAreSound
  <2>3. \A d \in RegCaller : d # c => regCaller'[d] = regCaller[d] /\ SlugOf(d)' = SlugOf(d)
    BY <1>2 DEF SlugOf
  <2>4. c # RegNone
    OBVIOUS
  <2>. QED  BY <1>1, <1>2, <2>1, <2>2, <2>3, <2>4 DEF RegInv, StepsAreSound
<1>8. LoadsShareASlot'
  BY <1>1, <1>2, <1>a DEF RegInv, LoadsShareASlot, SlotSlug, RegSlot
<1>9. WritableIsCached'
  BY <1>1, <1>2, <1>b DEF RegInv, WritableIsCached, SlugOf
<1>10. PurgesAreSound'
  <2>1. ASSUME NEW s \in RegSlug, s \in regDeleting
        PROVE  Writable(s)' \subseteq Writable(s) \ {c} /\ Writable(s) \subseteq RegCaller
    BY <1>1, <1>2, <1>b, <2>1 DEF Writable, SlugOf
  <2>. QED  BY <1>2, <2>1 DEF RegInv, PurgesAreSound
<1>11. RegDirtyIsSwept'
  BY <1>1, <1>2 DEF RegInv, RegDirtyIsSwept
<1>. QED
  BY <1>3, <1>4, <1>5, <1>6, <1>7, <1>8, <1>9, <1>10, <1>11 DEF RegInv

\* The room is cached, or fenced: its document has no other, because everyone
\* who may load the document shares the slot the call has locked.
LEMMA InsertKeeps ==
  ASSUME RegInv, NEW c \in RegCaller, RegInsert(c)
  PROVE  RegInv'
<1> USE RegAssumption, NoSlotIsNoSlot
<1> DEFINE s == SlugOf(c)
           k == regCaller[c].slot
<1>t. RegTypeOK /\ "publish" \in RegSteps
  BY DEF RegInv, RegSteps
<1>1. /\ RegHolding(c, "insert") /\ GateFree /\ RegGoes(c, "publish")
      /\ regLoaded' = [regLoaded EXCEPT ![k] = c]
      /\ UNCHANGED <<regDeleting, regLoading, regPurge>>
  BY DEF RegInsert
<1>2. PICK gone \in Evictions(RegMax) :
        \/ regRooms' = [Without(gone) EXCEPT ![s] = c] /\ UNCHANGED regRoom
        \/ regRooms' = Without(gone) /\ regRoom' = [regRoom EXCEPT ![c].fenced = TRUE]
  BY DEF RegInsert, Uncached, SlugOf
<1>3. /\ \A d \in RegCaller : d # c => regCaller'[d] = regCaller[d]
      /\ \A d \in RegCaller : /\ regCaller'[d].slug = regCaller[d].slug
                              /\ regCaller'[d].pin = regCaller[d].pin
                              /\ regCaller'[d].slot = regCaller[d].slot
                              /\ regCaller'[d].room = regCaller[d].room
      /\ regCaller'[c].step = "publish"
      /\ regCaller' \in [RegCaller -> RegCalls]
  BY <1>1, <1>t, GoesOn
<1>4. /\ regCaller[c].step = "insert" /\ regCaller[c].room = c /\ s \in RegSlug /\ k \in RegSlot
      /\ SlotSlug(k) = s /\ SlotHeld(k) /\ regLoaded[k] = RegNone
      /\ OnlyBy({c}, c) /\ \A d \in RegCaller : regCaller[d].step # "publish"
  <2>1. regCaller[c].step = "insert" /\ \A d \in RegCaller : regCaller[d].step # "publish"
    BY <1>1 DEF RegHolding, GateFree
  <2>2. regCaller[c].room = c /\ k \in RegSlot /\ regLoaded[k] = RegNone
    BY <1>t, <2>1, ValuesAreTyped DEF RegInv, StepsAreSound
  <2>. QED
    BY <2>1, <2>2 DEF RegInv, RoomsAreBuilt, EverythingIsOfItsDocument, SlotHeld
<1>5. regLoading[s] = k /\ regRooms[s] = RegNone
  BY <1>4 DEF RegInv, LoadsShareASlot
<1> HIDE DEF s, k
<1>6. \A t \in RegSlug : /\ Without(gone)[t] \in {regRooms[t], RegNone}
                         /\ regRooms[t] # RegNone /\ (Pinned(regRooms[t]) \/ regRoom[regRooms[t]].dirty)
                              => Without(gone)[t] = regRooms[t]
  BY <1>t DEF Evictions, Without, RegIdle
<1>7. /\ \A t \in RegSlug \ {s} : regRooms'[t] = Without(gone)[t]
      /\ \/ regRooms'[s] = c /\ regRoom'[c] = regRoom[c]
         \/ regRooms'[s] = RegNone /\ regRoom'[c].fenced
      /\ \A d \in RegCaller : d # c => regRoom'[d] = regRoom[d]
      /\ regRooms' \in [RegSlug -> RegCaller \cup {RegNone}]
      /\ regRoom' \in [RegCaller -> [fenced : BOOLEAN, dirty : BOOLEAN]]
  <2>1. Without(gone) \in [RegSlug -> RegCaller \cup {RegNone}] /\ Without(gone)[s] = RegNone
    BY <1>t, <1>4, <1>5, <1>6 DEF Without, RegTypeOK
  <2>2. regRoom \in [RegCaller -> [fenced : BOOLEAN, dirty : BOOLEAN]]
    BY <1>t DEF RegTypeOK
  <2>3. CASE regRooms' = [Without(gone) EXCEPT ![s] = c] /\ UNCHANGED regRoom
    BY <1>4, <2>1, <2>2, <2>3
  <2>4. CASE regRooms' = Without(gone) /\ regRoom' = [regRoom EXCEPT ![c].fenced = TRUE]
    BY <1>4, <2>1, <2>2, <2>4
  <2>. QED  BY <1>2, <2>3, <2>4
<1>8. /\ regLoaded' \in [RegSlot -> RegCaller \cup {RegNone}]
      /\ regLoaded'[k] = c /\ \A j \in RegSlot : j # k => regLoaded'[j] = regLoaded[j]
  BY <1>1, <1>4, <1>t DEF RegTypeOK
<1>a. \A j \in RegSlot : SlotHeld(j)' = SlotHeld(j)
  BY <1>1, <1>3 DEF SlotHeld
<1>b. \A r \in RegCaller : Pinned(r)' => Pinned(r)
  BY <1>1, <1>3, <1>4, <1>8, <1>a DEF Pinned
<1>k. /\ \A d \in RegCaller : SlugOf(d)' = SlugOf(d)
      /\ \A j \in RegSlot : SlotSlug(j)' = SlotSlug(j)
  BY <1>3, SlugsKept
<1>9. RegTypeOK'
  BY <1>1, <1>3, <1>7, <1>8 DEF RegInv, RegTypeOK
<1>10. EverythingIsOfItsDocument'
  <2>1. \A t \in RegSlug : regRooms'[t] # RegNone => SlugOf(regRooms'[t]) = t /\ regRooms'[t] \in RegCaller
    BY <1>6, <1>7, <1>t, ValuesAreTyped DEF RegInv, EverythingIsOfItsDocument, s
  <2>2. \A j \in RegSlot : regLoaded'[j] # RegNone => SlugOf(regLoaded'[j]) = SlotSlug(j) /\ regLoaded'[j] \in RegCaller
    BY <1>4, <1>8, <1>t, ValuesAreTyped DEF RegInv, EverythingIsOfItsDocument, s
  <2>. QED
    BY <1>1, <1>3, <1>4, <1>k, <1>t, <2>1, <2>2, ValuesAreTyped DEF RegInv, EverythingIsOfItsDocument
<1>11. RoomsAreBuilt'
  <2>1. /\ \A j \in RegSlot : regLoaded'[j] \in {regLoaded[j], c}
        /\ \A t \in RegSlug : regRooms'[t] \in {regRooms[t], RegNone, c} /\ regPurge'[t] = regPurge[t]
        /\ \A d \in RegCaller : regCaller'[d].room = regCaller[d].room /\ d # RegNone
    BY <1>1, <1>3, <1>6, <1>7, <1>8
  <2>2. \A d \in RegCaller \ {c} :
          (OnlyBy({}, d) => OnlyBy({}, d)') /\ (OnlyBy({d}, d) => OnlyBy({d}, d)')
    BY <2>1 DEF OnlyBy
  <2>3. \A d \in RegCaller \ {c} :
          regCaller'[d].step = regCaller[d].step /\ regRoom'[d].dirty = regRoom[d].dirty
    BY <1>3, <1>7
  <2>. QED  BY <1>3, <2>2, <2>3 DEF RegInv, RoomsAreBuilt
<1>12. SlotsAreMade'
  <2>1. \A j \in RegSlot : Nowhere(j) => Nowhere(j)'
    BY <1>1, <1>4, <1>8, <1>a DEF Nowhere
  <2>2. \A d \in RegCaller : <<d, "try_get">> \in RegSlot /\ <<d, "get">> \in RegSlot
    BY DEF RegSlot
  <2>. QED  BY <1>3, <2>1, <2>2 DEF RegInv, SlotsAreMade
<1>13. StepsAreSound'
  <2>1. \A d \in RegCaller : d # c /\ Locking(d) => regCaller[d].slot # k
    BY <1>4 DEF RegInv, StepsAreSound, Locking, k
  <2>2. \A d \in RegCaller : regCaller[d].step \in {"load", "insert"} => regCaller[d].slot \in RegSlot
    BY <1>t, ValuesAreTyped DEF RegInv, StepsAreSound
  <2>. QED
    BY <1>1, <1>3, <1>4, <1>5, <1>8, <1>k, <2>1, <2>2 DEF RegInv, StepsAreSound, Locking, k, s
<1>14. LoadsShareASlot'
  <2>1. \A j \in RegSlot : regLoaded'[j] = RegNone => regLoaded[j] = RegNone /\ j # k
    BY <1>4, <1>8, <1>t DEF RegTypeOK
  <2>2. \A t \in RegSlug : regLoading[t] # NoSlot /\ regLoaded'[regLoading[t]] = RegNone => regRooms'[t] = RegNone
    BY <1>5, <1>6, <1>7, <2>1, <1>t, ValuesAreTyped DEF RegInv, LoadsShareASlot
  <2>. QED  BY <1>1, <1>a, <1>k, <2>1, <2>2 DEF RegInv, LoadsShareASlot
<1>15. WritableIsCached'
  <2>1. c \in RegCaller /\ (regRoom'[c].fenced \/ regRooms'[SlugOf(c)] = c)
    BY <1>7 DEF s
  <2>2. ASSUME NEW d \in RegCaller, Pinned(d), ~regRoom[d].fenced, d # c
        PROVE  regRooms'[SlugOf(d)] = d \/ regCaller[d].step = "insert"
    <3>1. SlugOf(d) \in RegSlug /\ (regRooms[SlugOf(d)] = d \/ regCaller[d].step = "insert")
      BY <2>2, PinnedRooms DEF RegInv, WritableIsCached
    <3>. QED  BY <1>5, <1>6, <1>7, <2>2, <3>1
  <2>. QED  BY <1>3, <1>7, <1>b, <1>k, <2>1, <2>2 DEF WritableIsCached
<1>16. PurgesAreSound'
  <2>1. \A t \in RegSlug : Writable(t)' \subseteq Writable(t) /\ Writable(t) \subseteq RegCaller
    BY <1>3, <1>4, <1>6, <1>7, <1>b, <1>k DEF Writable, Pinned, s
  <2>2. \A t \in RegSlug : regPurge[t].room # c
    BY <1>4 DEF OnlyBy
  <2>. QED
    BY <1>1, <1>3, <1>4, <1>8, <1>t, <2>1, <2>2, ValuesAreTyped DEF RegInv, PurgesAreSound, k
<1>17. RegDirtyIsSwept'
  <2>1. ASSUME NEW t \in RegSlug, NEW d \in RegCaller, regCaller[d].slug = t, regRoom'[d].dirty, ~regRoom'[d].fenced
        PROVE  regRooms'[t] = d
    <3>1. CASE d = c
      BY <1>7, <2>1, <3>1 DEF s, SlugOf
    <3>2. CASE d # c
      <4>1. regRooms[t] = d /\ regRoom[d].dirty
        BY <1>7, <2>1, <3>2 DEF RegInv, RegDirtyIsSwept
      <4>. QED  BY <1>5, <1>6, <1>7, <4>1
    <3>. QED  BY <3>1, <3>2
  <2>. QED  BY <1>3, <2>1 DEF RegDirtyIsSwept
<1>. QED
  BY <1>9, <1>10, <1>11, <1>12, <1>13, <1>14, <1>15, <1>16, <1>17 DEF RegInv

\* The slot is forgotten, and the call has its room.
LEMMA PublishKeeps ==
  ASSUME RegInv, NEW c \in RegCaller, RegPublish(c)
  PROVE  RegInv'
<1> USE RegAssumption, NoSlotIsNoSlot
<1> DEFINE s == SlugOf(c)
           k == regCaller[c].slot
<1>t. RegTypeOK
  BY DEF RegInv
<1>1. /\ regCaller[c].step = "publish" /\ regCaller[c].room = c /\ s \in RegSlug
      /\ regLoaded[k] = c /\ regLoading[s] = k /\ regLoaded[k] # RegNone
      /\ regLoading' = [regLoading EXCEPT ![s] = NoSlot] /\ RegGets(c, c)
      /\ UNCHANGED <<regDeleting, regRooms, regLoaded, regRoom, regPurge>>
  BY DEF RegPublish, RegHolding, SlugOf, RegInv, StepsAreSound, EverythingIsOfItsDocument
<1> HIDE DEF s, k
<1>2. /\ regCaller' = [regCaller EXCEPT ![c] = regCaller'[c]] /\ regCaller'[c] \in RegCalls
      /\ regCaller'[c].step \in {"have", "check"} /\ regCaller'[c].room = c
      /\ regCaller'[c].slug = regCaller[c].slug /\ regCaller'[c].pin = regCaller[c].pin
      /\ regCaller'[c].slot = NoSlot
  <2> DEFINE b == [regCaller[c] EXCEPT !.step = IF regCaller[c].pin = NoSlot THEN "have" ELSE "check",
                                       !.room = c, !.slot = NoSlot]
  <2>1. regCaller[c] \in RegCalls
    BY <1>t DEF RegTypeOK
  <2>2. /\ b \in RegCalls /\ b.step \in {"have", "check"} /\ b.room = c /\ b.slug = regCaller[c].slug
        /\ b.pin = regCaller[c].pin /\ b.slot = NoSlot
    BY <2>1 DEF RegCalls, RegSteps
  <2>3. regCaller' = [regCaller EXCEPT ![c] = b]
    BY <1>1, <1>t DEF RegGets, RegTypeOK
  <2> HIDE DEF b
  <2>. QED  BY <1>t, <2>2, <2>3 DEF RegTypeOK
<1>3. /\ \A d \in RegCaller : d # c => regCaller'[d] = regCaller[d]
      /\ \A d \in RegCaller : regCaller'[d].slug = regCaller[d].slug /\ regCaller'[d].room = regCaller[d].room
      /\ regCaller' \in [RegCaller -> RegCalls]
      /\ regLoading'[s] = NoSlot /\ \A t \in RegSlug \ {s} : regLoading'[t] = regLoading[t]
      /\ regLoading' \in [RegSlug -> RegSlot \cup {NoSlot}]
  BY <1>t, <1>1, <1>2 DEF RegTypeOK
<1>a. \A j \in RegSlot : SlotHeld(j)' => SlotHeld(j)
  BY <1>1, <1>2, <1>3 DEF SlotHeld
<1>b. \A r \in RegCaller : Pinned(r)' => Pinned(r)
  BY <1>1, <1>3, <1>a DEF Pinned
<1>k. /\ \A d \in RegCaller : SlugOf(d)' = SlugOf(d)
      /\ \A j \in RegSlot : SlotSlug(j)' = SlotSlug(j)
  BY <1>3, SlugsKept
<1>4. RegTypeOK'
  BY <1>1, <1>3 DEF RegInv, RegTypeOK
<1>5. EverythingIsOfItsDocument'
  <2>1. \A t \in RegSlug : regLoading'[t] # NoSlot => SlotSlug(regLoading'[t]) = t /\ regLoading'[t] \in RegSlot
    BY <1>3 DEF RegInv, EverythingIsOfItsDocument
  <2>. QED
    BY <1>1, <1>2, <1>3, <1>k, <1>t, <2>1, ValuesAreTyped DEF RegInv, EverythingIsOfItsDocument
<1>6. RoomsAreBuilt'
  BY <1>1, <1>2, <1>3 DEF RegInv, RoomsAreBuilt, OnlyBy
<1>7. SlotsAreMade'
  <2>1. \A j \in RegSlot : Nowhere(j) => Nowhere(j)'
    BY <1>1, <1>3, <1>a DEF Nowhere
  <2>2. \A d \in RegCaller : <<d, "try_get">> \in RegSlot /\ <<d, "get">> \in RegSlot
    BY DEF RegSlot
  <2>. QED  BY <1>2, <1>3, <2>1, <2>2 DEF RegInv, SlotsAreMade
<1>8. StepsAreSound'
  <2>1. \A d \in RegCaller : d # c => regCaller[d].step # "publish"
    BY <1>1 DEF RegInv, StepsAreSound
  <2>. QED  BY <1>1, <1>2, <1>3, <1>k, <2>1 DEF RegInv, StepsAreSound, Locking
<1>9. LoadsShareASlot'
  BY <1>1, <1>3, <1>a, <1>k DEF RegInv, LoadsShareASlot
<1>10. WritableIsCached'
  BY <1>1, <1>2, <1>3, <1>b, <1>k DEF RegInv, WritableIsCached
<1>11. PurgesAreSound'
  <2>1. \A t \in RegSlug : Writable(t)' \subseteq Writable(t) /\ Writable(t) \subseteq RegCaller
    BY <1>1, <1>3, <1>b, <1>k DEF Writable
  <2>2. \A d \in RegCaller : regCaller[d].step = "insert" => regCaller'[d] = regCaller[d]
    BY <1>1, <1>3
  <2>. QED  BY <1>1, <2>1, <2>2 DEF RegInv, PurgesAreSound
<1>12. RegDirtyIsSwept'
  BY <1>1, <1>3 DEF RegInv, RegDirtyIsSwept
<1>. QED
  BY <1>4, <1>5, <1>6, <1>7, <1>8, <1>9, <1>10, <1>11, <1>12 DEF RegInv

---------------------------------------------------------------------------
\* Only rooms change: nobody gets or loses one.
LEMMA RoomsChange ==
  ASSUME RegInv, RegTypeOK', PurgesAreSound',
         \A c \in RegCaller : /\ regRoom[c].fenced => regRoom'[c].fenced
                              /\ regRoom'[c].dirty => regRoom[c].dirty \/
                                   (regRooms[SlugOf(c)] = c /\ Pinned(c)),
         UNCHANGED <<regRooms, regLoading, regLoaded, regCaller>>,
         \A s \in RegSlug : /\ regPurge'[s].slot = regPurge[s].slot
                            /\ regPurge'[s].room = regPurge[s].room
  PROVE  RegInv'
<1>1. \A k \in RegSlot : SlotHeld(k)' = SlotHeld(k)
  BY DEF SlotHeld
<1>2. \A r \in RegCaller : Pinned(r)' = Pinned(r)
  BY <1>1 DEF Pinned
<1>3. EverythingIsOfItsDocument'
  BY SlugsKept, ValuesAreTyped DEF RegInv, EverythingIsOfItsDocument
<1>4. RoomsAreBuilt'
  BY DEF RegInv, RoomsAreBuilt, OnlyBy, Pinned
<1>5. SlotsAreMade'
  BY <1>1 DEF RegInv, SlotsAreMade, Nowhere, RegSlot
<1>6. StepsAreSound'
  BY DEF RegInv, StepsAreSound, Locking, SlugOf
<1>7. LoadsShareASlot'
  BY <1>1 DEF RegInv, LoadsShareASlot, SlotSlug, RegSlot
<1>8. WritableIsCached'
  BY <1>2 DEF RegInv, WritableIsCached, SlugOf
<1>9. RegDirtyIsSwept'
  BY DEF RegInv, RegDirtyIsSwept, SlugOf
<1>. QED  BY <1>3, <1>4, <1>5, <1>6, <1>7, <1>8, <1>9 DEF RegInv

\* An edit of a live room keeps the invariant.
LEMMA EditKeeps ==
  ASSUME RegInv, NEW c \in RegCaller, RegEdit(c)
  PROVE  RegInv'
<1> USE RegAssumption
<1> DEFINE r == regCaller[c].room
<1>1. /\ regCaller[c].step = "have" /\ r \in RegCaller /\ ~regRoom[r].fenced
      /\ regRoom' = [regRoom EXCEPT ![r].dirty = TRUE]
      /\ UNCHANGED <<regDeleting, regRooms, regLoading, regLoaded, regCaller, regPurge>>
  BY ValuesAreTyped DEF RegEdit, RegHolding, RegInv, StepsAreSound
<1>2. regRooms[SlugOf(r)] = r /\ Pinned(r)
  <2>1. Pinned(r)
    BY <1>1 DEF Pinned
  <2>2. regCaller[r].step # "insert"
    BY <1>1 DEF RegInv, RoomsAreBuilt, OnlyBy
  <2>. QED  BY <1>1, <2>1, <2>2 DEF RegInv, WritableIsCached
<1>3. /\ \A d \in RegCaller : regRoom'[d].fenced = regRoom[d].fenced
      /\ \A d \in RegCaller : d # r => regRoom'[d] = regRoom[d]
      /\ regRoom' \in [RegCaller -> [fenced : BOOLEAN, dirty : BOOLEAN]]
  BY <1>1 DEF RegInv, RegTypeOK
<1>4. RegTypeOK'
  BY <1>1, <1>3 DEF RegInv, RegTypeOK
<1>5. PurgesAreSound'
  <2>1. \A k \in RegSlot : SlotHeld(k)' = SlotHeld(k)
    BY <1>1 DEF SlotHeld
  <2>2. \A d \in RegCaller : Pinned(d)' = Pinned(d)
    BY <1>1, <2>1 DEF Pinned
  <2>3. \A s \in RegSlug : Writable(s)' = Writable(s)
    BY <1>1, <1>3, <2>2 DEF Writable, SlugOf
  <2>. QED  BY <1>1, <2>3 DEF RegInv, PurgesAreSound, Writable
<1>. QED  BY <1>1, <1>2, <1>3, <1>4, <1>5, RoomsChange

\* A background save of a room keeps the invariant.
LEMMA TickKeeps ==
  ASSUME RegInv, NEW s \in RegSlug, RegTick(s)
  PROVE  RegInv'
<1> USE RegAssumption
<1> DEFINE r == regRooms[s]
<1>1. /\ r \in RegCaller /\ regRoom' = [regRoom EXCEPT ![r].dirty = FALSE]
      /\ UNCHANGED <<regDeleting, regRooms, regLoading, regLoaded, regCaller, regPurge>>
  BY ValuesAreTyped DEF RegTick, RegInv
<1>3. /\ \A d \in RegCaller : regRoom'[d].fenced = regRoom[d].fenced
      /\ \A d \in RegCaller : regRoom'[d].dirty => regRoom[d].dirty
      /\ regRoom' \in [RegCaller -> [fenced : BOOLEAN, dirty : BOOLEAN]]
  BY <1>1 DEF RegInv, RegTypeOK
<1>4. RegTypeOK'
  BY <1>1, <1>3 DEF RegInv, RegTypeOK
<1>5. PurgesAreSound'
  <2>1. \A k \in RegSlot : SlotHeld(k)' = SlotHeld(k)
    BY <1>1 DEF SlotHeld
  <2>2. \A d \in RegCaller : Pinned(d)' = Pinned(d)
    BY <1>1, <2>1 DEF Pinned
  <2>3. \A t \in RegSlug : Writable(t)' = Writable(t)
    BY <1>1, <1>3, <2>2 DEF Writable, SlugOf
  <2>. QED  BY <1>1, <2>3 DEF RegInv, PurgesAreSound, Writable
<1>. QED  BY <1>1, <1>3, <1>4, <1>5, RoomsChange

\* The beginning of a deletion keeps the invariant.
LEMMA BeginDeleteKeeps ==
  ASSUME RegInv, NEW s \in RegSlug, RegBeginDelete(s)
  PROVE  RegInv'
<1> USE RegAssumption
<1>1. /\ regDeleting' = regDeleting \cup {s} /\ s \notin regDeleting
      /\ regPurge' = [regPurge EXCEPT ![s].step = "look"]
      /\ UNCHANGED <<regRooms, regLoading, regLoaded, regRoom, regCaller>>
  BY DEF RegBeginDelete
<1>2. /\ \A t \in RegSlug : regPurge'[t].slot = regPurge[t].slot /\ regPurge'[t].room = regPurge[t].room
      /\ \A t \in RegSlug : t # s => regPurge'[t] = regPurge[t]
      /\ regPurge'[s].step = "look"
      /\ regPurge' \in [RegSlug -> RegPurges]
  <2>1. regPurge \in [RegSlug -> RegPurges]
    BY DEF RegInv, RegTypeOK
  <2> DEFINE b == [regPurge[s] EXCEPT !.step = "look"]
  <2>2. b \in RegPurges /\ b.step = "look" /\ b.slot = regPurge[s].slot /\ b.room = regPurge[s].room
    BY <2>1 DEF RegPurges
  <2>3. regPurge' = [regPurge EXCEPT ![s] = b]
    BY <1>1, <2>1
  <2> HIDE DEF b
  <2>. QED  BY <2>1, <2>2, <2>3
<1>3. RegTypeOK'
  BY <1>1, <1>2 DEF RegInv, RegTypeOK
<1>4. PurgesAreSound'
  <2>1. \A k \in RegSlot : SlotHeld(k)' = SlotHeld(k)
    BY <1>1, <1>2 DEF SlotHeld
  <2>2. \A d \in RegCaller : Pinned(d)' = Pinned(d)
    BY <1>1, <1>2, <2>1 DEF Pinned
  <2>3. \A t \in RegSlug : Writable(t)' = Writable(t) /\ Writable(t) \subseteq RegCaller
    BY <1>1, <2>2 DEF Writable, SlugOf
  <2>. QED  BY <1>1, <1>2, <2>3 DEF RegInv, PurgesAreSound
<1>. QED  BY <1>1, <1>2, <1>3, <1>4, RoomsChange

\* Fencing the room of a document being deleted keeps the invariant.
LEMMA PurgeFenceKeeps ==
  ASSUME RegInv, NEW s \in RegSlug, RegPurgeFence(s)
  PROVE  RegInv'
<1> USE RegAssumption
<1> DEFINE r == regPurge[s].room
<1>t. RegTypeOK
  BY DEF RegInv
<1>1. /\ regPurge[s].step = "fence" /\ r \in RegCaller /\ Writable(s) \subseteq {r}
      /\ regRoom' = [regRoom EXCEPT ![r].fenced = TRUE]
      /\ regPurge' = [regPurge EXCEPT ![s].step = "drop"]
      /\ UNCHANGED <<regDeleting, regRooms, regLoading, regLoaded, regCaller>>
  BY <1>t, ValuesAreTyped DEF RegPurgeFence, RegInv, PurgesAreSound
<1>2. /\ \A t \in RegSlug : regPurge'[t].slot = regPurge[t].slot /\ regPurge'[t].room = regPurge[t].room
      /\ \A t \in RegSlug : t # s => regPurge'[t] = regPurge[t]
      /\ regPurge'[s].step = "drop"
      /\ regPurge' \in [RegSlug -> RegPurges]
  <2>1. regPurge \in [RegSlug -> RegPurges]
    BY <1>t DEF RegTypeOK
  <2> DEFINE b == [regPurge[s] EXCEPT !.step = "drop"]
  <2>2. b \in RegPurges /\ b.step = "drop" /\ b.slot = regPurge[s].slot /\ b.room = regPurge[s].room
    BY <2>1 DEF RegPurges
  <2>3. regPurge' = [regPurge EXCEPT ![s] = b]
    BY <1>1, <2>1
  <2> HIDE DEF b
  <2>. QED  BY <2>1, <2>2, <2>3
<1>3. /\ \A d \in RegCaller : d # r => regRoom'[d] = regRoom[d]
      /\ regRoom'[r].fenced /\ regRoom'[r].dirty = regRoom[r].dirty
      /\ regRoom' \in [RegCaller -> [fenced : BOOLEAN, dirty : BOOLEAN]]
  <2> DEFINE b == [regRoom[r] EXCEPT !.fenced = TRUE]
  <2>1. regRoom \in [RegCaller -> [fenced : BOOLEAN, dirty : BOOLEAN]] /\ r \in RegCaller
    BY <1>1, <1>t DEF RegTypeOK
  <2> HIDE DEF r
  <2>2. b \in [fenced : BOOLEAN, dirty : BOOLEAN] /\ b.fenced /\ b.dirty = regRoom[r].dirty
    BY <2>1
  <2>3. regRoom' = [regRoom EXCEPT ![r] = b]
    BY <1>1, <2>1
  <2> HIDE DEF b
  <2>. QED  BY <2>1, <2>2, <2>3
<1> HIDE DEF r
<1>4. RegTypeOK'
  BY <1>1, <1>2, <1>3 DEF RegInv, RegTypeOK
<1>5. PurgesAreSound'
  <2>1. \A k \in RegSlot : SlotHeld(k)' = SlotHeld(k)
    BY <1>1, <1>2 DEF SlotHeld
  <2>2. \A d \in RegCaller : Pinned(d)' = Pinned(d)
    BY <1>1, <1>2, <2>1 DEF Pinned
  <2>3. \A t \in RegSlug : Writable(t)' \subseteq Writable(t) \ {r} /\ Writable(t) \subseteq RegCaller
    BY <1>1, <1>3, <2>2 DEF Writable, SlugOf
  <2>4. Writable(s)' = {}
    BY <1>1, <2>3
  <2>. QED  BY <1>1, <1>2, <2>3, <2>4 DEF RegInv, PurgesAreSound
<1>6. \A d \in RegCaller : /\ regRoom[d].fenced => regRoom'[d].fenced
                           /\ regRoom'[d].dirty => regRoom[d].dirty
  BY <1>1, <1>3
<1>. QED  BY <1>1, <1>2, <1>4, <1>5, <1>6, RoomsChange

\* A deletion takes what stands for its document: a room, or the slot that one
\* is being loaded behind.
Looked(s) ==
  /\ \A t \in RegSlug : t # s => regPurge'[t] = regPurge[t]
  /\ regPurge' \in [RegSlug -> RegPurges] /\ s \in regDeleting
  /\ regPurge'[s].slot # NoSlot =>
       regPurge'[s].slot = regPurge[s].slot \/ regPurge'[s].slot = regLoading[s]
  /\ regPurge'[s].room # RegNone =>
       \/ regPurge'[s].room \in {regPurge[s].room, regRooms[s]}
       \/ regPurge[s].slot # NoSlot /\ regPurge'[s].room = regLoaded[regPurge[s].slot]
  /\ UNCHANGED <<regDeleting, regRooms, regLoading, regLoaded, regRoom, regCaller>>

\* What a purge concludes from its look at the registry keeps the invariant, when
\* every writable room of the document is the one it waits for or will fence.
LEMMA LookedKeeps ==
  ASSUME RegInv, NEW s \in RegSlug, Looked(s),
         /\ regPurge'[s].step = "wait" =>
              /\ regPurge'[s].slot # NoSlot
              /\ \A c \in Writable(s) : regCaller[c].step = "insert" /\ regCaller[c].slot = regPurge'[s].slot
         /\ regPurge'[s].step = "fence" =>
              regPurge'[s].room # RegNone /\ Writable(s) \subseteq {regPurge'[s].room}
         /\ regPurge'[s].step # "drop"
  PROVE  RegInv'
<1> USE RegAssumption, NoSlotIsNoSlot
<1>t. RegTypeOK
  BY DEF RegInv
<1> DEFINE r == regPurge'[s].room
           k == regPurge'[s].slot
<1>1. /\ \A t \in RegSlug : t # s => regPurge'[t] = regPurge[t]
      /\ regPurge' \in [RegSlug -> RegPurges] /\ s \in regDeleting
      /\ k \in RegSlot \cup {NoSlot} /\ r \in RegCaller \cup {RegNone}
      /\ UNCHANGED <<regDeleting, regRooms, regLoading, regLoaded, regRoom, regCaller>>
  BY DEF Looked, RegPurges
<1>2. k # NoSlot => SlotSlug(k) = s /\ (SlotHeld(k) \/ k = regLoading[s])
  BY <1>t, ValuesAreTyped DEF Looked, RegInv, EverythingIsOfItsDocument, SlotHeld
<1>3. r # RegNone => SlugOf(r) = s /\ (Pinned(r) \/ regRooms[s] = r)
  <2>1. CASE r = RegNone
    BY <2>1
  <2>2. CASE r # RegNone /\ r \in {regPurge[s].room, regRooms[s]}
    BY <2>2 DEF RegInv, EverythingIsOfItsDocument, Pinned
  <2>3. CASE r # RegNone /\ regPurge[s].slot # NoSlot /\ r = regLoaded[regPurge[s].slot]
    <3>1. regPurge[s].slot \in RegSlot /\ SlotSlug(regPurge[s].slot) = s /\ SlotHeld(regPurge[s].slot)
      BY <2>3, <1>t, ValuesAreTyped DEF RegInv, EverythingIsOfItsDocument, SlotHeld
    <3>. QED  BY <2>3, <3>1 DEF RegInv, EverythingIsOfItsDocument, Pinned
  <2>. QED  BY <2>1, <2>2, <2>3 DEF Looked
<1>a. \A j \in RegSlot : SlotHeld(j)' => SlotHeld(j) \/ j = regLoading[s]
  BY <1>1, <1>2 DEF SlotHeld
<1>b. \A d \in RegCaller : Pinned(d)' => Pinned(d) \/ regRooms[s] = d
  BY <1>1, <1>3, <1>a DEF Pinned
<1>4. RegTypeOK'
  BY <1>1 DEF RegInv, RegTypeOK
<1>k. /\ \A d \in RegCaller : SlugOf(d)' = SlugOf(d)
      /\ \A j \in RegSlot : SlotSlug(j)' = SlotSlug(j)
  BY <1>1, SlugsKept
<1>5. EverythingIsOfItsDocument'
  BY <1>1, <1>2, <1>3, <1>k, <1>t, ValuesAreTyped DEF RegInv, EverythingIsOfItsDocument
<1>6. RoomsAreBuilt'
  <2>1. r # RegNone => regCaller[r].step \notin {"new", "admit", "reserve", "lock", "load", "insert"}
    BY <1>1, <1>t, ValuesAreTyped DEF RegInv, RoomsAreBuilt, OnlyBy, Looked
  <2>. QED  BY <1>1, <2>1 DEF RegInv, RoomsAreBuilt, OnlyBy
<1>7. SlotsAreMade'
  <2>1. \A j \in RegSlot : Nowhere(j) => Nowhere(j)'
    BY <1>1, <1>a DEF Nowhere
  <2>2. \A d \in RegCaller : <<d, "try_get">> \in RegSlot /\ <<d, "get">> \in RegSlot
    BY DEF RegSlot
  <2>. QED  BY <1>1, <2>1, <2>2 DEF RegInv, SlotsAreMade
<1>8. StepsAreSound'
  BY <1>1 DEF RegInv, StepsAreSound, Locking, SlugOf
<1>9. LoadsShareASlot'
  <2>1. \A j \in RegSlot : j = regLoading[s] => regLoading[SlotSlug(j)] = j
    BY DEF RegInv, EverythingIsOfItsDocument
  <2>. QED  BY <1>1, <1>a, <1>k, <2>1 DEF RegInv, LoadsShareASlot
<1>10. WritableIsCached'
  <2>1. \A d \in RegCaller : regRooms[s] = d => SlugOf(d) = s
    BY DEF RegInv, EverythingIsOfItsDocument
  <2>. QED  BY <1>1, <1>b, <1>k, <2>1 DEF RegInv, WritableIsCached
<1>11. PurgesAreSound'
  <2>1. \A d \in RegCaller : regRooms[s] = d => SlugOf(d) = s
    BY DEF RegInv, EverythingIsOfItsDocument
  <2>2. \A t \in RegSlug : Writable(t)' \subseteq Writable(t) /\ Writable(t) \subseteq RegCaller
    BY <1>1, <1>b, <1>k, <2>1 DEF Writable
  <2>. QED  BY <1>1, <2>2 DEF RegInv, PurgesAreSound
<1>12. RegDirtyIsSwept'
  BY <1>1 DEF RegInv, RegDirtyIsSwept
<1>. QED
  BY <1>4, <1>5, <1>6, <1>7, <1>8, <1>9, <1>10, <1>11, <1>12 DEF RegInv

\* The look itself keeps the invariant.
LEMMA PurgeLookKeeps ==
  ASSUME RegInv, NEW s \in RegSlug, RegPurgeLook(s)
  PROVE  RegInv'
<1> USE RegAssumption, NoSlotIsNoSlot
<1>t. RegTypeOK
  BY DEF RegInv
<1>1. /\ regPurge[s].step = "look" /\ s \in regDeleting
      /\ UNCHANGED <<regDeleting, regRooms, regLoading, regLoaded, regRoom, regCaller>>
  BY DEF RegPurgeLook, RegInv, PurgesAreSound
\* A room that is being inserted is loaded behind the slot in the map.
<1>2. ASSUME NEW c \in Writable(s), regRooms[s] # c
      PROVE  /\ regCaller[c].step = "insert" /\ regCaller[c].slot = regLoading[s]
             /\ regLoading[s] # NoSlot /\ regRooms[s] = RegNone
  <2>1. c \in RegCaller /\ SlugOf(c) = s /\ regCaller[c].step = "insert"
    BY <1>2 DEF Writable, RegInv, WritableIsCached
  <2> DEFINE k == regCaller[c].slot
  <2>2. k \in RegSlot /\ SlotHeld(k) /\ regLoaded[k] = RegNone /\ SlotSlug(k) = s
    BY <2>1, <1>t, ValuesAreTyped DEF RegInv, StepsAreSound, SlotHeld, EverythingIsOfItsDocument
  <2>3. regLoading[s] = k
    BY <2>2 DEF RegInv, LoadsShareASlot
  <2>. QED  BY <2>1, <2>2, <2>3 DEF RegInv, LoadsShareASlot
<1> DEFINE p == regPurge[s]
<1>3. p \in RegPurges /\ regPurge \in [RegSlug -> RegPurges]
  BY <1>t DEF RegTypeOK
<1>4. CASE regRooms[s] # RegNone
  <2> DEFINE b == [p EXCEPT !.step = "fence", !.room = regRooms[s]]
  <2>1. b \in RegPurges /\ b.step = "fence" /\ b.room = regRooms[s] /\ b.slot = p.slot
    BY <1>3, <1>t, ValuesAreTyped DEF RegPurges
  <2>2. regPurge' = [regPurge EXCEPT ![s] = b]
    BY <1>4 DEF RegPurgeLook
  <2> HIDE DEF b
  <2>3. regPurge'[s] = b /\ Looked(s)
    BY <1>1, <1>3, <2>1, <2>2 DEF Looked
  <2>4. Writable(s) \subseteq {regRooms[s]}
    BY <1>2, <1>4
  <2>. QED  BY <1>4, <2>1, <2>3, <2>4, LookedKeeps
<1>5. CASE regRooms[s] = RegNone /\ regLoading[s] # NoSlot
  <2> DEFINE b == [p EXCEPT !.step = "wait", !.slot = regLoading[s]]
  <2>1. b \in RegPurges /\ b.step = "wait" /\ b.slot = regLoading[s] /\ b.room = p.room
    BY <1>3, <1>t, ValuesAreTyped DEF RegPurges
  <2>2. regPurge' = [regPurge EXCEPT ![s] = b]
    BY <1>5 DEF RegPurgeLook, PurgeSlot
  <2> HIDE DEF b
  <2>3. regPurge'[s] = b /\ Looked(s)
    BY <1>1, <1>3, <2>1, <2>2 DEF Looked
  <2>4. \A c \in Writable(s) : regCaller[c].step = "insert" /\ regCaller[c].slot = regLoading[s]
    <3>1. Writable(s) \subseteq RegCaller
      BY DEF Writable
    <3>. QED  BY <1>2, <1>5, <3>1
  <2>. QED  BY <1>5, <2>1, <2>3, <2>4, LookedKeeps
<1>6. CASE regRooms[s] = RegNone /\ regLoading[s] = NoSlot
  <2> DEFINE b == [p EXCEPT !.step = "done"]
  <2>1. b \in RegPurges /\ b.step = "done" /\ b.slot = p.slot /\ b.room = p.room
    BY <1>3 DEF RegPurges
  <2>2. regPurge' = [regPurge EXCEPT ![s] = b]
    BY <1>6 DEF RegPurgeLook, PurgeSlot
  <2> HIDE DEF b
  <2>3. regPurge'[s] = b /\ Looked(s)
    BY <1>1, <1>3, <2>1, <2>2 DEF Looked
  <2>. QED  BY <2>1, <2>3, LookedKeeps
<1>. QED  BY <1>4, <1>5, <1>6

\* A purge that waited for a loading keeps the invariant.
LEMMA PurgeWaitKeeps ==
  ASSUME RegInv, NEW s \in RegSlug, RegPurgeWait(s)
  PROVE  RegInv'
<1> USE RegAssumption, NoSlotIsNoSlot
<1>t. RegTypeOK
  BY DEF RegInv
<1> DEFINE k == regPurge[s].slot
           r == regLoaded[k]
           b == [step |-> IF r = RegNone THEN "done" ELSE "fence", slot |-> NoSlot, room |-> r]
<1>1. /\ regPurge[s].step = "wait" /\ s \in regDeleting /\ k \in RegSlot /\ ~SlotLocked(k)
      /\ r \in RegCaller \cup {RegNone}
      /\ regPurge' = [regPurge EXCEPT ![s] = b]
      /\ UNCHANGED <<regDeleting, regRooms, regLoading, regLoaded, regRoom, regCaller>>
  BY <1>t, ValuesAreTyped DEF RegPurgeWait, RegInv, PurgesAreSound
<1>2. regPurge'[s] = b /\ Looked(s)
  <2>1. b \in RegPurges /\ regPurge \in [RegSlug -> RegPurges]
    BY <1>1, <1>t DEF RegPurges, RegTypeOK
  <2>. QED  BY <1>1, <2>1 DEF Looked
<1>3. Writable(s) \subseteq {r}
  <2>1. \A c \in Writable(s) :
          /\ c \in RegCaller
          /\ (regCaller[c].step = "insert" /\ regCaller[c].slot = k) \/ r = c
    BY <1>1 DEF RegInv, PurgesAreSound, Writable
  <2>. QED  BY <1>1, <2>1 DEF SlotLocked
<1>. QED  BY <1>2, <1>3, LookedKeeps

\* A purge that drops the fenced room from the registry keeps the invariant.
LEMMA PurgeDropKeeps ==
  ASSUME RegInv, NEW s \in RegSlug, RegPurgeDrop(s)
  PROVE  RegInv'
<1> USE RegAssumption, NoSlotIsNoSlot
<1>t. RegTypeOK
  BY DEF RegInv
<1>1. /\ regPurge[s].step = "drop" /\ Writable(s) = {}
      /\ regRooms' = Without({s})
      /\ regPurge' = [regPurge EXCEPT ![s] = [step |-> "done", slot |-> NoSlot, room |-> RegNone]]
      /\ UNCHANGED <<regDeleting, regLoading, regLoaded, regRoom, regCaller>>
  BY DEF RegPurgeDrop, RegInv, PurgesAreSound
<1>2. /\ \A t \in RegSlug : t # s => regPurge'[t] = regPurge[t] /\ regRooms'[t] = regRooms[t]
      /\ regRooms'[s] = RegNone
      /\ regPurge'[s] = [step |-> "done", slot |-> NoSlot, room |-> RegNone]
  BY <1>1, <1>t DEF Without, RegTypeOK
<1>c. \A t \in RegSlug : /\ regRooms'[t] \in {regRooms[t], RegNone}
                         /\ regPurge'[t].room \in {regPurge[t].room, RegNone}
                         /\ regPurge'[t].slot \in {regPurge[t].slot, NoSlot}
  BY <1>2
<1>a. \A k \in RegSlot : SlotHeld(k)' => SlotHeld(k)
  BY <1>1, <1>2 DEF SlotHeld
<1>b. \A r \in RegCaller : Pinned(r)' => Pinned(r)
  BY <1>1, <1>2, <1>a DEF Pinned
<1>k. /\ \A d \in RegCaller : SlugOf(d)' = SlugOf(d)
      /\ \A j \in RegSlot : SlotSlug(j)' = SlotSlug(j)
  BY <1>1, SlugsKept
<1>3. RegTypeOK'
  BY <1>1, <1>t DEF RegTypeOK, RegPurges, Without
<1>4. EverythingIsOfItsDocument'
  <2>1. \A t \in RegSlug :
       /\ regRooms'[t] # RegNone => SlugOf(regRooms'[t]) = t /\ regRooms'[t] \in RegCaller
       /\ regPurge'[t].room # RegNone => SlugOf(regPurge'[t].room) = t /\ regPurge'[t].room \in RegCaller
       /\ regPurge'[t].slot # NoSlot => SlotSlug(regPurge'[t].slot) = t /\ regPurge'[t].slot \in RegSlot
    BY <1>c, <1>t, ValuesAreTyped DEF RegInv, EverythingIsOfItsDocument
  <2>2. \A t \in RegSlug :
       /\ regRooms'[t] # RegNone => SlugOf(regRooms[t])' = t
       /\ regLoading'[t] # NoSlot => SlotSlug(regLoading[t])' = t
       /\ regPurge'[t].room # RegNone => SlugOf(regPurge[t].room)' = t
       /\ regPurge'[t].slot # NoSlot => SlotSlug(regPurge[t].slot)' = t
    BY <1>1, <1>k, <1>t, <2>1, ValuesAreTyped DEF RegInv, EverythingIsOfItsDocument
  <2>3. \A j \in RegSlot : regLoaded'[j] # RegNone => SlugOf(regLoaded[j])' = SlotSlug(j)'
    BY <1>1, <1>k, <1>t, ValuesAreTyped DEF RegInv, EverythingIsOfItsDocument
  <2>4. \A d \in RegCaller :
       /\ regCaller'[d].step # "new" => SlugOf(d)' \in RegSlug
       /\ regCaller'[d].room # RegNone => SlugOf(regCaller[d].room)' = SlugOf(d)'
       /\ regCaller'[d].pin # NoSlot => SlotSlug(regCaller[d].pin)' = SlugOf(d)'
       /\ regCaller'[d].slot # NoSlot => SlotSlug(regCaller[d].slot)' = SlugOf(d)'
    BY <1>1, <1>k, <1>t, ValuesAreTyped DEF RegInv, EverythingIsOfItsDocument
  <2>. QED  BY <2>2, <2>3, <2>4 DEF EverythingIsOfItsDocument
<1>5. RoomsAreBuilt'
  <2>1. \A d \in RegCaller :
          (OnlyBy({}, d) => OnlyBy({}, d)') /\ (OnlyBy({d}, d) => OnlyBy({d}, d)')
    <3>1. \A d \in RegCaller : d # RegNone
      BY DEF RegAssumption
    <3>. QED  BY <1>1, <1>c, <3>1 DEF OnlyBy
  <2>2. \A d \in RegCaller : /\ regCaller'[d].step = regCaller[d].step
                             /\ regRoom'[d].dirty = regRoom[d].dirty
    BY <1>1
  <2>. QED  BY <2>1, <2>2 DEF RegInv, RoomsAreBuilt
<1>6. SlotsAreMade'
  <2>1. \A j \in RegSlot : Nowhere(j) => Nowhere(j)'
    BY <1>1, <1>a DEF Nowhere
  <2>2. \A d \in RegCaller : <<d, "try_get">> \in RegSlot /\ <<d, "get">> \in RegSlot
    BY DEF RegSlot
  <2>. QED  BY <1>1, <2>1, <2>2 DEF RegInv, SlotsAreMade
<1>7. StepsAreSound'
  BY <1>1 DEF RegInv, StepsAreSound, Locking, SlugOf
<1>8. LoadsShareASlot'
  BY <1>1, <1>2, <1>a, <1>k DEF RegInv, LoadsShareASlot
<1>9. WritableIsCached'
  <2>1. ASSUME NEW d \in RegCaller, Pinned(d), ~regRoom[d].fenced
        PROVE  regRooms'[SlugOf(d)] = d \/ regCaller[d].step = "insert"
    <3>1. SlugOf(d) \in RegSlug /\ SlugOf(d) # s
      BY <1>1, <2>1, PinnedRooms DEF Writable
    <3>. QED  BY <1>2, <2>1, <3>1 DEF RegInv, WritableIsCached
  <2>. QED  BY <1>1, <1>b, <1>k, <2>1 DEF WritableIsCached
<1>10. PurgesAreSound'
  <2>1. \A t \in RegSlug : Writable(t)' \subseteq Writable(t) /\ Writable(t) \subseteq RegCaller
    BY <1>1, <1>2, <1>b, <1>k DEF Writable
  <2>. QED  BY <1>1, <1>2, <2>1 DEF RegInv, PurgesAreSound
<1>11. RegDirtyIsSwept'
  <2>1. ASSUME NEW t \in RegSlug, NEW d \in RegCaller, regCaller[d].slug = t, regRoom[d].dirty, ~regRoom[d].fenced
        PROVE  regRooms'[t] = d
    <3>1. regRooms[t] = d /\ d \in Writable(t)
      BY <2>1 DEF RegInv, RegDirtyIsSwept, Writable, SlugOf
    <3>. QED  BY <1>1, <1>2, <3>1
  <2>. QED  BY <1>1, <2>1 DEF RegDirtyIsSwept
<1>. QED
  BY <1>3, <1>4, <1>5, <1>6, <1>7, <1>8, <1>9, <1>10, <1>11 DEF RegInv
---------------------------------------------------------------------------
\* Every step keeps the invariant.
THEOREM NextRegInv == RegInv /\ [RegNext]_regVars => RegInv'
<1> SUFFICES ASSUME RegInv, [RegNext]_regVars PROVE RegInv'
  OBVIOUS
<1>1. ASSUME NEW c \in RegCaller, NEW s \in RegSlug, NEW strict \in BOOLEAN, RegOpen(c, s, strict)
      PROVE  RegInv'
  BY <1>1, OpenKeeps
<1>2. ASSUME NEW c \in RegCaller, RegAdmit(c) \/ RegReserve(c) \/ RegLock(c)  PROVE RegInv'
  BY <1>2, AdmitKeeps, ReserveKeeps, LockKeeps
<1>3. ASSUME NEW c \in RegCaller, RegLoad(c) \/ RegInsert(c) \/ RegPublish(c)  PROVE RegInv'
  BY <1>3, LoadKeeps, InsertKeeps, PublishKeeps
<1>4. ASSUME NEW c \in RegCaller, RegCheck(c) \/ RegEdit(c) \/ RegLeave(c)  PROVE RegInv'
  BY <1>4, CheckKeeps, EditKeeps, LeaveKeeps
<1>5. ASSUME NEW s \in RegSlug, RegTick(s) \/ RegTrim(s)  PROVE RegInv'
  <2>1. CASE RegTick(s)
    BY <2>1, TickKeeps
  <2>2. CASE RegTrim(s)
    <3>1. regRooms[s] \in RegCaller
      BY <2>2, ValuesAreTyped DEF RegTrim, RegIdle, RegInv
    <3>2. PICK c \in RegCaller : c = regRooms[s]
      BY <3>1
    <3>. QED  BY <2>2, <3>2, TrimKeeps
  <2>. QED  BY <1>5, <2>1, <2>2
<1>6. ASSUME NEW s \in RegSlug, RegBeginDelete(s) \/ RegPurgeLook(s) \/ RegPurgeWait(s)  PROVE RegInv'
  BY <1>6, BeginDeleteKeeps, PurgeLookKeeps, PurgeWaitKeeps
<1>7. ASSUME NEW s \in RegSlug, RegPurgeFence(s) \/ RegPurgeDrop(s)  PROVE RegInv'
  BY <1>7, PurgeFenceKeeps, PurgeDropKeeps
<1>8. CASE UNCHANGED regVars
  <2>. USE <1>8 DEF regVars
  <2>1. \A k \in RegSlot : SlotHeld(k)' = SlotHeld(k)
    BY DEF SlotHeld
  <2>2. \A d \in RegCaller : Pinned(d)' = Pinned(d)
    BY <2>1 DEF Pinned
  <2>3. \A t \in RegSlug : Writable(t)' = Writable(t)
    BY <2>2 DEF Writable, SlugOf
  <2>4. RegTypeOK' /\ PurgesAreSound'
    BY <2>3 DEF RegInv, RegTypeOK, PurgesAreSound
  <2>. QED  BY <2>4, RoomsChange
<1>. QED  BY <1>1, <1>2, <1>3, <1>4, <1>5, <1>6, <1>7, <1>8 DEF RegNext

\* The inductive invariant: who holds the registry's entry, its loading slot and
\* its guards, and which room of a document may still be written.
THEOREM RegistryInvariant == RegSpec => []RegInv
<1>. QED  BY InitRegInv, NextRegInv, PTL DEF RegSpec

\* One document has one writable room, and the sweeper visits it while it has
\* edits to write: of two rooms that somebody has, each is the one in the map,
\* or is being inserted behind the one slot of the document.
LEMMA OneIsWritable ==
  ASSUME RegInv, NEW s \in RegSlug, NEW c \in Made(s), NEW d \in Made(s),
         ~regRoom[c].fenced, ~regRoom[d].fenced
  PROVE  c = d
<1> USE RegAssumption, NoSlotIsNoSlot
<1>t. RegTypeOK
  BY DEF RegInv
<1>1. ASSUME NEW e \in Made(s), ~regRoom[e].fenced
      PROVE  \/ regRooms[s] = e
             \/ regCaller[e].step = "insert" /\ regRooms[s] = RegNone /\ regLoading[s] = regCaller[e].slot
  <2>1. e \in RegCaller /\ SlugOf(e) = s /\ (regRooms[s] = e \/ Pinned(e))
    BY <1>1 DEF Made, SlugOf, Pinned
  <2>2. CASE regRooms[s] = e
    BY <2>2
  <2>3. CASE regRooms[s] # e
    <3>1. regCaller[e].step = "insert"
      BY <1>1, <2>1, <2>3 DEF RegInv, WritableIsCached
    <3> DEFINE k == regCaller[e].slot
    <3>2. k \in RegSlot /\ SlotHeld(k) /\ regLoaded[k] = RegNone /\ SlotSlug(k) = s
      BY <2>1, <3>1, <1>t, ValuesAreTyped DEF RegInv, StepsAreSound, SlotHeld, EverythingIsOfItsDocument
    <3>3. regLoading[s] = k
      BY <3>2 DEF RegInv, LoadsShareASlot
    <3>. QED  BY <3>1, <3>2, <3>3 DEF RegInv, LoadsShareASlot
  <2>. QED  BY <2>2, <2>3
<1>2. c \in RegCaller /\ d \in RegCaller
  BY DEF Made
<1>3. CASE regRooms[s] = RegNone
  <2>1. regCaller[c].step = "insert" /\ regCaller[d].step = "insert"
        /\ regCaller[c].slot = regCaller[d].slot
    BY <1>1, <1>2, <1>3
  <2>. QED  BY <1>2, <2>1 DEF RegInv, StepsAreSound, Locking
<1>4. CASE regRooms[s] # RegNone
  BY <1>1, <1>4
<1>. QED  BY <1>3, <1>4

\* A set without two different elements has at most one.
LEMMA AtMostOne ==
  ASSUME NEW S, \A x, y \in S : x = y
  PROVE  Cardinality(S) <= 1
<1>1. CASE S = {}
  BY <1>1, FS_EmptySet
<1>2. CASE S # {}
  <2>1. PICK x \in S : S = {x}
    BY <1>2
  <2>. QED  BY <2>1, FS_Singleton
<1>. QED  BY <1>1, <1>2

\* For every set of documents and of callers and every limit on rooms, one
\* document has at most one room that can still be written, and it is the one
\* the sweeper visits while it has edits to write (room/mod.rs, RoomSet).
THEOREM OneWritableRoom == RegSpec => []RegSingleWriter
<1>1. RegInv => RegSingleWriter
  <2> SUFFICES ASSUME RegInv PROVE RegSingleWriter
    OBVIOUS
  <2>1. ASSUME NEW s \in RegSlug
        PROVE  Cardinality({c \in Made(s) : ~regRoom[c].fenced}) <= 1
    <3>1. \A c, d \in {e \in Made(s) : ~regRoom[e].fenced} : c = d
      BY OneIsWritable
    <3>. QED  BY <3>1, AtMostOne
  <2>. QED  BY <2>1 DEF RegInv, RegSingleWriter
<1>. QED  BY <1>1, RegistryInvariant, PTL

---------------------------------------------------------------------------
(***************************************************************************)
(* A request to the assistant on its way through the browser, the channel  *)
(* and the runner (ChatAsksSurvive).  The runner reports a task only after *)
(* the report is on disk, so every frame on the way to the browser says    *)
(* what is on disk or refuses a request; a refusal is handed out only      *)
(* while nothing was reported on the request, and the queues keep it       *)
(* before the reports that follow.                                         *)
(***************************************************************************)

\* The ledger's rows and the frames of each connection.
ChatStatuses == {"none", "queued", "working", "completed", "failed", "cancelled", "interrupted"}
TaskRows == [status : ChatStatuses, seq : Nat]
TaskFrames == [kind : {"task"}, task : Ask, status : ChatStatuses, seq : Nat]
Requests == [kind : {"message", "cancel"}, task : Ask]
Notices == [kind : {"presence", "ready"}, other : BOOLEAN]
ToAgent == Requests \cup Notices
ToBrowser == [kind : {"error"}, task : Ask] \cup Notices \cup TaskFrames

\* The frames of a queue.
Frames(q) == {q[i] : i \in 1 .. Len(q)}
\* A report without a sequence refuses the request; every other one is of a task.
IsRefusal(f, m) == f.kind = "task" /\ f.task = m /\ f.seq = 0
IsReport(f, m) == f.kind = "task" /\ f.task = m /\ f.seq > 0
\* In a queue the refusals of a request come before the reports on it.
RefusedFirst(q) ==
  \A m \in Ask : \A i, j \in 1 .. Len(q) : IsRefusal(q[i], m) /\ IsReport(q[j], m) => i < j

\* The type of what the browser and the runner keep, and of the queues.
ChatTypes ==
  /\ chAsked \in [Ask -> {"none", "sent", "uncertain", "done"}]
  /\ chShown \in [Ask -> TaskRows] /\ chTask \in [Ask -> TaskRows] /\ chDisk \in [Ask -> TaskRows]
  /\ chStarted \in [Ask -> Nat]
  /\ chUp \in {"off", "on", "stopping"}
  /\ chActive \in [task : Ask \cup {NoFrame}, phase : {"idle", "starting", "turn"}]
  /\ chActive = Idle <=> chActive.phase = "idle"
  /\ chActive.phase # "idle" => chActive.task \in Ask
  /\ chSaid \subseteq TaskFrames
QueueTypes ==
  /\ chWire \in Seq(Requests) /\ chToAgent \in Seq(ToAgent) /\ chToBrowser \in Seq(ToBrowser)
  /\ chOut \in Seq(TaskFrames) /\ chPending \in TaskFrames \cup {NoFrame}
  /\ chReady \in [{"user", "agent"} -> BOOLEAN]

\* A task that is over: only a turn that was told to stop may still end.
IsOver(m) == chDisk[m].status \in Finished /\ (chActive.task = m => chUp = "stopping")

\* What the runner has in memory is what it has on disk.
LedgerIsSound ==
  /\ chUp = "off" => chActive = Idle /\ chLink = "off"
  /\ chUp # "off" => chTask = chDisk
  /\ chActive.phase = "starting" => chUp = "on"
\* The turns of a task.
TurnsAreSound(m) ==
  /\ chStarted[m] \in {0, 1}
  /\ chDisk[m].status \in {"none", "queued"} => chStarted[m] = 0 /\ chActive.task # m
  /\ chActive.task = m =>
       /\ chActive.phase = "starting" => chStarted[m] = 0
       /\ chUp = "on" => chDisk[m].status = "working"
\* What a report says is on disk.
SaidIsKept(f) ==
  /\ f.seq > 0 /\ f.seq <= chDisk[f.task].seq
  /\ chDisk[f.task].status # "none"
  /\ f.status \in Finished => IsOver(f.task)
SaidOnce == \A f, g \in chSaid : f.task = g.task /\ f.seq = g.seq => f = g
\* What is on the way to the browser is a report that was handed out, or the
\* refusal of a request on which no report was shown.
OnTheWay == Frames(chOut) \cup {chPending} \cup Frames(chToBrowser)
WayIsSound ==
  \A f \in OnTheWay : f.kind = "task" =>
    IF f.seq > 0 THEN f \in chSaid ELSE f.status = "failed" /\ chShown[f.task].seq = 0
\* No report overtakes a refusal of the same request.
OrderIsSound ==
  /\ RefusedFirst(chToBrowser) /\ RefusedFirst(chOut)
  /\ \A m \in Ask :
       /\ IsRefusal(chPending, m) => \A f \in Frames(chToBrowser) : ~IsReport(f, m)
       /\ (\E f \in Frames(chOut) : IsRefusal(f, m)) =>
            \A f \in {chPending} \cup Frames(chToBrowser) : ~IsReport(f, m)
\* What the browser shows.
ShownIsKept(m) ==
  /\ chShown[m].seq > 0 => chDisk[m].status # "none"
  /\ chShown[m].seq > 0 /\ chShown[m].status \in Finished => IsOver(m)
  /\ chAsked[m] = "done" => chDisk[m].status # "none" \/ chShown[m] = [status |-> "failed", seq |-> 0]

\* The inductive invariant.
ChatInv ==
  /\ ChatTypes /\ QueueTypes /\ LedgerIsSound
  /\ \A m \in Ask : TurnsAreSound(m) /\ ShownIsKept(m)
  /\ \A f \in chSaid : SaidIsKept(f)
  /\ SaidOnce /\ WayIsSound /\ OrderIsSound

\* The frames of a queue that is appended to, read, or joined with another.
LEMMA FramesChange ==
  ASSUME NEW S, NEW q \in Seq(S)
  PROVE  /\ Frames(q) \subseteq S
         /\ \A x \in S : Append(q, x) \in Seq(S) /\ Frames(Append(q, x)) = Frames(q) \cup {x}
         /\ q # <<>> => /\ Head(q) \in Frames(q) /\ Tail(q) \in Seq(S)
                        /\ Frames(Tail(q)) \subseteq Frames(q)
         /\ \A s \in Seq(S) : q \o s \in Seq(S) /\ Frames(q \o s) = Frames(q) \cup Frames(s)
         /\ <<>> \in Seq(S) /\ Frames(<<>>) = {}
<1>1. Frames(q) \subseteq S
  BY DEF Frames
<1>2. ASSUME NEW x \in S PROVE Append(q, x) \in Seq(S) /\ Frames(Append(q, x)) = Frames(q) \cup {x}
  <2>1. Append(q, x) \in Seq(S) /\ Len(Append(q, x)) = Len(q) + 1 /\ Append(q, x)[Len(q) + 1] = x
        /\ \A i \in 1 .. Len(q) : Append(q, x)[i] = q[i]
    OBVIOUS
  <2>2. Len(q) \in Nat /\ 1 .. Len(q) + 1 = 1 .. Len(q) \cup {Len(q) + 1}
    OBVIOUS
  <2> QED BY <2>1, <2>2 DEF Frames
<1>3. q # <<>> => Head(q) \in Frames(q) /\ Tail(q) \in Seq(S) /\ Frames(Tail(q)) \subseteq Frames(q)
  <2> SUFFICES ASSUME q # <<>> PROVE Head(q) \in Frames(q) /\ Tail(q) \in Seq(S) /\ Frames(Tail(q)) \subseteq Frames(q)
    OBVIOUS
  <2>1. Len(q) \in Nat \ {0} /\ Tail(q) \in Seq(S) /\ Len(Tail(q)) = Len(q) - 1 /\ Head(q) = q[1]
        /\ \A i \in 1 .. Len(q) - 1 : Tail(q)[i] = q[i + 1] /\ i + 1 \in 1 .. Len(q)
    OBVIOUS
  <2> QED BY <2>1 DEF Frames
<1>4. ASSUME NEW s \in Seq(S) PROVE q \o s \in Seq(S) /\ Frames(q \o s) = Frames(q) \cup Frames(s)
  <2>1. /\ q \o s \in Seq(S) /\ Len(q \o s) = Len(q) + Len(s) /\ Len(q) \in Nat /\ Len(s) \in Nat
        /\ \A i \in 1 .. Len(q) : (q \o s)[i] = q[i] /\ i \in 1 .. Len(q) + Len(s)
        /\ \A i \in 1 .. Len(s) : (q \o s)[Len(q) + i] = s[i] /\ Len(q) + i \in 1 .. Len(q) + Len(s)
    OBVIOUS
  <2>2. ASSUME NEW i \in 1 .. Len(q) + Len(s) PROVE i \in 1 .. Len(q) \/ \E j \in 1 .. Len(s) : i = Len(q) + j
    <3>1. CASE i <= Len(q)
      BY <3>1
    <3>2. CASE i > Len(q)
      <4>1. i - Len(q) \in 1 .. Len(s) /\ i = Len(q) + (i - Len(q))
        BY <3>2, <2>1
      <4> QED BY <4>1
    <3> QED BY <3>1, <3>2, <2>1
  <2>3. Frames(q \o s) \subseteq Frames(q) \cup Frames(s)
    BY <2>1, <2>2 DEF Frames
  <2>4. \A i \in 1 .. Len(q) : q[i] \in Frames(q \o s)
    <3> TAKE i \in 1 .. Len(q)
    <3>1. i \in 1 .. Len(q \o s) /\ (q \o s)[i] = q[i]
      BY <2>1
    <3> QED BY <3>1 DEF Frames
  <2>5. \A i \in 1 .. Len(s) : s[i] \in Frames(q \o s)
    <3> TAKE i \in 1 .. Len(s)
    <3>1. Len(q) + i \in 1 .. Len(q \o s) /\ (q \o s)[Len(q) + i] = s[i]
      BY <2>1
    <3> QED BY <3>1 DEF Frames
  <2>6. Frames(q) \cup Frames(s) \subseteq Frames(q \o s)
    BY <2>4, <2>5 DEF Frames
  <2> QED BY <2>1, <2>3, <2>6
<1>5. <<>> \in Seq(S) /\ Frames(<<>>) = {}
  BY DEF Frames
<1> QED BY <1>1, <1>2, <1>3, <1>4, <1>5

\* The same changes keep the refusals first, and so does a report at the head.
LEMMA OrderChanges ==
  ASSUME NEW S, NEW q \in Seq(S), RefusedFirst(q)
  PROVE  /\ \A x \in S : (\A m \in Ask : IsRefusal(x, m) => \A f \in Frames(q) : ~IsReport(f, m))
                            => RefusedFirst(Append(q, x))
         /\ q # <<>> => RefusedFirst(Tail(q))
         /\ \A s \in Seq(S) : (\A m \in Ask : \A f \in Frames(s) : ~IsRefusal(f, m)) => RefusedFirst(q \o s)
         /\ q # <<>> => \A m \in Ask : IsReport(Head(q), m) => \A f \in Frames(q) : ~IsRefusal(f, m)
         /\ RefusedFirst(<<>>)
<1>1. ASSUME NEW x \in S, \A m \in Ask : IsRefusal(x, m) => \A f \in Frames(q) : ~IsReport(f, m),
             NEW m \in Ask, NEW i \in 1 .. Len(Append(q, x)), NEW j \in 1 .. Len(Append(q, x)),
             IsRefusal(Append(q, x)[i], m), IsReport(Append(q, x)[j], m)
      PROVE  i < j
  <2>1. Len(q) \in Nat /\ Len(Append(q, x)) = Len(q) + 1 /\ Append(q, x)[Len(q) + 1] = x
        /\ \A k \in 1 .. Len(q) : Append(q, x)[k] = q[k] /\ q[k] \in Frames(q)
    BY DEF Frames
  <2>2. ~(IsRefusal(x, m) /\ IsReport(x, m))
    BY DEF IsRefusal, IsReport
  <2>3. CASE i = Len(q) + 1
    <3>1. IsRefusal(x, m)
      BY <1>1, <2>1, <2>3
    <3>2. CASE j = Len(q) + 1
      BY <1>1, <2>1, <2>2, <2>3, <3>1, <3>2
    <3>3. CASE j # Len(q) + 1
      <4>1. j \in 1 .. Len(q)
        BY <2>1, <3>3
      <4> QED BY <1>1, <2>1, <3>1, <4>1
    <3> QED BY <3>2, <3>3
  <2>4. CASE i # Len(q) + 1
    <3>1. i \in 1 .. Len(q) /\ IsRefusal(q[i], m)
      BY <1>1, <2>1, <2>4
    <3>2. CASE j = Len(q) + 1
      BY <2>1, <3>1, <3>2
    <3>3. CASE j # Len(q) + 1
      <4>1. j \in 1 .. Len(q) /\ IsReport(q[j], m)
        BY <1>1, <2>1, <3>3
      <4> QED BY <3>1, <4>1 DEF RefusedFirst
    <3> QED BY <3>2, <3>3
  <2> QED BY <2>3, <2>4
<1>2. ASSUME q # <<>>, NEW m \in Ask, NEW i \in 1 .. Len(Tail(q)), NEW j \in 1 .. Len(Tail(q)),
             IsRefusal(Tail(q)[i], m), IsReport(Tail(q)[j], m)
      PROVE  i < j
  <2>1. Len(q) \in Nat \ {0} /\ Len(Tail(q)) = Len(q) - 1
        /\ \A k \in 1 .. Len(q) - 1 : Tail(q)[k] = q[k + 1] /\ k + 1 \in 1 .. Len(q)
    BY <1>2
  <2>2. i + 1 \in 1 .. Len(q) /\ j + 1 \in 1 .. Len(q) /\ IsRefusal(q[i + 1], m) /\ IsReport(q[j + 1], m)
    BY <1>2, <2>1
  <2>3. i + 1 < j + 1
    BY <2>2 DEF RefusedFirst
  <2> QED BY <2>1, <2>3
<1>3. ASSUME NEW s \in Seq(S), \A m \in Ask : \A f \in Frames(s) : ~IsRefusal(f, m),
             NEW m \in Ask, NEW i \in 1 .. Len(q \o s), NEW j \in 1 .. Len(q \o s),
             IsRefusal((q \o s)[i], m), IsReport((q \o s)[j], m)
      PROVE  i < j
  <2>1. Len(q \o s) = Len(q) + Len(s) /\ Len(q) \in Nat /\ Len(s) \in Nat
        /\ \A k \in 1 .. Len(q) : (q \o s)[k] = q[k]
    OBVIOUS
  <2>2. i <= Len(q)
    <3> SUFFICES ASSUME i > Len(q) PROVE FALSE
      BY <2>1
    <3>1. i - Len(q) \in 1 .. Len(s) /\ i = Len(q) + (i - Len(q))
      BY <2>1
    <3>2. PICK k \in 1 .. Len(s) : i = Len(q) + k
      BY <3>1
    <3>5. s[k] \in Frames(s)
      BY DEF Frames
    <3>3. (q \o s)[Len(q) + k] = s[k]
      OBVIOUS
    <3>4. (q \o s)[i] = s[k]
      BY <3>2, <3>3
    <3> QED BY <1>3, <3>5, <3>4
  <2>3. CASE j <= Len(q)
    BY <1>3, <2>1, <2>2, <2>3 DEF RefusedFirst
  <2>4. CASE j > Len(q)
    BY <2>1, <2>2, <2>4
  <2> QED BY <2>1, <2>3, <2>4
<1>4. ASSUME q # <<>>, NEW m \in Ask, IsReport(Head(q), m), NEW f \in Frames(q) PROVE ~IsRefusal(f, m)
  <2>1. PICK i \in 1 .. Len(q) : f = q[i]
    BY DEF Frames
  <2>2. 1 \in 1 .. Len(q) /\ Head(q) = q[1] /\ Len(q) \in Nat
    BY <1>4
  <2>3. ~(i < 1)
    BY <2>2
  <2> QED BY <1>4, <2>1, <2>2, <2>3 DEF RefusedFirst
<1>5. RefusedFirst(<<>>)
  BY DEF RefusedFirst
<1>6. ASSUME NEW x \in S, \A m \in Ask : IsRefusal(x, m) => \A f \in Frames(q) : ~IsReport(f, m)
      PROVE  RefusedFirst(Append(q, x))
  BY <1>1, <1>6 DEF RefusedFirst
<1>7. q # <<>> => RefusedFirst(Tail(q))
  BY <1>2 DEF RefusedFirst
<1>8. ASSUME NEW s \in Seq(S), \A m \in Ask : \A f \in Frames(s) : ~IsRefusal(f, m) PROVE RefusedFirst(q \o s)
  BY <1>3, <1>8 DEF RefusedFirst
<1> QED BY <1>4, <1>5, <1>6, <1>7, <1>8

\* A finite set put in some order.
LEMMA SetAsSequence ==
  ASSUME NEW S, IsFiniteSet(S)
  PROVE  SetToSeq(S) \in Seq(S) /\ Frames(SetToSeq(S)) = S
<1>1. Cardinality(S) \in Nat /\ ExistsBijection(1 .. Cardinality(S), S)
  BY FS_CardinalityType
<1>2. PICK f \in Bijection(1 .. Cardinality(S), S) : TRUE
  BY <1>1 DEF ExistsBijection
<1>3. f \in [1 .. Cardinality(S) -> S] /\ IsInjective(f)
  BY <1>2 DEF Bijection, Injection, IsInjective, Surjection
<1>4. SetToSeq(S) \in [1 .. Cardinality(S) -> S] /\ IsInjective(SetToSeq(S))
  BY <1>3 DEF SetToSeq
<1>5. SetToSeq(S) \in Seq(S) /\ Len(SetToSeq(S)) = Cardinality(S)
  BY <1>1, <1>4
<1>6. SetToSeq(S) \in Injection(1 .. Cardinality(S), S)
  BY <1>4 DEF Injection, IsInjective
<1>7. Frames(SetToSeq(S)) = S
  <2>1. PICK g \in [1 .. Cardinality(S) -> S] : g = SetToSeq(S) /\ g \in Injection(1 .. Cardinality(S), S)
    BY <1>4, <1>6
  <2>2. PICK T \in SUBSET S : T = {g[i] : i \in 1 .. Cardinality(S)}
    OBVIOUS
  <2>3. g \in Surjection(1 .. Cardinality(S), T) /\ g \in Injection(1 .. Cardinality(S), T)
    BY <2>1, <2>2 DEF Surjection, Injection, IsInjective
  <2>4. IsFiniteSet(1 .. Cardinality(S)) /\ Cardinality(1 .. Cardinality(S)) = Cardinality(S)
    BY <1>1, FS_Interval
  <2>5. Cardinality(T) = Cardinality(S)
    BY <2>3, <2>4, FS_Surjection
  <2>6. T = S
    BY <2>5, FS_Subset
  <2> QED BY <1>5, <2>1, <2>2, <2>6 DEF Frames
<1> QED BY <1>5, <1>7

\* What a frame of each kind is made of.
LEMMA FrameFields ==
  /\ \A f \in TaskFrames : /\ f.kind = "task" /\ f.task \in Ask /\ f.status \in ChatStatuses /\ f.seq \in Nat
                           /\ f \in ToBrowser /\ f # NoFrame
  /\ \A m \in Ask, status \in ChatStatuses, n \in Nat :
       /\ [kind |-> "task", task |-> m, status |-> status, seq |-> n] \in TaskFrames
       /\ [kind |-> "task", task |-> m, status |-> status, seq |-> n].task = m
       /\ [kind |-> "task", task |-> m, status |-> status, seq |-> n].status = status
       /\ [kind |-> "task", task |-> m, status |-> status, seq |-> n].seq = n
  /\ \A f \in ToBrowser : f.kind = "task" => f \in TaskFrames
  /\ \A f \in ToBrowser : f.kind = "error" => f.task \in Ask
  /\ \A f \in ToAgent : f.kind \in {"message", "cancel"} => f.task \in Ask
  /\ \A f \in ToAgent : f.kind \in {"presence", "ready"} => f.other \in BOOLEAN
  /\ \A f \in Requests : f.kind \in {"message", "cancel"} /\ f.task \in Ask /\ f \in ToAgent
  /\ NoFrame.kind = "none"
  /\ \A m \in Ask : [kind |-> "error", task |-> m] \in ToBrowser /\ [kind |-> "error", task |-> m].kind = "error"
  /\ \A m \in Ask : Message(m) \in Requests /\ [kind |-> "cancel", task |-> m] \in Requests
  /\ \A b \in BOOLEAN, k \in {"presence", "ready"} :
       /\ [kind |-> k, other |-> b] \in ToBrowser /\ [kind |-> k, other |-> b] \in ToAgent
       /\ [kind |-> k, other |-> b].kind = k
<1>1. \A f \in TaskFrames : f.kind = "task" /\ f.task \in Ask /\ f.status \in ChatStatuses /\ f.seq \in Nat
  BY DEF TaskFrames
<1>2. \A f \in TaskFrames : f \in ToBrowser
  BY DEF ToBrowser
<1>3. NoFrame.kind = "none"
  BY DEF NoFrame
<1>4. \A m \in Ask, status \in ChatStatuses, n \in Nat :
       /\ [kind |-> "task", task |-> m, status |-> status, seq |-> n] \in TaskFrames
       /\ [kind |-> "task", task |-> m, status |-> status, seq |-> n].task = m
       /\ [kind |-> "task", task |-> m, status |-> status, seq |-> n].status = status
       /\ [kind |-> "task", task |-> m, status |-> status, seq |-> n].seq = n
  BY DEF TaskFrames
<1>5. \A f \in ToBrowser : (f.kind = "task" => f \in TaskFrames) /\ (f.kind = "error" => f.task \in Ask)
  BY <1>1 DEF ToBrowser, Notices
<1>6. \A f \in ToAgent : f.kind \in {"message", "cancel"} => f.task \in Ask
  BY DEF ToAgent, Requests, Notices
<1>10. \A f \in ToAgent : f.kind \in {"presence", "ready"} => f.other \in BOOLEAN
  BY DEF ToAgent, Requests, Notices
<1>7. \A f \in Requests : f.kind \in {"message", "cancel"} /\ f.task \in Ask /\ f \in ToAgent
  BY DEF ToAgent, Requests
<1>8. /\ \A m \in Ask : [kind |-> "error", task |-> m] \in ToBrowser /\ [kind |-> "error", task |-> m].kind = "error"
      /\ \A m \in Ask : Message(m) \in Requests /\ [kind |-> "cancel", task |-> m] \in Requests
  BY DEF Message, Requests, ToBrowser
<1>9. \A b \in BOOLEAN, k \in {"presence", "ready"} :
       /\ [kind |-> k, other |-> b] \in ToBrowser /\ [kind |-> k, other |-> b] \in ToAgent
       /\ [kind |-> k, other |-> b].kind = k
  BY DEF ToBrowser, ToAgent, Notices
<1> QED BY <1>1, <1>2, <1>3, <1>4, <1>5, <1>6, <1>7, <1>8, <1>9, <1>10

\* What a row of the ledger is made of.
LEMMA RowFields ==
  /\ \A r \in TaskRows : r.status \in ChatStatuses /\ r.seq \in Nat /\ r = [status |-> r.status, seq |-> r.seq]
  /\ \A status \in ChatStatuses, n \in Nat : /\ [status |-> status, seq |-> n] \in TaskRows
                                            /\ [status |-> status, seq |-> n].status = status
                                            /\ [status |-> status, seq |-> n].seq = n
  /\ NoTask \in TaskRows /\ NoTask.status = "none" /\ NoTask.seq = 0
BY DEF TaskRows, NoTask, ChatStatuses

\* The ledger with another status for one task, and with all sequences of some
\* tasks moved on.
LEMMA LedgerChanges ==
  ASSUME NEW tasks \in [Ask -> TaskRows]
  PROVE  /\ \A m \in Ask, status \in ChatStatuses : LET new == [tasks EXCEPT ![m].status = status] IN
              /\ new \in [Ask -> TaskRows] /\ new[m].status = status
              /\ \A o \in Ask : new[o].seq = tasks[o].seq /\ (o # m => new[o] = tasks[o])
         /\ \A S \in SUBSET Ask : /\ Reported(tasks, S) \in [Ask -> TaskRows]
              /\ \A o \in Ask : /\ Reported(tasks, S)[o].status = tasks[o].status
                                /\ Reported(tasks, S)[o].seq = tasks[o].seq + (IF o \in S THEN 1 ELSE 0)
         /\ Retired(tasks) \in [Ask -> TaskRows]
         /\ \A o \in Ask : /\ Retired(tasks)[o].seq = tasks[o].seq
                           /\ Retired(tasks)[o].status = IF tasks[o].status = "working" THEN "interrupted" ELSE tasks[o].status
<1>0. \A o \in Ask : tasks[o] \in TaskRows /\ tasks[o].status \in ChatStatuses /\ tasks[o].seq \in Nat
  BY RowFields
<1>1. ASSUME NEW m \in Ask, NEW status \in ChatStatuses
      PROVE  LET new == [tasks EXCEPT ![m].status = status] IN
              /\ new \in [Ask -> TaskRows] /\ new[m].status = status
              /\ \A o \in Ask : new[o].seq = tasks[o].seq /\ (o # m => new[o] = tasks[o])
  BY DEF TaskRows
<1>2. ASSUME NEW S \in SUBSET Ask
      PROVE  /\ Reported(tasks, S) \in [Ask -> TaskRows]
             /\ \A o \in Ask : /\ Reported(tasks, S)[o].status = tasks[o].status
                                /\ Reported(tasks, S)[o].seq = tasks[o].seq + (IF o \in S THEN 1 ELSE 0)
  <2>1. \A o \in Ask : /\ [tasks[o] EXCEPT !.seq = @ + 1] \in TaskRows
                       /\ [tasks[o] EXCEPT !.seq = @ + 1].status = tasks[o].status
                       /\ [tasks[o] EXCEPT !.seq = @ + 1].seq = tasks[o].seq + 1
    BY <1>0 DEF TaskRows
  <2> QED BY <1>0, <2>1 DEF Reported
<1>3. /\ Retired(tasks) \in [Ask -> TaskRows]
      /\ \A o \in Ask : /\ Retired(tasks)[o].seq = tasks[o].seq
                        /\ Retired(tasks)[o].status = IF tasks[o].status = "working" THEN "interrupted" ELSE tasks[o].status
  <2>1. \A o \in Ask : /\ [tasks[o] EXCEPT !.status = "interrupted"] \in TaskRows
                       /\ [tasks[o] EXCEPT !.status = "interrupted"].status = "interrupted"
                       /\ [tasks[o] EXCEPT !.status = "interrupted"].seq = tasks[o].seq
    BY <1>0 DEF TaskRows, ChatStatuses
  <2> QED BY <1>0, <2>1 DEF Retired
<1> QED BY <1>1, <1>2, <1>3

\* Reports on some tasks are handed out: what the ledger says of each, with a
\* sequence that was not used before.
HandsOut(S) ==
  /\ chTask' \in [Ask -> TaskRows] /\ chDisk' = chTask'
  /\ \A m \in Ask : /\ m \notin S => chDisk'[m].status = chTask[m].status
                    /\ chDisk'[m].seq = chTask[m].seq + (IF m \in S THEN 1 ELSE 0)
  /\ \E s \in Seq(TaskFrames) :
       /\ chOut' = chOut \o s /\ chSaid' = chSaid \cup Frames(s)
       /\ \A f \in Frames(s) : f.task \in S /\ f.status = chDisk'[f.task].status /\ f.seq = chDisk'[f.task].seq

\* A report hands out what the ledger says.
LEMMA ReportDoes ==
  ASSUME NEW tasks \in [Ask -> TaskRows], NEW S \in SUBSET Ask, Report(tasks, S),
         \A m \in Ask : tasks[m].seq = chTask[m].seq /\ (m \notin S => tasks[m].status = chTask[m].status)
  PROVE  HandsOut(S) /\ \A m \in Ask : chDisk'[m].status = tasks[m].status
<1> DEFINE next == Reported(tasks, S)
           frame(m) == [kind |-> "task", task |-> m, status |-> next[m].status, seq |-> next[m].seq]
           T == {frame(m) : m \in S}
<1>1. /\ next \in [Ask -> TaskRows]
      /\ \A o \in Ask : /\ next[o].status = tasks[o].status
                        /\ next[o].seq = tasks[o].seq + (IF o \in S THEN 1 ELSE 0)
  BY LedgerChanges
<1>2. chTask' = next /\ chDisk' = next /\ chOut' = chOut \o SetToSeq(T) /\ chSaid' = chSaid \cup T
  BY DEF Report
<1>3. \A m \in S : frame(m) \in TaskFrames /\ frame(m).task = m /\ frame(m).status = next[m].status
                   /\ frame(m).seq = next[m].seq
  BY <1>1, FrameFields, RowFields
<1> HIDE DEF next, frame
<1>4. IsFiniteSet(T)
  <2>1. IsFiniteSet(S)
    BY FS_Subset, ChatAssumption
  <2>2. PICK g \in [S -> T] : g = [m \in S |-> frame(m)]
    OBVIOUS
  <2>3. g \in Surjection(S, T)
    BY <2>2 DEF Surjection
  <2> QED BY <2>1, <2>3, FS_Surjection
<1>5. T \subseteq TaskFrames
  BY <1>3
<1>6. PICK s : s = SetToSeq(T)
  OBVIOUS
<1>7. s \in Seq(T) /\ Frames(s) = T
  BY <1>4, <1>6, SetAsSequence
<1>8. s \in Seq(TaskFrames)
  BY <1>5, <1>7
<1>9. \A f \in Frames(s) : f.task \in S /\ f.status = chDisk'[f.task].status /\ f.seq = chDisk'[f.task].seq
  BY <1>2, <1>3, <1>7
<1>10. chOut' = chOut \o s /\ chSaid' = chSaid \cup Frames(s)
  BY <1>2, <1>6, <1>7
<1>11. /\ chTask' \in [Ask -> TaskRows] /\ chDisk' = chTask'
       /\ \A m \in Ask : /\ chDisk'[m].status = tasks[m].status
                         /\ chDisk'[m].seq = tasks[m].seq + (IF m \in S THEN 1 ELSE 0)
  BY <1>1, <1>2
<1> QED BY <1>8, <1>9, <1>10, <1>11 DEF HandsOut

\* The ledger with another status for one task.
LEMMA WithDoes ==
  ASSUME ChatTypes, NEW m \in Ask, NEW status \in ChatStatuses
  PROVE  \E tasks \in [Ask -> TaskRows] :
           /\ tasks = With(m, status) /\ tasks[m].status = status
           /\ \A o \in Ask : tasks[o].seq = chTask[o].seq /\ (o # m => tasks[o].status = chTask[o].status)
<1>1. PICK old \in [Ask -> TaskRows] : old = chTask
  BY DEF ChatTypes
<1>2. PICK tasks : tasks = With(m, status)
  OBVIOUS
<1>3. tasks \in [Ask -> TaskRows] /\ tasks[m].status = status
      /\ \A o \in Ask : tasks[o].seq = chTask[o].seq /\ (o # m => tasks[o].status = chTask[o].status)
  BY <1>1, <1>2, LedgerChanges DEF With
<1> QED BY <1>2, <1>3

\* A report that changes a status on the way, and one that does not.
LEMMA ReportAs ==
  ASSUME ChatTypes
  PROVE  /\ \A m \in Ask, status \in ChatStatuses :
              Report(With(m, status), {m}) => HandsOut({m}) /\ chDisk'[m].status = status
         /\ \A S \in SUBSET Ask :
              Report(chTask, S) => HandsOut(S) /\ \A m \in S : chDisk'[m].status = chTask[m].status
<1>1. ASSUME NEW m \in Ask, NEW status \in ChatStatuses, Report(With(m, status), {m})
      PROVE  HandsOut({m}) /\ chDisk'[m].status = status
  <2>1. PICK tasks \in [Ask -> TaskRows] : tasks = With(m, status) /\ tasks[m].status = status
        /\ \A o \in Ask : tasks[o].seq = chTask[o].seq /\ (o # m => tasks[o].status = chTask[o].status)
    BY WithDoes
  <2>2. Report(tasks, {m})
    BY <1>1, <2>1
  <2> QED BY <2>1, <2>2, ReportDoes
<1>2. ASSUME NEW S \in SUBSET Ask, Report(chTask, S)
      PROVE  HandsOut(S) /\ \A m \in S : chDisk'[m].status = chTask[m].status
  <2>1. PICK tasks \in [Ask -> TaskRows] : tasks = chTask
    BY DEF ChatTypes
  <2>2. Report(tasks, S)
    BY <1>2, <2>1
  <2> QED BY <2>1, <2>2, ReportDoes
<1> QED BY <1>1, <1>2

\* What the runner makes of a frame it reads.
LEMMA ReadAgentDoes ==
  ASSUME ChatTypes, QueueTypes, ReadAgent
  PROVE  /\ chLink # "off" /\ chLink' # "off" /\ chPending' \in {chPending, NoFrame}
         /\ UNCHANGED <<chBrowserVars, chToBrowser, chUp, chActive, chStarted, chReady>>
         /\ chToAgent' \in Seq(ToAgent)
         /\ \/ UNCHANGED <<chTask, chDisk, chOut, chSaid>>
            \/ \E S \in SUBSET Known : HandsOut(S) /\ \A m \in S : chDisk'[m].status = chTask[m].status
            \/ \E m \in Ask \ Known : HandsOut({m}) /\ chDisk'[m].status = "queued"
            \/ \E m \in Known : chTask[m].status = "queued" /\ HandsOut({m}) /\ chDisk'[m].status = "cancelled"
            \/ \E m \in Ask \ Known :
                 /\ UNCHANGED <<chTask, chDisk, chSaid>>
                 /\ chOut' = Append(chOut, [kind |-> "task", task |-> m, status |-> "failed", seq |-> 0])
<1>1. chToAgent \in Seq(ToAgent) /\ chToAgent # <<>>
  BY DEF ReadAgent, QueueTypes
<1>2. PICK frame : frame = Head(chToAgent)
  OBVIOUS
<1>3. frame \in ToAgent /\ Tail(chToAgent) \in Seq(ToAgent)
  BY <1>1, <1>2, FramesChange
<1>4. frame.kind \in {"message", "cancel"} => frame.task \in Ask
  BY <1>3, FrameFields
<1>5. Known \in SUBSET Ask
  BY DEF Known
<1>6. ASSUME NEW m \in Ask, Admit(m)
      PROVE  \/ \E S \in SUBSET Known : HandsOut(S) /\ \A o \in S : chDisk'[o].status = chTask[o].status
             \/ m \notin Known /\ HandsOut({m}) /\ chDisk'[m].status = "queued"
             \/ /\ m \notin Known /\ UNCHANGED <<chTask, chDisk, chSaid>>
                /\ chOut' = Append(chOut, [kind |-> "task", task |-> m, status |-> "failed", seq |-> 0])
  <2>1. CASE m \in Known /\ Report(chTask, {m})
    <3>1. HandsOut({m}) /\ \A o \in {m} : chDisk'[o].status = chTask[o].status
      BY <2>1, <1>5, ReportAs
    <3> QED BY <2>1, <3>1
  <2>2. CASE m \notin Known /\ Report(With(m, "queued"), {m})
    BY <2>2, ReportAs DEF ChatStatuses
  <2> QED BY <1>6, <2>1, <2>2 DEF Admit
<1>7. ASSUME NEW m \in Ask, CancelTask(m)
      PROVE  \/ \E S \in SUBSET Known : HandsOut(S) /\ \A o \in S : chDisk'[o].status = chTask[o].status
             \/ m \in Known /\ chTask[m].status = "queued" /\ HandsOut({m}) /\ chDisk'[m].status = "cancelled"
             \/ UNCHANGED <<chTask, chDisk, chOut, chSaid>>
  <2>1. CASE m \in Known /\ chTask[m].status = "queued"
    <3>1. Report(With(m, "cancelled"), {m})
      BY <1>7, <2>1 DEF CancelTask
    <3> QED BY <2>1, <3>1, ReportAs DEF ChatStatuses
  <2>2. CASE m \in Known /\ chTask[m].status # "queued"
    <3>1. Report(chTask, {m})
      BY <1>7, <2>2 DEF CancelTask
    <3>2. HandsOut({m}) /\ \A o \in {m} : chDisk'[o].status = chTask[o].status
      BY <3>1, ReportAs
    <3> QED BY <2>2, <3>2
  <2>3. CASE m \notin Known
    BY <1>7, <2>3 DEF CancelTask
  <2> QED BY <2>1, <2>2, <2>3
<1>8. ASSUME Report(chTask, Known)
      PROVE  \E S \in SUBSET Known : HandsOut(S) /\ \A o \in S : chDisk'[o].status = chTask[o].status
  <2>1. PICK S \in SUBSET Ask : S = Known
    BY <1>5
  <2>2. Report(chTask, S)
    BY <1>8, <2>1
  <2>3. HandsOut(S) /\ \A o \in S : chDisk'[o].status = chTask[o].status
    BY <2>2, ReportAs
  <2> QED BY <2>1, <2>3
<1>9. /\ chLink # "off" /\ chToAgent' = Tail(chToAgent)
      /\ UNCHANGED <<chBrowserVars, chToBrowser, chUp, chActive, chStarted, chReady>>
      /\ \/ UNCHANGED <<chLinkVars, chTask, chDisk, chSaid>>
         \/ /\ chLink' = "joined" /\ chPending' \in {chPending, NoFrame}
            /\ Report(chTask, Known) \/ UNCHANGED <<chTask, chDisk, chOut, chSaid>>
         \/ frame.kind = "message" /\ Admit(frame.task) /\ UNCHANGED <<chLink, chPending>>
         \/ frame.kind = "cancel" /\ CancelTask(frame.task) /\ UNCHANGED <<chLink, chPending>>
  BY <1>2 DEF ReadAgent
<1>10. PICK m : m = frame.task
  OBVIOUS
<1>11. \/ UNCHANGED <<chTask, chDisk, chOut, chSaid>>
       \/ Report(chTask, Known)
       \/ m \in Ask /\ Admit(m)
       \/ m \in Ask /\ CancelTask(m)
  BY <1>4, <1>9, <1>10 DEF chLinkVars
<1>12. /\ chLink' # "off" /\ chPending' \in {chPending, NoFrame}
  BY <1>9 DEF chLinkVars
<1> QED BY <1>3, <1>6, <1>7, <1>8, <1>9, <1>11, <1>12

\* What taking up a task does.
LEMMA DispatchDoes ==
  ASSUME ChatTypes, NEW m \in Ask, Dispatch(m)
  PROVE  /\ chUp = "on" /\ chActive = Idle /\ chTask[m].status = "queued"
         /\ UNCHANGED <<chBrowserVars, chHubVars, chLink, chBelief, chPending, chUp, chStarted>>
         /\ \/ /\ chTask' \in [Ask -> TaskRows] /\ chDisk' = chTask' /\ chDisk'[m].status = "working"
               /\ \A o \in Ask : chDisk'[o].seq = chTask[o].seq /\ (o # m => chDisk'[o].status = chTask[o].status)
               /\ chActive' = [task |-> m, phase |-> "starting"] /\ UNCHANGED <<chOut, chSaid>>
            \/ HandsOut({m}) /\ chDisk'[m].status = "failed" /\ UNCHANGED chActive
<1>1. ASSUME chTask' = With(m, "working")
      PROVE  /\ chTask' \in [Ask -> TaskRows] /\ chTask'[m].status = "working"
             /\ \A o \in Ask : chTask'[o].seq = chTask[o].seq /\ (o # m => chTask'[o].status = chTask[o].status)
  <2>0. PICK w \in ChatStatuses : w = "working"
    BY DEF ChatStatuses
  <2>1. PICK tasks \in [Ask -> TaskRows] : tasks = With(m, w) /\ tasks[m].status = w
        /\ \A o \in Ask : tasks[o].seq = chTask[o].seq /\ (o # m => tasks[o].status = chTask[o].status)
    BY WithDoes
  <2> QED BY <1>1, <2>0, <2>1
<1>2. ASSUME Report(With(m, "failed"), {m}) PROVE HandsOut({m}) /\ chDisk'[m].status = "failed"
  BY <1>2, ReportAs DEF ChatStatuses
<1> QED BY <1>1, <1>2 DEF Dispatch

\* What the start and the end of a turn do.
LEMMA TurnDoes ==
  ASSUME ChatTypes, NEW m \in Ask, m = chActive.task
  PROVE  /\ StartTurn =>
              /\ chActive.phase = "starting" /\ UNCHANGED <<chBrowserVars, chHubVars, chLink, chBelief, chPending, chUp>>
              /\ HandsOut({m})
              /\ \/ /\ chDisk'[m].status = chTask[m].status /\ chStarted' = [chStarted EXCEPT ![m] = @ + 1]
                    /\ chActive' = [task |-> m, phase |-> "turn"]
                 \/ chDisk'[m].status = "failed" /\ chActive' = Idle /\ UNCHANGED chStarted
         /\ FinishTurn =>
              /\ chActive.phase = "turn" /\ UNCHANGED <<chBrowserVars, chHubVars, chLink, chBelief, chPending, chUp>>
              /\ HandsOut({m}) /\ chDisk'[m].status \in {"completed", "failed", "cancelled"}
              /\ chActive' = Idle /\ UNCHANGED chStarted
<1>1. [chActive EXCEPT !.phase = "turn"] = [task |-> m, phase |-> "turn"]
  BY DEF ChatTypes
<1>2. \A status \in ChatStatuses : Report(With(m, status), {m}) => HandsOut({m}) /\ chDisk'[m].status = status
  BY ReportAs
<1>3. Report(chTask, {m}) => HandsOut({m}) /\ chDisk'[m].status = chTask[m].status
  BY ReportAs
<1>4. {"completed", "failed", "cancelled"} \subseteq ChatStatuses
  BY DEF ChatStatuses
<1>5. ASSUME StartTurn
      PROVE  /\ chActive.phase = "starting" /\ UNCHANGED <<chBrowserVars, chHubVars, chLink, chBelief, chPending, chUp>>
             /\ HandsOut({m})
             /\ \/ /\ chDisk'[m].status = chTask[m].status /\ chStarted' = [chStarted EXCEPT ![m] = @ + 1]
                   /\ chActive' = [task |-> m, phase |-> "turn"]
                \/ chDisk'[m].status = "failed" /\ chActive' = Idle /\ UNCHANGED chStarted
  <2>1. /\ chActive.phase = "starting" /\ UNCHANGED <<chBrowserVars, chHubVars, chLink, chBelief, chPending, chUp>>
        /\ \/ /\ Report(chTask, {m}) /\ chStarted' = [chStarted EXCEPT ![m] = @ + 1]
              /\ chActive' = [chActive EXCEPT !.phase = "turn"]
           \/ Report(With(m, "failed"), {m}) /\ chActive' = Idle /\ UNCHANGED chStarted
    BY <1>5 DEF StartTurn
  <2> QED BY <1>1, <1>2, <1>3, <1>4, <2>1
<1>6. ASSUME FinishTurn
      PROVE  /\ chActive.phase = "turn" /\ UNCHANGED <<chBrowserVars, chHubVars, chLink, chBelief, chPending, chUp>>
             /\ HandsOut({m}) /\ chDisk'[m].status \in {"completed", "failed", "cancelled"}
             /\ chActive' = Idle /\ UNCHANGED chStarted
  <2>1. /\ chActive.phase = "turn" /\ UNCHANGED <<chBrowserVars, chHubVars, chLink, chBelief, chPending, chUp>>
        /\ chActive' = Idle /\ UNCHANGED chStarted
        /\ \E status \in {"completed", "failed", "cancelled"} : Report(With(m, status), {m})
    BY <1>6 DEF FinishTurn
  <2> QED BY <1>2, <1>4, <2>1
<1> QED BY <1>5, <1>6

\* What a queue to the browser may become without a report put into it.
Quieter(new, old) ==
  /\ \A f \in Frames(new) : f.kind = "task" => f \in Frames(old)
  /\ RefusedFirst(old) => RefusedFirst(new)

\* Appending what is not a report, announcing and reading keep a queue quiet.
LEMMA QueuesChange ==
  ASSUME NEW q \in Seq(ToBrowser)
  PROVE  /\ \A x \in ToBrowser : x.kind # "task" => Append(q, x) \in Seq(ToBrowser) /\ Quieter(Append(q, x), q)
         /\ \A slot : \A value \in BOOLEAN :
              LET x == [kind |-> "presence", other |-> value] IN
              Told(q, slot, value) \in Seq(ToBrowser) /\ Quieter(Told(q, slot, value), q)
         /\ q # <<>> => Tail(q) \in Seq(ToBrowser) /\ Quieter(Tail(q), q)
         /\ Quieter(q, q)
<1>1. ASSUME NEW x \in ToBrowser, x.kind # "task" PROVE Append(q, x) \in Seq(ToBrowser) /\ Quieter(Append(q, x), q)
  <2>1. Append(q, x) \in Seq(ToBrowser) /\ Frames(Append(q, x)) = Frames(q) \cup {x}
    BY FramesChange
  <2>2. \A m \in Ask : ~IsRefusal(x, m)
    BY <1>1 DEF IsRefusal
  <2>3. RefusedFirst(q) => RefusedFirst(Append(q, x))
    BY <2>2, OrderChanges
  <2> QED BY <1>1, <2>1, <2>3 DEF Quieter
<1>2. Quieter(q, q)
  BY DEF Quieter
<1>3. ASSUME NEW slot, NEW value \in BOOLEAN
      PROVE  Told(q, slot, value) \in Seq(ToBrowser) /\ Quieter(Told(q, slot, value), q)
  <2>1. PICK x \in ToBrowser : x = [kind |-> "presence", other |-> value] /\ x.kind # "task"
    BY FrameFields
  <2>2. Append(q, x) \in Seq(ToBrowser) /\ Quieter(Append(q, x), q)
    BY <1>1, <2>1
  <2> QED BY <1>2, <2>1, <2>2 DEF Told
<1>4. q # <<>> => Tail(q) \in Seq(ToBrowser) /\ Quieter(Tail(q), q)
  BY FramesChange, OrderChanges DEF Quieter
<1> QED BY <1>1, <1>2, <1>3, <1>4

\* The queue to the runner.
LEMMA AgentQueueChanges ==
  ASSUME NEW q \in Seq(ToAgent)
  PROVE  /\ \A x \in ToAgent : Append(q, x) \in Seq(ToAgent)
         /\ \A slot : \A value \in BOOLEAN : Told(q, slot, value) \in Seq(ToAgent)
         /\ \A k \in {"presence", "ready"}, value \in BOOLEAN :
              Append(q, [kind |-> k, other |-> value]) \in Seq(ToAgent)
<1>1. \A x \in ToAgent : Append(q, x) \in Seq(ToAgent)
  OBVIOUS
<1>2. \A k \in {"presence", "ready"}, value \in BOOLEAN : Append(q, [kind |-> k, other |-> value]) \in Seq(ToAgent)
  BY <1>1, FrameFields
<1> QED BY <1>1, <1>2 DEF Told

\* The steps of the server that relay no report, and those of the browser that
\* read none: nothing is added to what is on the way to the browser.
ServerRelays ==
  \/ AttachBrowser \/ AttachAgent \/ ReadyBrowser \/ ReadyAgent
  \/ DetachBrowser \/ DetachAgent \/ RelayRequest
\* None of them touches the runner or what the browser shows.
LEMMA ServerRelaysDoes ==
  ASSUME QueueTypes, ServerRelays
  PROVE  /\ UNCHANGED <<chAsked, chShown, chRunVars, chOut>>
         /\ chPending' \in {chPending, NoFrame}
         /\ chLink' = chLink \/ chUp # "off"
         /\ chToBrowser' \in Seq(ToBrowser) /\ Quieter(chToBrowser', chToBrowser)
         /\ chToAgent' \in Seq(ToAgent) /\ chWire' \in Seq(Requests)
         /\ chReady' \in [{"user", "agent"} -> BOOLEAN]
<1>1. /\ chWire \in Seq(Requests) /\ chToAgent \in Seq(ToAgent) /\ chToBrowser \in Seq(ToBrowser)
      /\ chReady \in [{"user", "agent"} -> BOOLEAN] /\ chPending \in {chPending, NoFrame}
  BY DEF QueueTypes
<1>2. PICK old \in Seq(ToBrowser) : old = chToBrowser
  BY <1>1
<1>3. PICK agents \in Seq(ToAgent) : agents = chToAgent
  BY <1>1
<1>4. <<>> \in Seq(ToBrowser) /\ <<>> \in Seq(ToAgent) /\ <<>> \in Seq(Requests)
  OBVIOUS
<1>5. /\ \A slot : \A value \in BOOLEAN :
           /\ Told(old, slot, value) \in Seq(ToBrowser) /\ Quieter(Told(old, slot, value), old)
           /\ Told(agents, slot, value) \in Seq(ToAgent)
           /\ Told(<<>>, slot, value) \in Seq(ToBrowser) /\ Quieter(Told(<<>>, slot, value), <<>>)
           /\ Told(<<>>, slot, value) \in Seq(ToAgent)
      /\ Quieter(old, old)
  BY <1>4, QueuesChange, AgentQueueChanges
<1>6. ASSUME NEW q, Quieter(q, <<>>) PROVE Quieter(q, old)
  <2>1. Frames(<<>>) = {} /\ RefusedFirst(<<>>)
    BY FramesChange, OrderChanges DEF RefusedFirst, Frames
  <2> QED BY <1>6, <2>1 DEF Quieter
<1>7. CASE AttachBrowser
  <2>1. chToBrowser' = Told(<<>>, "attached", chAgent # "off") /\ chToAgent' = Told(agents, chAgent, "attached" # "off")
        /\ chReady' = [chReady EXCEPT !["user"] = chAgent # "off"]
        /\ UNCHANGED <<chAsked, chShown, chWire, chLinkVars, chRunVars>>
    BY <1>3, <1>7 DEF AttachBrowser, Announce
  <2>2. (chAgent # "off") \in BOOLEAN /\ ("attached" # "off") \in BOOLEAN
    OBVIOUS
  <2>3. chToBrowser' \in Seq(ToBrowser) /\ Quieter(chToBrowser', <<>>) /\ chToAgent' \in Seq(ToAgent)
    BY <1>5, <2>1, <2>2
  <2> QED BY <1>1, <1>2, <1>6, <2>1, <2>3 DEF chLinkVars
<1>8. CASE AttachAgent
  <2>1. chToBrowser' = Told(old, chBrowser, "attached" # "off") /\ chToAgent' = Told(<<>>, "attached", chBrowser # "off")
        /\ chReady' = [chReady EXCEPT !["agent"] = chBrowser # "off"] /\ chPending' = NoFrame /\ chUp # "off"
        /\ UNCHANGED <<chBrowserVars, chRunVars, chOut>>
    BY <1>2, <1>8 DEF AttachAgent, Announce
  <2>2. (chBrowser # "off") \in BOOLEAN /\ ("attached" # "off") \in BOOLEAN
    OBVIOUS
  <2>3. chToBrowser' \in Seq(ToBrowser) /\ Quieter(chToBrowser', old) /\ chToAgent' \in Seq(ToAgent)
    BY <1>5, <2>1, <2>2
  <2> QED BY <1>1, <1>2, <2>1, <2>3 DEF chBrowserVars
<1>9. CASE ReadyBrowser
  <2>1. /\ chToBrowser' \in {old, Append(old, [kind |-> "ready", other |-> chReady["user"]])}
        /\ chReady' = [chReady EXCEPT !["user"] = FALSE]
        /\ UNCHANGED <<chBrowserVars, chLinkVars, chRunVars, chToAgent>>
    BY <1>2, <1>9 DEF ReadyBrowser
  <2>2. PICK b \in BOOLEAN : b = chReady["user"]
    BY <1>1
  <2>3. PICK x \in ToBrowser : x = [kind |-> "ready", other |-> b] /\ x.kind # "task"
    BY FrameFields
  <2>4. chToBrowser' \in Seq(ToBrowser) /\ Quieter(chToBrowser', old)
    BY <1>5, <2>1, <2>2, <2>3, QueuesChange
  <2> QED BY <1>1, <1>2, <2>1, <2>4 DEF chBrowserVars, chLinkVars
<1>10. CASE ReadyAgent
  <2>1. /\ chToAgent' \in {agents, Append(agents, [kind |-> "ready", other |-> chReady["agent"]])}
        /\ chReady' = [chReady EXCEPT !["agent"] = FALSE]
        /\ UNCHANGED <<chBrowserVars, chLinkVars, chRunVars, chToBrowser>>
    BY <1>3, <1>10 DEF ReadyAgent
  <2>2. PICK b \in BOOLEAN : b = chReady["agent"]
    BY <1>1
  <2>3. chToAgent' \in Seq(ToAgent)
    BY <2>1, <2>2, AgentQueueChanges
  <2> QED BY <1>1, <1>2, <1>5, <2>1, <2>3 DEF chBrowserVars, chLinkVars
<1>11. CASE DetachBrowser
  <2>1. chToBrowser' = Told(<<>>, "off", chAgent # "off") /\ chToAgent' = Told(agents, chAgent, "off" # "off")
        /\ chWire' = <<>> /\ UNCHANGED <<chAsked, chShown, chLinkVars, chRunVars, chReady>>
    BY <1>3, <1>11 DEF DetachBrowser, Announce
  <2>2. (chAgent # "off") \in BOOLEAN /\ ("off" # "off") \in BOOLEAN
    OBVIOUS
  <2>3. chToBrowser' \in Seq(ToBrowser) /\ Quieter(chToBrowser', <<>>) /\ chToAgent' \in Seq(ToAgent)
    BY <1>5, <2>1, <2>2
  <2> QED BY <1>1, <1>2, <1>4, <1>6, <2>1, <2>3 DEF chLinkVars
<1>12. CASE DetachAgent
  <2>1. chToBrowser' = Told(old, chBrowser, "off" # "off") /\ chToAgent' = Told(<<>>, "off", chBrowser # "off")
        /\ UNCHANGED <<chBrowserVars, chLinkVars, chRunVars, chReady>>
    BY <1>2, <1>12 DEF DetachAgent, Announce
  <2>2. (chBrowser # "off") \in BOOLEAN /\ ("off" # "off") \in BOOLEAN
    OBVIOUS
  <2>3. chToBrowser' \in Seq(ToBrowser) /\ Quieter(chToBrowser', old) /\ chToAgent' \in Seq(ToAgent)
    BY <1>5, <2>1, <2>2
  <2> QED BY <1>1, <1>2, <2>1, <2>3 DEF chBrowserVars, chLinkVars
<1>13. CASE RelayRequest
  <2>0. PICK frame : frame = Head(chWire)
    OBVIOUS
  <2>1. /\ chWire # <<>> /\ chWire' = Tail(chWire)
        /\ chToAgent' \in {agents, Append(agents, frame)}
        /\ chToBrowser' = old \/ (frame.kind = "message" /\ chToBrowser' = Append(old, [kind |-> "error", task |-> frame.task]))
        /\ UNCHANGED <<chAsked, chShown, chLinkVars, chRunVars, chReady>>
    BY <1>2, <1>3, <1>13, <2>0 DEF RelayRequest
  <2>2. frame \in Requests /\ chWire' \in Seq(Requests)
    BY <1>1, <2>0, <2>1, FramesChange
  <2>3. frame.task \in Ask /\ frame \in ToAgent
    BY <2>2, FrameFields
  <2>4. PICK x \in ToBrowser : x = [kind |-> "error", task |-> frame.task] /\ x.kind # "task"
    BY <2>3, FrameFields
  <2>5. chToBrowser' \in Seq(ToBrowser) /\ Quieter(chToBrowser', old)
    BY <1>5, <2>1, <2>4, QueuesChange
  <2>6. chToAgent' \in Seq(ToAgent)
    BY <2>1, <2>3, AgentQueueChanges
  <2> QED BY <1>1, <1>2, <2>1, <2>2, <2>5, <2>6 DEF chLinkVars
<1> QED BY <1>7, <1>8, <1>9, <1>10, <1>11, <1>12, <1>13 DEF ServerRelays

\* A step that reports nothing to the browser and shows it no report.
QuietStep ==
  /\ UNCHANGED <<chRunVars, chOut>> /\ chPending' \in {chPending, NoFrame}
  /\ chLink' \in {chLink, "off"} \/ chUp # "off"
  /\ chToBrowser' \in Seq(ToBrowser) /\ Quieter(chToBrowser', chToBrowser)
  /\ chToAgent' \in Seq(ToAgent) /\ chWire' \in Seq(Requests) /\ chReady' \in [{"user", "agent"} -> BOOLEAN]
  /\ chAsked' \in [Ask -> {"none", "sent", "uncertain", "done"}] /\ chShown' \in [Ask -> TaskRows]
  /\ \A m \in Ask : /\ chAsked'[m] = "done" => chAsked[m] = "done"
                    /\ chShown'[m] = chShown[m]
                       \/ /\ chAsked'[m] # "done" /\ chShown'[m].seq = chShown[m].seq
                          /\ chShown'[m].status = "queued"
\* The next report is read by the browser.
IsShown(f) ==
  /\ chAsked' = [chAsked EXCEPT ![f.task] = "done"]
  /\ chShown' = [chShown EXCEPT ![f.task] =
                   IF f.seq = 0 THEN [@ EXCEPT !.status = f.status]
                   ELSE IF f.seq > @.seq THEN [status |-> f.status, seq |-> f.seq]
                   ELSE @]
ReadsReport ==
  /\ chToBrowser # <<>> /\ Head(chToBrowser).kind = "task"
  /\ UNCHANGED <<chRunVars, chOut, chPending, chLink, chToAgent, chWire, chReady>>
  /\ chToBrowser' = Tail(chToBrowser)
  /\ \E f \in TaskFrames : f = Head(chToBrowser) /\ IsShown(f)

\* Every step of the server and the browser is quiet or reads a report.
LEMMA BrowserDoes ==
  ASSUME ChatTypes, QueueTypes
  PROVE  /\ ServerRelays \/ BrowserLost \/ LinkLost
            \/ (\E m \in Ask : SendRequest(m) \/ SendCancel(m) \/ AckLate(m)) => QuietStep
         /\ ReadBrowser => QuietStep \/ ReadsReport
<1>1. /\ chWire \in Seq(Requests) /\ chToAgent \in Seq(ToAgent) /\ chToBrowser \in Seq(ToBrowser)
      /\ chReady \in [{"user", "agent"} -> BOOLEAN] /\ chPending \in {chPending, NoFrame}
      /\ Quieter(chToBrowser, chToBrowser)
      /\ chAsked \in [Ask -> {"none", "sent", "uncertain", "done"}] /\ chShown \in [Ask -> TaskRows]
      /\ chLink \in {chLink, "off"}
  BY DEF QueueTypes, ChatTypes, Quieter
<1>2. ServerRelays => QuietStep
  BY <1>1, ServerRelaysDoes DEF QuietStep
<1>3. ASSUME NEW m \in Ask, SendRequest(m) PROVE QuietStep
  <2>1. /\ chAsked[m] = "none" /\ chAsked' = [chAsked EXCEPT ![m] = "sent"]
        /\ chShown' = [chShown EXCEPT ![m].status = "queued"] /\ chWire' = Append(chWire, Message(m))
        /\ UNCHANGED <<chHubVars, chLinkVars, chRunVars>>
    BY <1>3 DEF SendRequest
  <2>5. Message(m) \in Requests
    BY FrameFields
  <2>2. chWire' \in Seq(Requests)
    BY <1>1, <2>1, <2>5
  <2>3. /\ chShown' \in [Ask -> TaskRows] /\ chShown'[m].status = "queued" /\ chShown'[m].seq = chShown[m].seq
        /\ \A o \in Ask \ {m} : chShown'[o] = chShown[o]
    BY <1>1, <2>1 DEF TaskRows, ChatStatuses
  <2>4. /\ chAsked' \in [Ask -> {"none", "sent", "uncertain", "done"}] /\ chAsked'[m] = "sent"
        /\ \A o \in Ask \ {m} : chAsked'[o] = chAsked[o]
    BY <1>1, <2>1
  <2> QED BY <1>1, <2>1, <2>2, <2>3, <2>4 DEF QuietStep, chHubVars, chLinkVars
<1>4. ASSUME NEW m \in Ask, SendCancel(m) PROVE QuietStep
  <2>1. /\ chWire' = Append(chWire, [kind |-> "cancel", task |-> m])
        /\ UNCHANGED <<chAsked, chShown, chHubVars, chLinkVars, chRunVars>>
    BY <1>4 DEF SendCancel
  <2>2. chWire' \in Seq(Requests)
    BY <1>1, <2>1, FrameFields
  <2> QED BY <1>1, <2>1, <2>2 DEF QuietStep, chHubVars, chLinkVars
<1>5. ASSUME NEW m \in Ask, AckLate(m) PROVE QuietStep
  <2>1. /\ chAsked' = [chAsked EXCEPT ![m] = "uncertain"]
        /\ UNCHANGED <<chShown, chWire, chHubVars, chLinkVars, chRunVars>>
    BY <1>5 DEF AckLate
  <2> QED BY <1>1, <2>1 DEF QuietStep, chHubVars, chLinkVars
<1>6. /\ Unsure \in [Ask -> {"none", "sent", "uncertain", "done"}]
      /\ \A m \in Ask : Unsure[m] = "done" => chAsked[m] = "done"
  BY <1>1 DEF Unsure
<1>7. CASE BrowserLost
  <2>1. chAsked' = Unsure /\ UNCHANGED <<chShown, chWire, chHubVars, chLinkVars, chRunVars>>
    BY <1>7 DEF BrowserLost
  <2> QED BY <1>1, <1>6, <2>1 DEF QuietStep, chHubVars, chLinkVars
<1>8. CASE LinkLost
  BY <1>1, <1>8 DEF LinkLost, QuietStep, chBrowserVars, chHubVars
<1>9. ASSUME ReadBrowser PROVE QuietStep \/ ReadsReport
  <2>1. PICK frame : frame = Head(chToBrowser)
    OBVIOUS
  <2>2. frame \in ToBrowser /\ chToBrowser # <<>> /\ chToBrowser' = Tail(chToBrowser)
        /\ UNCHANGED <<chToAgent, chReady, chLinkVars, chRunVars>>
    BY <1>1, <1>9, <2>1, FramesChange DEF ReadBrowser
  <2>3. chToBrowser' \in Seq(ToBrowser) /\ Quieter(chToBrowser', chToBrowser)
    BY <1>1, <2>2, QueuesChange
  <2>4. PICK again \in SUBSET Ask : again = {m \in Ask : chAsked[m] = "uncertain"}
    OBVIOUS
  <2>5. \/ /\ chAsked' = [m \in Ask |-> IF m \in again THEN "sent" ELSE chAsked[m]]
           /\ chWire' = chWire \o SetToSeq({Message(m) : m \in again}) /\ UNCHANGED chShown
        \/ chAsked' = Unsure /\ UNCHANGED <<chShown, chWire>>
        \/ /\ frame.kind = "error" /\ UNCHANGED <<chShown, chWire>>
           /\ chAsked' = [chAsked EXCEPT ![frame.task] = IF @ = "sent" THEN "uncertain" ELSE @]
        \/ /\ frame.kind = "task" /\ UNCHANGED chWire
           /\ IsShown(frame)
    BY <1>9, <2>1, <2>4 DEF ReadBrowser, IsShown
  <2>6. CASE /\ chAsked' = [m \in Ask |-> IF m \in again THEN "sent" ELSE chAsked[m]]
             /\ chWire' = chWire \o SetToSeq({Message(m) : m \in again}) /\ UNCHANGED chShown
    <3>1. PICK T : T = {Message(m) : m \in again}
      OBVIOUS
    <3>10. \A o \in again : Message(o) \in Requests
      BY FrameFields
    <3>2. T \subseteq Requests
      BY <3>1, <3>10
    <3>3. IsFiniteSet(T)
      <4>1. IsFiniteSet(again)
        BY FS_Subset, ChatAssumption
      <4>2. PICK g \in [again -> T] : g = [m \in again |-> Message(m)]
        BY <3>1
      <4>3. g \in Surjection(again, T)
        BY <3>1, <4>2 DEF Surjection
      <4> QED BY <4>1, <4>3, FS_Surjection
    <3>4. PICK s : s = SetToSeq(T)
      OBVIOUS
    <3>5. s \in Seq(T)
      BY <3>3, <3>4, SetAsSequence
    <3>6. s \in Seq(Requests)
      BY <3>2, <3>5
    <3>7. chWire' \in Seq(Requests)
      BY <1>1, <2>6, <3>1, <3>4, <3>6
    <3>8. chAsked' \in [Ask -> {"none", "sent", "uncertain", "done"}]
          /\ \A m \in Ask : chAsked'[m] = "done" => chAsked[m] = "done"
      BY <1>1, <2>6
    <3> QED BY <1>1, <2>2, <2>3, <2>6, <3>7, <3>8 DEF QuietStep, chLinkVars
  <2>7. CASE chAsked' = Unsure /\ UNCHANGED <<chShown, chWire>>
    BY <1>1, <1>6, <2>2, <2>3, <2>7 DEF QuietStep, chLinkVars
  <2>8. CASE /\ frame.kind = "error" /\ UNCHANGED <<chShown, chWire>>
             /\ chAsked' = [chAsked EXCEPT ![frame.task] = IF @ = "sent" THEN "uncertain" ELSE @]
    <3>1. frame.task \in Ask
      BY <2>2, <2>8, FrameFields
    <3>2. chAsked' \in [Ask -> {"none", "sent", "uncertain", "done"}]
          /\ \A m \in Ask : chAsked'[m] = "done" => chAsked[m] = "done"
      BY <1>1, <2>8, <3>1
    <3> QED BY <1>1, <2>2, <2>3, <2>8, <3>2 DEF QuietStep, chLinkVars
  <2>9. CASE /\ frame.kind = "task" /\ UNCHANGED chWire
             /\ IsShown(frame)
    <3>1. frame \in TaskFrames
      BY <2>2, <2>9, FrameFields
    <3> QED BY <2>1, <2>2, <2>9, <3>1 DEF ReadsReport, chLinkVars
  <2> QED BY <2>5, <2>6, <2>7, <2>8, <2>9
<1> QED BY <1>2, <1>3, <1>4, <1>5, <1>7, <1>8, <1>9

\* A report leaves the runner's connection: it is dropped, kept for another
\* try, refused as old, or put in the browser's queue.
LEMMA SendReportDoes ==
  ASSUME QueueTypes, SendReport
  PROVE  /\ UNCHANGED <<chBrowserVars, chToAgent, chReady, chLink, chRunVars>>
         /\ chOut' \in Seq(TaskFrames)
         /\ \E f \in TaskFrames :
              /\ \/ f = chPending /\ chOut' = chOut
                 \/ chPending = NoFrame /\ chOut # <<>> /\ f = Head(chOut) /\ chOut' = Tail(chOut)
              /\ chPending' \in {chPending, f, NoFrame}
              /\ \/ chToBrowser' = chToBrowser
                 \/ chToBrowser' = Append(chToBrowser, f) /\ chPending' = NoFrame
<1>1. chOut \in Seq(TaskFrames) /\ chPending \in TaskFrames \cup {NoFrame}
  BY DEF QueueTypes
<1>2. PICK f : f = IF chPending # NoFrame THEN chPending ELSE Head(chOut)
  OBVIOUS
<1>3. /\ UNCHANGED <<chBrowserVars, chToAgent, chReady, chLink, chRunVars>>
      /\ chPending # NoFrame \/ chOut # <<>>
      /\ chOut' = IF chPending # NoFrame THEN chOut ELSE Tail(chOut)
      /\ \/ UNCHANGED <<chPending, chToBrowser>>
         \/ /\ chPending' \in {f, NoFrame}
            /\ chToBrowser' = chToBrowser
         \/ chPending' = NoFrame /\ chToBrowser' = Append(chToBrowser, f)
  <2>1. /\ UNCHANGED <<chBrowserVars, chToAgent, chReady, chLink, chRunVars>>
        /\ chPending # NoFrame \/ chOut # <<>>
        /\ chOut' = IF chPending # NoFrame THEN chOut ELSE Tail(chOut)
    BY <1>2 DEF SendReport
  <2>2. \E refused, stale, full \in BOOLEAN :
          \/ UNCHANGED <<chPending, chToBrowser>>
          \/ /\ chPending' = IF refused \/ (full /\ ~stale) THEN f ELSE NoFrame
             /\ chToBrowser' = IF refused \/ stale \/ full THEN chToBrowser ELSE Append(chToBrowser, f)
    <3>1. PICK refused \in BOOLEAN : refused <=> chBrowser = "off"
      OBVIOUS
    <3>2. PICK stale \in BOOLEAN : stale <=> (f.seq > 0 /\ f.seq <= chSequence[f.task])
      OBVIOUS
    <3>3. PICK full \in BOOLEAN : full <=> (Len(chToBrowser) >= ChatQueue)
      OBVIOUS
    <3> QED BY <1>2, <3>1, <3>2, <3>3 DEF SendReport
  <2> QED BY <2>1, <2>2
<1>4. chPending = NoFrame => chOut # <<>> /\ f = Head(chOut) /\ f \in TaskFrames /\ Tail(chOut) \in Seq(TaskFrames)
  BY <1>1, <1>2, <1>3, FramesChange
<1>5. chPending # NoFrame => f = chPending /\ f \in TaskFrames
  BY <1>1, <1>2
<1> QED BY <1>1, <1>3, <1>4, <1>5

\* The runner starts, is told to stop, or ends.
RunnerMoves == RunnerStart \/ RunnerStop \/ RunnerExit \/ RunnerCrash
\* The tasks they end are interrupted or cancelled, and nothing stays handed out.
LEMMA RunnerDoes ==
  ASSUME ChatTypes, QueueTypes, LedgerIsSound, RunnerMoves
  PROVE  /\ UNCHANGED <<chBrowserVars, chHubVars, chStarted, chSaid>>
         /\ chTask' \in [Ask -> TaskRows] /\ chDisk' \in [Ask -> TaskRows]
         /\ chOut' \in {chOut, <<>>} /\ chPending' \in {chPending, NoFrame}
         /\ chUp' \in {"off", "on", "stopping"} /\ chActive' \in {chActive, Idle}
         /\ chUp' = "off" => chActive' = Idle /\ chLink' = "off"
         /\ chUp' # "off" => chTask' = chDisk'
         /\ chActive' # Idle => chUp' = "stopping" /\ chActive.phase # "starting"
         /\ \A o \in Ask :
              /\ chDisk'[o].seq = chDisk[o].seq
              /\ \/ chDisk'[o].status = chDisk[o].status
                 \/ chDisk[o].status = "working" /\ chDisk'[o].status = "interrupted"
                 \/ chDisk[o].status = "queued" /\ chDisk'[o].status = "cancelled"
                 \/ chUp = "on" /\ chActive.task = o /\ chDisk'[o].status = "interrupted"
<1>1. /\ chDisk \in [Ask -> TaskRows] /\ chTask \in [Ask -> TaskRows] /\ chOut \in {chOut, <<>>}
      /\ chPending \in {chPending, NoFrame} /\ chActive \in {chActive, Idle}
  BY DEF ChatTypes
<1>2. \A o \in Ask : chDisk[o].status \in ChatStatuses /\ chDisk[o].seq \in Nat
  BY <1>1, RowFields
<1>3. PICK old \in [Ask -> TaskRows] : old = chDisk
  BY <1>1
<1>4. /\ Retired(old) \in [Ask -> TaskRows]
      /\ \A o \in Ask : /\ Retired(old)[o].seq = old[o].seq
                        /\ Retired(old)[o].status = old[o].status
                           \/ (old[o].status = "working" /\ Retired(old)[o].status = "interrupted")
  BY LedgerChanges
<1>5. CASE RunnerStart
  <2>1. /\ chUp = "off" /\ chUp' = "on" /\ chTask' = Retired(old) /\ chDisk' = chTask'
        /\ UNCHANGED <<chBrowserVars, chHubVars, chLinkVars, chActive, chStarted, chSaid>>
    BY <1>3, <1>5 DEF RunnerStart
  <2>2. chActive' = Idle
    BY <2>1 DEF LedgerIsSound
  <2> QED BY <1>1, <1>3, <1>4, <2>1, <2>2 DEF chLinkVars
<1>6. CASE RunnerStop
  <2>1. /\ chUp = "on" /\ chActive.phase # "starting" /\ chUp' = "stopping" /\ chDisk' = chTask'
        /\ UNCHANGED <<chBrowserVars, chHubVars, chLinkVars, chActive, chStarted, chSaid>>
        /\ chTask' = [m \in Ask |-> IF old[m].status = "queued" THEN [old[m] EXCEPT !.status = "cancelled"]
                              ELSE IF m = chActive.task THEN [old[m] EXCEPT !.status = "interrupted"]
                              ELSE old[m]]
    BY <1>3, <1>6 DEF RunnerStop, LedgerIsSound
  <2>2. \A o \in Ask : \A s \in {"cancelled", "interrupted"} :
          /\ [old[o] EXCEPT !.status = s] \in TaskRows /\ [old[o] EXCEPT !.status = s].status = s
          /\ [old[o] EXCEPT !.status = s].seq = old[o].seq
    BY DEF TaskRows, ChatStatuses
  <2>3. chTask' \in [Ask -> TaskRows]
    BY <2>1, <2>2
  <2>4. \A o \in Ask :
              /\ chDisk'[o].seq = old[o].seq
              /\ \/ chDisk'[o].status = old[o].status
                 \/ old[o].status = "queued" /\ chDisk'[o].status = "cancelled"
                 \/ chActive.task = o /\ chDisk'[o].status = "interrupted"
    BY <2>1, <2>2
  <2> QED BY <1>1, <1>3, <2>1, <2>3, <2>4 DEF chLinkVars
<1>7. CASE RunnerExit
  <2>1. /\ chDisk' = Retired(old) /\ chUp' = "off" /\ chActive' = Idle
        /\ chLink' = "off" /\ chOut' = <<>> /\ chPending' = NoFrame
        /\ UNCHANGED <<chBrowserVars, chHubVars, chTask, chStarted, chSaid>>
    BY <1>3, <1>7 DEF RunnerExit, RunnerGone
  <2> QED BY <1>1, <1>3, <1>4, <2>1
<1>8. CASE RunnerCrash
  <2>1. /\ chUp' = "off" /\ chActive' = Idle /\ UNCHANGED chDisk
        /\ chLink' = "off" /\ chOut' = <<>> /\ chPending' = NoFrame
        /\ UNCHANGED <<chBrowserVars, chHubVars, chTask, chStarted, chSaid>>
    BY <1>8 DEF RunnerCrash, RunnerGone
  <2> QED BY <1>1, <2>1
<1> QED BY <1>5, <1>6, <1>7, <1>8 DEF RunnerMoves

\* The steps of the specification, by what they do.
RunnerWorks(m) == Dispatch(m) \/ (m = chActive.task /\ (StartTurn \/ FinishTurn))
\* Every step is one of these.
LEMMA ChatStepIs ==
  ASSUME ChatTypes, QueueTypes, [ChatNext]_chVars
  PROVE  \/ UNCHANGED chVars
         \/ QuietStep \/ ReadsReport \/ SendReport \/ ReadAgent
         \/ \E m \in Ask : RunnerWorks(m)
         \/ RunnerMoves
<1>1. \/ ServerRelays \/ BrowserLost \/ LinkLost \/ (\E m \in Ask : SendRequest(m) \/ SendCancel(m) \/ AckLate(m))
      \/ ReadBrowser \/ SendReport \/ ReadAgent \/ (\E m \in Ask : Dispatch(m)) \/ StartTurn \/ FinishTurn
      \/ RunnerStart \/ RunnerStop \/ RunnerExit \/ RunnerCrash \/ UNCHANGED chVars
  BY DEF ChatNext, ServerRelays
<1>2. StartTurn \/ FinishTurn => \E m \in Ask : RunnerWorks(m)
  BY DEF StartTurn, FinishTurn, RunnerWorks, ChatTypes
<1>3. (\E m \in Ask : Dispatch(m)) => \E m \in Ask : RunnerWorks(m)
  BY DEF RunnerWorks
<1> QED BY <1>1, <1>2, <1>3, BrowserDoes DEF RunnerMoves

\* A runner that works on nothing is not one that works on a task.
LEMMA IdleIs ==
  /\ Idle.task = NoFrame /\ Idle.phase = "idle" /\ NoFrame \notin Ask
  /\ \A m \in Ask, p \in {"starting", "turn"} :
       /\ [task |-> m, phase |-> p].task = m /\ [task |-> m, phase |-> p].phase = p
       /\ [task |-> m, phase |-> p] # Idle
       /\ [task |-> m, phase |-> p] \in [task : Ask \cup {NoFrame}, phase : {"idle", "starting", "turn"}]
  /\ Idle \in [task : Ask \cup {NoFrame}, phase : {"idle", "starting", "turn"}]
<1>1. \A m \in Ask, p \in {"starting", "turn"} :
        /\ [task |-> m, phase |-> p].task = m /\ [task |-> m, phase |-> p].phase = p
        /\ [task |-> m, phase |-> p] \in [task : Ask \cup {NoFrame}, phase : {"idle", "starting", "turn"}]
  OBVIOUS
<1>2. Idle.task = NoFrame /\ Idle.phase = "idle"
      /\ Idle \in [task : Ask \cup {NoFrame}, phase : {"idle", "starting", "turn"}]
  BY DEF Idle
<1>3. NoFrame \notin Ask
  BY ChatAssumption DEF NoFrame
<1>4. ASSUME NEW m \in Ask, NEW p \in {"starting", "turn"} PROVE [task |-> m, phase |-> p] # Idle
  BY <1>1, <1>2
<1> QED BY <1>1, <1>2, <1>3, <1>4

\* Reports keep the types.
LEMMA HandsOutTypes ==
  ASSUME ChatTypes, QueueTypes, NEW S, HandsOut(S)
  PROVE  /\ chTask' \in [Ask -> TaskRows] /\ chDisk' \in [Ask -> TaskRows] /\ chTask' = chDisk'
         /\ chOut' \in Seq(TaskFrames) /\ chSaid' \subseteq TaskFrames
<1>1. PICK s \in Seq(TaskFrames) : chOut' = chOut \o s /\ chSaid' = chSaid \cup Frames(s)
  BY DEF HandsOut
<1>2. Frames(s) \subseteq TaskFrames
  BY FramesChange
<1>3. chOut \in Seq(TaskFrames) /\ chSaid \subseteq TaskFrames
  BY DEF QueueTypes, ChatTypes
<1>4. chOut' \in Seq(TaskFrames)
  BY <1>1, <1>3
<1> QED BY <1>1, <1>2, <1>3, <1>4 DEF HandsOut

\* Every step keeps the types.
LEMMA ChatTypesKept ==
  ASSUME ChatTypes, QueueTypes, LedgerIsSound, [ChatNext]_chVars
  PROVE  ChatTypes'
<1>1. CASE UNCHANGED chVars
  BY <1>1 DEF chVars, chBrowserVars, chRunVars, ChatTypes
<1>2. CASE QuietStep
  BY <1>2 DEF QuietStep, chRunVars, ChatTypes
<1>3. CASE ReadsReport
  <2>1. PICK f \in TaskFrames : IsShown(f)
    BY <1>3 DEF ReadsReport
  <2>2. f.task \in Ask /\ f.status \in ChatStatuses /\ f.seq \in Nat
    BY FrameFields
  <2>3. chShown[f.task] \in TaskRows /\ chShown \in [Ask -> TaskRows]
    BY <2>2 DEF ChatTypes
  <2>4. [chShown[f.task] EXCEPT !.status = f.status] \in TaskRows /\ [status |-> f.status, seq |-> f.seq] \in TaskRows
    BY <2>2, <2>3 DEF TaskRows
  <2>5. chShown' \in [Ask -> TaskRows]
    BY <2>1, <2>2, <2>3, <2>4 DEF IsShown
  <2>6. chAsked' \in [Ask -> {"none", "sent", "uncertain", "done"}]
    BY <2>1, <2>2 DEF IsShown, ChatTypes
  <2> QED BY <1>3, <2>5, <2>6 DEF ReadsReport, chRunVars, ChatTypes
<1>4. CASE SendReport
  BY <1>4, SendReportDoes DEF chRunVars, chBrowserVars, ChatTypes
<1>5. CASE ReadAgent
  <2>1. /\ chTask' \in [Ask -> TaskRows] /\ chDisk' \in [Ask -> TaskRows] /\ chSaid' \subseteq TaskFrames
    <3>1. \/ UNCHANGED <<chTask, chDisk, chSaid>>
          \/ \E S \in SUBSET Ask : HandsOut(S)
      BY <1>5, ReadAgentDoes DEF Known
    <3> QED BY <3>1, HandsOutTypes DEF ChatTypes
  <2> QED BY <1>5, <2>1, ReadAgentDoes DEF chBrowserVars, ChatTypes
<1>6. CASE \E m \in Ask : RunnerWorks(m)
  <2>1. PICK m \in Ask : RunnerWorks(m)
    BY <1>6
  <2>2. CASE Dispatch(m)
    <3>1. UNCHANGED chBrowserVars /\ UNCHANGED chUp /\ UNCHANGED chStarted
      BY <2>2, DispatchDoes
    <3>2. /\ chTask' \in [Ask -> TaskRows] /\ chDisk' \in [Ask -> TaskRows] /\ chSaid' \subseteq TaskFrames
      BY <2>2, DispatchDoes, HandsOutTypes DEF ChatTypes
    <3>3. chActive' = [task |-> m, phase |-> "starting"] \/ chActive' = Idle
      BY <2>2, DispatchDoes
    <3> QED BY <3>1, <3>2, <3>3, IdleIs DEF chBrowserVars, ChatTypes
  <2>3. CASE m = chActive.task /\ (StartTurn \/ FinishTurn)
    <3>1. UNCHANGED chBrowserVars /\ UNCHANGED chUp /\ HandsOut({m})
          /\ (chActive' = [task |-> m, phase |-> "turn"] \/ chActive' = Idle)
          /\ (UNCHANGED chStarted \/ chStarted' = [chStarted EXCEPT ![m] = @ + 1])
      BY <2>3, TurnDoes
    <3>2. /\ chTask' \in [Ask -> TaskRows] /\ chDisk' \in [Ask -> TaskRows] /\ chSaid' \subseteq TaskFrames
      BY <3>1, HandsOutTypes
    <3>3. chStarted' \in [Ask -> Nat]
      BY <3>1 DEF ChatTypes
    <3> QED BY <3>1, <3>2, <3>3, IdleIs DEF chBrowserVars, ChatTypes
  <2> QED BY <2>1, <2>2, <2>3 DEF RunnerWorks
<1>7. CASE RunnerMoves
  <2>1. /\ UNCHANGED chBrowserVars /\ UNCHANGED chStarted /\ UNCHANGED chSaid
        /\ chTask' \in [Ask -> TaskRows] /\ chDisk' \in [Ask -> TaskRows]
        /\ chUp' \in {"off", "on", "stopping"} /\ chActive' \in {chActive, Idle}
    BY <1>7, RunnerDoes
  <2> QED BY <2>1, IdleIs DEF chBrowserVars, ChatTypes
<1> QED BY <1>1, <1>2, <1>3, <1>4, <1>5, <1>6, <1>7, ChatStepIs

\* Every step keeps the types of the queues.
LEMMA QueueTypesKept ==
  ASSUME ChatTypes, QueueTypes, LedgerIsSound, [ChatNext]_chVars
  PROVE  QueueTypes'
<1>0. /\ chWire \in Seq(Requests) /\ chToAgent \in Seq(ToAgent) /\ chToBrowser \in Seq(ToBrowser)
      /\ chOut \in Seq(TaskFrames) /\ chPending \in TaskFrames \cup {NoFrame}
      /\ chReady \in [{"user", "agent"} -> BOOLEAN]
  BY DEF QueueTypes
<1>1. CASE UNCHANGED chVars
  BY <1>1 DEF chVars, chBrowserVars, chHubVars, chLinkVars, QueueTypes
<1>2. CASE QuietStep
  BY <1>0, <1>2 DEF QuietStep, QueueTypes
<1>3. CASE ReadsReport
  <2>1. Tail(chToBrowser) \in Seq(ToBrowser)
    BY <1>0, <1>3, FramesChange DEF ReadsReport
  <2> QED BY <1>0, <1>3, <2>1 DEF ReadsReport, QueueTypes
<1>4. CASE SendReport
  <2>1. PICK f \in TaskFrames :
              /\ chPending' \in {chPending, f, NoFrame}
              /\ chToBrowser' = chToBrowser \/ chToBrowser' = Append(chToBrowser, f)
    BY <1>4, SendReportDoes
  <2>2. Append(chToBrowser, f) \in Seq(ToBrowser)
    BY <1>0, FrameFields, FramesChange
  <2> QED BY <1>0, <1>4, <2>1, <2>2, SendReportDoes DEF chBrowserVars, QueueTypes
<1>5. CASE ReadAgent
  <2>1. chOut' \in Seq(TaskFrames)
    <3>1. \/ UNCHANGED chOut
          \/ \E S \in SUBSET Ask : HandsOut(S)
          \/ \E m \in Ask : chOut' = Append(chOut, [kind |-> "task", task |-> m, status |-> "failed", seq |-> 0])
      BY <1>5, ReadAgentDoes DEF Known
    <3>2. ASSUME NEW m \in Ask, chOut' = Append(chOut, [kind |-> "task", task |-> m, status |-> "failed", seq |-> 0])
          PROVE  chOut' \in Seq(TaskFrames)
      <4>1. [kind |-> "task", task |-> m, status |-> "failed", seq |-> 0] \in TaskFrames
        BY DEF TaskFrames, ChatStatuses
      <4> QED BY <1>0, <3>2, <4>1
    <3> QED BY <1>0, <3>1, <3>2, HandsOutTypes
  <2> QED BY <1>0, <1>5, <2>1, ReadAgentDoes DEF chBrowserVars, QueueTypes
<1>6. CASE \E m \in Ask : RunnerWorks(m)
  <2>1. PICK m \in Ask : RunnerWorks(m)
    BY <1>6
  <2>2. UNCHANGED <<chBrowserVars, chHubVars, chPending>> /\ (UNCHANGED chOut \/ HandsOut({m}))
    <3>1. CASE Dispatch(m)
      BY <3>1, DispatchDoes
    <3>2. CASE m = chActive.task /\ (StartTurn \/ FinishTurn)
      BY <3>2, TurnDoes
    <3> QED BY <2>1, <3>1, <3>2 DEF RunnerWorks
  <2>3. chOut' \in Seq(TaskFrames)
    BY <1>0, <2>2, HandsOutTypes
  <2> QED BY <1>0, <2>2, <2>3 DEF chBrowserVars, chHubVars, QueueTypes
<1>7. CASE RunnerMoves
  <2>1. UNCHANGED <<chBrowserVars, chHubVars>> /\ chOut' \in {chOut, <<>>} /\ chPending' \in {chPending, NoFrame}
    BY <1>7, RunnerDoes
  <2>2. <<>> \in Seq(TaskFrames)
    OBVIOUS
  <2> QED BY <1>0, <2>1, <2>2 DEF chBrowserVars, chHubVars, QueueTypes
<1> QED BY <1>1, <1>2, <1>3, <1>4, <1>5, <1>6, <1>7, ChatStepIs

\* Every step keeps the ledger in memory as it is on disk.
LEMMA LedgerKept ==
  ASSUME ChatTypes, QueueTypes, LedgerIsSound, [ChatNext]_chVars
  PROVE  LedgerIsSound'
<1>1. CASE UNCHANGED chVars
  BY <1>1 DEF chVars, chLinkVars, chRunVars, LedgerIsSound
<1>2. CASE QuietStep
  BY <1>2 DEF QuietStep, chRunVars, LedgerIsSound
<1>3. CASE ReadsReport
  BY <1>3 DEF ReadsReport, chRunVars, LedgerIsSound
<1>4. CASE SendReport
  BY <1>4, SendReportDoes DEF chRunVars, LedgerIsSound
<1>5. CASE ReadAgent
  <2>1. chTask' = chDisk' \/ UNCHANGED <<chTask, chDisk>>
    BY <1>5, ReadAgentDoes DEF HandsOut
  <2> QED BY <1>5, <2>1, ReadAgentDoes DEF LedgerIsSound
<1>6. CASE \E m \in Ask : RunnerWorks(m)
  <2>1. PICK m \in Ask : RunnerWorks(m)
    BY <1>6
  <2>2. CASE Dispatch(m)
    <3>1. chTask' = chDisk' /\ chUp = "on" /\ chUp' = chUp
      BY <2>2, DispatchDoes DEF HandsOut
    <3> QED BY <3>1 DEF LedgerIsSound
  <2>3. CASE m = chActive.task /\ (StartTurn \/ FinishTurn)
    <3>1. chTask' = chDisk' /\ chUp' = chUp /\ chActive.phase # "idle"
          /\ (chActive' = [task |-> m, phase |-> "turn"] \/ chActive' = Idle)
      BY <2>3, TurnDoes DEF HandsOut
    <3>2. chUp # "off" /\ chActive'.phase # "starting"
      BY <3>1, IdleIs DEF LedgerIsSound
    <3> QED BY <3>1, <3>2 DEF LedgerIsSound
  <2> QED BY <2>1, <2>2, <2>3 DEF RunnerWorks
<1>7. CASE RunnerMoves
  <2>1. /\ chActive' \in {chActive, Idle}
        /\ chUp' = "off" => chActive' = Idle /\ chLink' = "off"
        /\ chUp' # "off" => chTask' = chDisk'
        /\ chActive' # Idle => chUp' = "stopping" /\ chActive.phase # "starting"
    BY <1>7, RunnerDoes
  <2> QED BY <2>1, IdleIs DEF LedgerIsSound
<1> QED BY <1>1, <1>2, <1>3, <1>4, <1>5, <1>6, <1>7, ChatStepIs

\* What no step takes back of a task on disk.
DiskKeeps(m) ==
  /\ chDisk'[m].seq >= chDisk[m].seq
  /\ chDisk[m].status # "none" => chDisk'[m].status # "none"
  /\ IsOver(m) => IsOver(m)'

\* What the runner's steps do to the task they are about and to every other one.
LEMMA RunnerChanges ==
  ASSUME ChatTypes, QueueTypes, LedgerIsSound, \A m \in Ask : TurnsAreSound(m), NEW m \in Ask
  PROVE  /\ ReadAgent =>
              /\ chDisk = chTask /\ chUp # "off" /\ UNCHANGED <<chUp, chActive, chStarted>>
              /\ chDisk'[m].seq >= chDisk[m].seq
              /\ \/ chDisk'[m].status = chDisk[m].status
                 \/ chDisk[m].status = "none" /\ chDisk'[m].status = "queued"
                 \/ chDisk[m].status = "queued" /\ chDisk'[m].status = "cancelled"
         /\ (\E o \in Ask : RunnerWorks(o)) =>
              /\ chDisk = chTask /\ chUp # "off" /\ UNCHANGED chUp
              /\ chDisk'[m].seq >= chDisk[m].seq
              /\ \/ chDisk'[m].status = chDisk[m].status /\ UNCHANGED chStarted
                    /\ (chActive' = chActive \/ chActive'.task # m)
                 \/ chDisk[m].status = "queued" /\ chDisk'[m].status \in {"working", "failed"} /\ UNCHANGED chStarted
                    /\ (chDisk'[m].status = "failed" => chActive'.task # m)
                    /\ (chActive'.task = m => chActive'.phase = "starting")
                 \/ chActive.task = m /\ chActive.phase = "starting" /\ chDisk'[m].status = chDisk[m].status
                    /\ chStarted' = [chStarted EXCEPT ![m] = @ + 1] /\ chActive' = [task |-> m, phase |-> "turn"]
                 \/ chActive.task = m /\ chDisk'[m].status \in Finished /\ chActive' = Idle /\ UNCHANGED chStarted
                 \/ chActive.task # m /\ chActive'.task # m /\ chDisk'[m].status = chDisk[m].status
                    /\ chStarted'[m] = chStarted[m]
<1>0. \A o \in Ask : chTask[o].seq \in Nat
  BY RowFields DEF ChatTypes
<1>1. ASSUME NEW S, HandsOut(S), NEW o \in Ask
      PROVE  chDisk'[o].seq >= chTask[o].seq /\ (o \notin S => chDisk'[o].status = chTask[o].status)
  BY <1>0, <1>1 DEF HandsOut
<1>2. ASSUME ReadAgent
      PROVE  /\ chDisk = chTask /\ chUp # "off" /\ UNCHANGED <<chUp, chActive, chStarted>>
             /\ chDisk'[m].seq >= chDisk[m].seq
             /\ \/ chDisk'[m].status = chDisk[m].status
                \/ chDisk[m].status = "none" /\ chDisk'[m].status = "queued"
                \/ chDisk[m].status = "queued" /\ chDisk'[m].status = "cancelled"
  <2>1. chDisk = chTask /\ chUp # "off" /\ UNCHANGED <<chUp, chActive, chStarted>>
    BY <1>2, ReadAgentDoes DEF LedgerIsSound
  <2>2. CASE UNCHANGED <<chTask, chDisk>>
    BY <1>0, <2>1, <2>2
  <2>3. CASE \E S \in SUBSET Known : HandsOut(S) /\ \A o \in S : chDisk'[o].status = chTask[o].status
    BY <1>1, <2>1, <2>3
  <2>4. CASE \E o \in Ask \ Known : HandsOut({o}) /\ chDisk'[o].status = "queued"
    <3>1. PICK o \in Ask \ Known : HandsOut({o}) /\ chDisk'[o].status = "queued"
      BY <2>4
    <3>2. chDisk[o].status = "none"
      BY <2>1 DEF Known
    <3> QED BY <1>1, <2>1, <3>1, <3>2
  <2>5. CASE \E o \in Known : chTask[o].status = "queued" /\ HandsOut({o}) /\ chDisk'[o].status = "cancelled"
    BY <1>1, <2>1, <2>5
  <2> QED BY <1>2, <2>1, <2>2, <2>3, <2>4, <2>5, ReadAgentDoes
<1>3. ASSUME NEW o \in Ask, Dispatch(o)
      PROVE  /\ chDisk = chTask /\ chUp # "off" /\ UNCHANGED <<chUp, chStarted>>
             /\ chDisk'[m].seq >= chDisk[m].seq
             /\ \/ chDisk'[m].status = chDisk[m].status /\ (chActive' = chActive \/ chActive'.task # m)
                \/ chDisk[m].status = "queued" /\ chDisk'[m].status \in {"working", "failed"}
                    /\ (chDisk'[m].status = "failed" => chActive'.task # m)
                    /\ (chActive'.task = m => chActive'.phase = "starting")
  <2>1. chDisk = chTask /\ chUp = "on" /\ UNCHANGED <<chUp, chStarted>> /\ chActive = Idle /\ chDisk[o].status = "queued"
    BY <1>3, DispatchDoes DEF LedgerIsSound
  <2>2. CASE /\ chDisk'[o].status = "working"
             /\ \A e \in Ask : chDisk'[e].seq = chTask[e].seq /\ (e # o => chDisk'[e].status = chTask[e].status)
             /\ chActive' = [task |-> o, phase |-> "starting"]
    <3>1. chActive'.task = o /\ chActive'.phase = "starting"
      BY <2>2, IdleIs
    <3>2. chDisk'[m].seq >= chDisk[m].seq
      BY <1>0, <2>1, <2>2
    <3> QED BY <2>1, <2>2, <3>1, <3>2
  <2>3. CASE HandsOut({o}) /\ chDisk'[o].status = "failed" /\ UNCHANGED chActive
    <3>1. chActive'.task # m
      BY <2>1, <2>3, IdleIs
    <3> QED BY <1>1, <2>1, <2>3, <3>1
  <2> QED BY <1>3, <2>2, <2>3, DispatchDoes
<1>4. ASSUME NEW o \in Ask, o = chActive.task, StartTurn \/ FinishTurn
      PROVE  /\ chDisk = chTask /\ chUp # "off" /\ UNCHANGED chUp
             /\ chDisk'[m].seq >= chDisk[m].seq
             /\ \/ chActive.task = m /\ chActive.phase = "starting" /\ chDisk'[m].status = chDisk[m].status
                    /\ chStarted' = [chStarted EXCEPT ![m] = @ + 1] /\ chActive' = [task |-> m, phase |-> "turn"]
                \/ chActive.task = m /\ chDisk'[m].status \in Finished /\ chActive' = Idle /\ UNCHANGED chStarted
                \/ chActive.task # m /\ chActive'.task # m /\ chDisk'[m].status = chDisk[m].status
                    /\ chStarted'[m] = chStarted[m]
  <2>1. UNCHANGED chUp /\ HandsOut({o}) /\ chActive.phase # "idle"
        /\ \/ /\ chDisk'[o].status = chTask[o].status /\ chStarted' = [chStarted EXCEPT ![o] = @ + 1]
              /\ chActive' = [task |-> o, phase |-> "turn"] /\ chActive.phase = "starting"
           \/ chDisk'[o].status \in Finished /\ chActive' = Idle /\ UNCHANGED chStarted
    BY <1>4, TurnDoes DEF Finished
  <2>2. chDisk = chTask /\ chUp # "off"
    BY <2>1, IdleIs DEF LedgerIsSound
  <2>3. chDisk'[m].seq >= chDisk[m].seq /\ (m # o => chDisk'[m].status = chDisk[m].status)
    BY <1>1, <2>1, <2>2
  <2>4. m # o => chActive'.task # m /\ chStarted'[m] = chStarted[m]
    BY <2>1, IdleIs DEF ChatTypes
  <2> QED BY <1>4, <2>1, <2>2, <2>3, <2>4
<1>5. ASSUME \E o \in Ask : RunnerWorks(o)
      PROVE  /\ chDisk = chTask /\ chUp # "off" /\ UNCHANGED chUp
              /\ chDisk'[m].seq >= chDisk[m].seq
              /\ \/ chDisk'[m].status = chDisk[m].status /\ UNCHANGED chStarted
                    /\ (chActive' = chActive \/ chActive'.task # m)
                 \/ chDisk[m].status = "queued" /\ chDisk'[m].status \in {"working", "failed"} /\ UNCHANGED chStarted
                    /\ (chDisk'[m].status = "failed" => chActive'.task # m)
                    /\ (chActive'.task = m => chActive'.phase = "starting")
                 \/ chActive.task = m /\ chActive.phase = "starting" /\ chDisk'[m].status = chDisk[m].status
                    /\ chStarted' = [chStarted EXCEPT ![m] = @ + 1] /\ chActive' = [task |-> m, phase |-> "turn"]
                 \/ chActive.task = m /\ chDisk'[m].status \in Finished /\ chActive' = Idle /\ UNCHANGED chStarted
                 \/ chActive.task # m /\ chActive'.task # m /\ chDisk'[m].status = chDisk[m].status
                    /\ chStarted'[m] = chStarted[m]
  <2>1. PICK o \in Ask : RunnerWorks(o)
    BY <1>5
  <2>2. CASE Dispatch(o)
    BY <1>3, <2>2
  <2>3. CASE o = chActive.task /\ (StartTurn \/ FinishTurn)
    BY <1>4, <2>3
  <2> QED BY <2>1, <2>2, <2>3 DEF RunnerWorks
<1> QED BY <1>2, <1>5

\* No step takes back what is on disk.
LEMMA DiskIsKept ==
  ASSUME ChatTypes, QueueTypes, LedgerIsSound, \A m \in Ask : TurnsAreSound(m), [ChatNext]_chVars, NEW m \in Ask
  PROVE  DiskKeeps(m)
<1>0. chDisk[m].seq \in Nat /\ chDisk[m].seq >= chDisk[m].seq
  BY RowFields DEF ChatTypes
<1>1. CASE UNCHANGED <<chDisk, chActive, chUp>>
  BY <1>0, <1>1 DEF DiskKeeps, IsOver
<1>2. UNCHANGED chVars \/ QuietStep \/ ReadsReport \/ SendReport => UNCHANGED <<chDisk, chActive, chUp>>
  BY SendReportDoes DEF chVars, chRunVars, QuietStep, ReadsReport
<1>3. CASE ReadAgent
  BY <1>3, RunnerChanges DEF DiskKeeps, IsOver, Finished
<1>4. CASE \E o \in Ask : RunnerWorks(o)
  <2>1. chActive.task = m => chUp \in {"on", "stopping"}
    BY IdleIs DEF LedgerIsSound, ChatTypes
  <2>2. IsOver(m) /\ chActive.task = m => chActive.phase # "starting"
    BY DEF IsOver, LedgerIsSound
  <2> QED BY <1>4, <2>1, <2>2, IdleIs, RunnerChanges DEF DiskKeeps, IsOver, Finished
<1>5. CASE RunnerMoves
  <2>1. /\ chDisk'[m].seq = chDisk[m].seq
              /\ \/ chDisk'[m].status = chDisk[m].status
                 \/ chDisk[m].status = "working" /\ chDisk'[m].status = "interrupted"
                 \/ chDisk[m].status = "queued" /\ chDisk'[m].status = "cancelled"
                 \/ chUp = "on" /\ chActive.task = m /\ chDisk'[m].status = "interrupted"
    BY <1>5, RunnerDoes
  <2>2. chActive'.task = m => chUp' = "stopping"
    BY <1>5, RunnerDoes, IdleIs
  <2> QED BY <1>0, <2>1, <2>2 DEF DiskKeeps, IsOver, Finished
<1> QED BY <1>1, <1>2, <1>3, <1>4, <1>5, ChatStepIs

\* Every step keeps a task to one turn.
LEMMA TurnsKept ==
  ASSUME ChatTypes, QueueTypes, LedgerIsSound, \A m \in Ask : TurnsAreSound(m), [ChatNext]_chVars, NEW m \in Ask
  PROVE  TurnsAreSound(m)'
<1>0. TurnsAreSound(m) /\ chStarted \in [Ask -> Nat]
  BY DEF ChatTypes
<1>1. CASE UNCHANGED <<chDisk, chActive, chUp, chStarted>>
  BY <1>0, <1>1 DEF TurnsAreSound
<1>2. UNCHANGED chVars \/ QuietStep \/ ReadsReport \/ SendReport => UNCHANGED <<chDisk, chActive, chUp, chStarted>>
  BY SendReportDoes DEF chVars, chRunVars, QuietStep, ReadsReport
<1>3. CASE ReadAgent
  <2>1. chActive.task = m /\ chUp = "on" => chDisk[m].status = "working"
    BY <1>0 DEF TurnsAreSound
  <2> QED BY <1>0, <1>3, <2>1, RunnerChanges DEF TurnsAreSound
<1>4. CASE \E o \in Ask : RunnerWorks(o)
  <2>1. CASE chActive.task = m /\ chActive.phase = "starting" /\ chDisk'[m].status = chDisk[m].status /\ UNCHANGED chUp
                    /\ chStarted' = [chStarted EXCEPT ![m] = @ + 1] /\ chActive' = [task |-> m, phase |-> "turn"]
    <3>1. chStarted'[m] = 1 /\ chActive'.phase = "turn"
      BY <1>0, <2>1, IdleIs DEF TurnsAreSound
    <3> QED BY <1>0, <2>1, <3>1 DEF TurnsAreSound
  <2> QED BY <1>0, <1>4, <2>1, IdleIs, RunnerChanges DEF TurnsAreSound, Finished
<1>5. CASE RunnerMoves
  <2>1. \/ chDisk'[m].status = chDisk[m].status
        \/ chDisk'[m].status \in {"interrupted", "cancelled"}
    BY <1>5, RunnerDoes
  <2>2. chActive'.task = m => chUp' = "stopping" /\ chActive'.phase # "starting" /\ chActive'.task = chActive.task
    BY <1>5, RunnerDoes, IdleIs
  <2>3. UNCHANGED chStarted
    BY <1>5, RunnerDoes
  <2> QED BY <1>0, <2>1, <2>2, <2>3 DEF TurnsAreSound
<1> QED BY <1>1, <1>2, <1>3, <1>4, <1>5, ChatStepIs

\* What holds before a step, for the lemmas below.
RunnerIsSound ==
  /\ ChatTypes /\ QueueTypes /\ LedgerIsSound
  /\ \A m \in Ask : TurnsAreSound(m)

\* Reports that were handed out in this step: none of them says that a task is
\* over that is still worked on.
Reports(S) ==
  /\ S \in SUBSET Ask /\ HandsOut(S) /\ chTask = chDisk
  /\ \A m \in S : /\ chDisk'[m].status # "none"
                  /\ chDisk'[m].status \in Finished => (chActive'.task = m => chUp' = "stopping")
\* A request of a task that is not known is refused.
Refuses(m) ==
  /\ chDisk[m].status = "none" /\ UNCHANGED <<chTask, chDisk, chSaid>>
  /\ chOut' = Append(chOut, [kind |-> "task", task |-> m, status |-> "failed", seq |-> 0])

\* What the runner's steps hand out.
LEMMA WorkIs ==
  ASSUME RunnerIsSound
  PROVE  /\ ReadAgent => \/ UNCHANGED <<chOut, chSaid>> \/ (\E S : Reports(S)) \/ (\E m \in Ask : Refuses(m))
         /\ ReadAgent \/ (\E m \in Ask : RunnerWorks(m)) =>
              UNCHANGED <<chBrowserVars, chToBrowser>> /\ chPending' \in {chPending, NoFrame}
         /\ (\E m \in Ask : RunnerWorks(m)) => UNCHANGED <<chOut, chSaid>> \/ \E S : Reports(S)
<1>0. ChatTypes /\ QueueTypes /\ LedgerIsSound /\ \A m \in Ask : TurnsAreSound(m)
  BY DEF RunnerIsSound
<1>1. ASSUME ReadAgent
      PROVE  \/ UNCHANGED <<chOut, chSaid>> \/ (\E S : Reports(S)) \/ (\E m \in Ask : Refuses(m))
  <2>1. chTask = chDisk /\ chUp # "off" /\ UNCHANGED <<chUp, chActive>> /\ chUp \in {"off", "on", "stopping"}
    BY <1>0, <1>1, ReadAgentDoes DEF LedgerIsSound, ChatTypes
  <2>2. \A m \in Ask : chActive.task = m /\ chUp # "stopping" => chDisk[m].status = "working"
    BY <1>0, <2>1 DEF TurnsAreSound
  <2>3. CASE \E S \in SUBSET Known : HandsOut(S) /\ \A o \in S : chDisk'[o].status = chTask[o].status
    <3>1. PICK S \in SUBSET Known : HandsOut(S) /\ \A o \in S : chDisk'[o].status = chTask[o].status
      BY <2>3
    <3>2. S \in SUBSET Ask /\ \A o \in S : chTask[o].status # "none"
      BY DEF Known
    <3>3. Reports(S)
      BY <2>1, <2>2, <3>1, <3>2 DEF Reports, Finished
    <3> QED BY <3>3
  <2>4. CASE \E o \in Ask \ Known : HandsOut({o}) /\ chDisk'[o].status = "queued"
    <3>1. PICK o \in Ask \ Known : HandsOut({o}) /\ chDisk'[o].status = "queued"
      BY <2>4
    <3>2. Reports({o})
      BY <2>1, <3>1 DEF Reports, Finished
    <3> QED BY <3>2
  <2>5. CASE \E o \in Known : chTask[o].status = "queued" /\ HandsOut({o}) /\ chDisk'[o].status = "cancelled"
    <3>1. PICK o \in Known : chTask[o].status = "queued" /\ HandsOut({o}) /\ chDisk'[o].status = "cancelled"
      BY <2>5
    <3>2. o \in Ask
      BY DEF Known
    <3>3. Reports({o})
      BY <2>1, <2>2, <3>1, <3>2 DEF Reports
    <3> QED BY <3>3
  <2>6. CASE \E o \in Ask \ Known :
                 /\ UNCHANGED <<chTask, chDisk, chSaid>>
                 /\ chOut' = Append(chOut, [kind |-> "task", task |-> o, status |-> "failed", seq |-> 0])
    <3>1. \A o \in Ask \ Known : chDisk[o].status = "none"
      BY <2>1 DEF Known
    <3> QED BY <2>6, <3>1 DEF Refuses
  <2> QED BY <1>0, <1>1, <2>3, <2>4, <2>5, <2>6, ReadAgentDoes
<1>2. ASSUME NEW m \in Ask, Dispatch(m)
      PROVE  /\ UNCHANGED <<chBrowserVars, chToBrowser>> /\ chPending' \in {chPending, NoFrame}
             /\ UNCHANGED <<chOut, chSaid>> \/ \E S : Reports(S)
  <2>1. /\ UNCHANGED <<chBrowserVars, chHubVars, chPending>> /\ chUp = "on" /\ chActive = Idle
        /\ UNCHANGED <<chOut, chSaid>> \/ (HandsOut({m}) /\ chDisk'[m].status = "failed" /\ UNCHANGED chActive)
    BY <1>0, <1>2, DispatchDoes
  <2>2. HandsOut({m}) /\ chDisk'[m].status = "failed" /\ UNCHANGED chActive => Reports({m})
    BY <1>0, <2>1, IdleIs DEF Reports, LedgerIsSound
  <2> QED BY <2>1, <2>2 DEF chHubVars
<1>3. ASSUME NEW m \in Ask, m = chActive.task, StartTurn \/ FinishTurn
      PROVE  /\ UNCHANGED <<chBrowserVars, chToBrowser>> /\ chPending' \in {chPending, NoFrame}
             /\ \E S : Reports(S)
  <2>1. /\ UNCHANGED <<chBrowserVars, chHubVars, chPending, chUp>> /\ HandsOut({m})
        /\ \/ chActive.phase = "starting" /\ chDisk'[m].status = chTask[m].status
           \/ chDisk'[m].status \in {"completed", "failed", "cancelled"} /\ chActive' = Idle
    BY <1>0, <1>3, TurnDoes
  <2>2. chTask = chDisk /\ chUp # "off"
    BY <1>0, <1>3, IdleIs DEF LedgerIsSound
  <2>3. chActive.phase = "starting" => chDisk[m].status = "working"
    BY <1>0, <1>3 DEF LedgerIsSound, TurnsAreSound
  <2>4. Reports({m})
    BY <2>1, <2>2, <2>3, IdleIs DEF Reports, Finished
  <2> QED BY <2>1, <2>4 DEF chHubVars
<1>4. ASSUME ReadAgent PROVE UNCHANGED <<chBrowserVars, chToBrowser>> /\ chPending' \in {chPending, NoFrame}
  BY <1>0, <1>4, ReadAgentDoes
<1> QED BY <1>1, <1>2, <1>3, <1>4 DEF RunnerWorks

\* The frame of a refusal.
LEMMA RefusalFrame ==
  ASSUME NEW m \in Ask
  PROVE  \E x \in TaskFrames : /\ x = [kind |-> "task", task |-> m, status |-> "failed", seq |-> 0]
                               /\ x.task = m /\ x.status = "failed" /\ x.seq = 0
<1>1. PICK x : x = [kind |-> "task", task |-> m, status |-> "failed", seq |-> 0]
  OBVIOUS
<1>2. x \in TaskFrames /\ x.task = m /\ x.status = "failed" /\ x.seq = 0
  BY <1>1 DEF TaskFrames, ChatStatuses
<1> QED BY <1>1, <1>2

\* A report is known by its task, status and sequence.
LEMMA SameFrame ==
  \A f, g \in TaskFrames : f.task = g.task /\ f.status = g.status /\ f.seq = g.seq => f = g
BY DEF TaskFrames

\* Every step keeps what reports say, and that no two say it in one way.
LEMMA SaidKept ==
  ASSUME RunnerIsSound, \A f \in chSaid : SaidIsKept(f), SaidOnce, [ChatNext]_chVars
  PROVE  (\A f \in chSaid' : SaidIsKept(f)') /\ SaidOnce'
<1>0. /\ ChatTypes /\ QueueTypes /\ LedgerIsSound
      /\ \A m \in Ask : TurnsAreSound(m)
  BY DEF RunnerIsSound
<1>1. \A m \in Ask : DiskKeeps(m)
  BY <1>0, DiskIsKept
<1>2. /\ chDisk' \in [Ask -> TaskRows] /\ chDisk \in [Ask -> TaskRows]
      /\ chSaid \subseteq TaskFrames /\ chSaid' \subseteq TaskFrames
  BY <1>0, ChatTypesKept DEF ChatTypes
<1>3. ASSUME NEW f \in chSaid PROVE SaidIsKept(f)'
  <2>1. f.task \in Ask /\ f.seq \in Nat /\ SaidIsKept(f) /\ DiskKeeps(f.task)
    BY <1>1, <1>2, FrameFields
  <2>2. chDisk[f.task].seq \in Nat /\ chDisk'[f.task].seq \in Nat
    BY <1>2, <2>1, RowFields
  <2> QED BY <2>1, <2>2 DEF SaidIsKept, DiskKeeps
<1>4. CASE UNCHANGED chSaid
  BY <1>3, <1>4 DEF SaidOnce
<1>5. ASSUME NEW S, Reports(S) PROVE (\A f \in chSaid' : SaidIsKept(f)') /\ SaidOnce'
  <2>1. PICK s \in Seq(TaskFrames) : /\ chSaid' = chSaid \cup Frames(s)
            /\ \A f \in Frames(s) : f.task \in S /\ f.status = chDisk'[f.task].status /\ f.seq = chDisk'[f.task].seq
    BY <1>5 DEF Reports, HandsOut
  <2>2. \A m \in S : m \in Ask /\ chDisk'[m].seq = chDisk[m].seq + 1 /\ chDisk[m].seq \in Nat /\ chDisk'[m].seq \in Nat
    BY <1>2, <1>5, RowFields DEF Reports, HandsOut
  <2>3. \A f \in Frames(s) : SaidIsKept(f)'
    <3> TAKE f \in Frames(s)
    <3>1. f.task \in S /\ f.seq > 0 /\ f.seq <= chDisk'[f.task].seq
      BY <2>1, <2>2
    <3> QED BY <1>5, <2>1, <3>1 DEF Reports, SaidIsKept, IsOver
  <2>4. Frames(s) \subseteq TaskFrames
    BY FramesChange
  <2>5. \A f, g \in Frames(s) : f.task = g.task => f = g
    BY <2>1, <2>4, SameFrame
  <2>6. \A f \in chSaid, g \in Frames(s) : ~(f.task = g.task /\ f.seq = g.seq)
    <3> TAKE f \in chSaid, g \in Frames(s)
    <3>1. SaidIsKept(f) /\ g.task \in S /\ g.seq = chDisk[g.task].seq + 1 /\ chDisk[g.task].seq \in Nat
      BY <2>1, <2>2
    <3>2. f.seq \in Nat
      BY <1>2, FrameFields
    <3> QED BY <3>1, <3>2 DEF SaidIsKept
  <2>7. SaidOnce'
    BY <2>1, <2>5, <2>6 DEF SaidOnce
  <2> QED BY <1>3, <2>1, <2>3, <2>7
<1>6. UNCHANGED chVars \/ QuietStep \/ ReadsReport \/ SendReport \/ RunnerMoves => UNCHANGED chSaid
  BY <1>0, SendReportDoes, RunnerDoes DEF chVars, chRunVars, QuietStep, ReadsReport
<1>7. ReadAgent \/ (\E m \in Ask : RunnerWorks(m)) => UNCHANGED chSaid \/ \E S : Reports(S)
  BY WorkIs DEF Refuses
<1> QED BY <1>0, <1>4, <1>5, <1>6, <1>7, ChatStepIs

\* What the frames on the way to the browser are sound against.
ChatIsSound ==
  /\ RunnerIsSound /\ (\A f \in chSaid : SaidIsKept(f)) /\ (\A m \in Ask : ShownIsKept(m))

\* A request that the runner does not have on disk was reported by nothing.
LEMMA UnknownIsQuiet ==
  ASSUME ChatIsSound, WayIsSound, NEW m \in Ask, chDisk[m].status = "none"
  PROVE  chShown[m].seq = 0 /\ \A f \in OnTheWay : ~IsReport(f, m)
<1>1. chShown[m].seq \in Nat
  BY RowFields DEF ChatIsSound, RunnerIsSound, ChatTypes
<1>2. chShown[m].seq = 0
  BY <1>1 DEF ChatIsSound, ShownIsKept
<1>3. ASSUME NEW f \in OnTheWay, IsReport(f, m) PROVE FALSE
  <2>1. f \in chSaid
    BY <1>3 DEF WayIsSound, IsReport
  <2> QED BY <1>3, <2>1 DEF ChatIsSound, SaidIsKept, IsReport
<1> QED BY <1>2, <1>3

\* Every step keeps what is on the way to the browser.
LEMMA WayKept ==
  ASSUME ChatIsSound, WayIsSound, OrderIsSound, [ChatNext]_chVars, RunnerIsSound', chSaid \subseteq chSaid'
  PROVE  WayIsSound'
<1>0. /\ RunnerIsSound /\ ChatTypes /\ QueueTypes /\ LedgerIsSound
      /\ chToBrowser \in Seq(ToBrowser) /\ chOut \in Seq(TaskFrames)
  BY DEF ChatIsSound, RunnerIsSound, QueueTypes
<1>1. ASSUME \A f \in OnTheWay' : f.kind = "task" => f \in OnTheWay,
             \A m \in Ask : chShown'[m].seq = chShown[m].seq
      PROVE  WayIsSound'
  <2>1. \A f \in OnTheWay' : f.kind = "task" => f \in TaskFrames
    <3>1. Frames(chOut') \subseteq TaskFrames /\ Frames(chToBrowser') \subseteq ToBrowser
          /\ (chPending' \in TaskFrames \/ chPending' = NoFrame)
      BY FramesChange DEF RunnerIsSound, QueueTypes
    <3> QED BY <3>1, FrameFields DEF OnTheWay
  <2> QED BY <1>1, <2>1, FrameFields DEF WayIsSound
<1>2. CASE UNCHANGED chVars
  BY <1>1, <1>2 DEF chVars, chBrowserVars, chHubVars, chLinkVars, OnTheWay, Frames
<1>3. CASE QuietStep
  <2>1. \A m \in Ask : chShown'[m].seq = chShown[m].seq
    BY <1>3 DEF QuietStep
  <2>2. \A f \in OnTheWay' : f.kind = "task" => f \in OnTheWay
    BY <1>3, FrameFields DEF QuietStep, Quieter, OnTheWay
  <2> QED BY <1>1, <2>1, <2>2
<1>4. CASE ReadsReport
  <2>1. PICK f \in TaskFrames : f = Head(chToBrowser) /\ IsShown(f)
    BY <1>4 DEF ReadsReport
  <2>2. f.task \in Ask /\ f.status \in ChatStatuses /\ f.seq \in Nat /\ f.kind = "task"
    BY FrameFields
  <2>3. chToBrowser # <<>> /\ f \in Frames(chToBrowser) /\ Frames(chToBrowser') \subseteq Frames(chToBrowser)
        /\ UNCHANGED <<chRunVars, chOut, chPending>>
    BY <1>0, <1>4, <2>1, FramesChange DEF ReadsReport
  <2>4. chShown \in [Ask -> TaskRows] /\ chShown[f.task] \in TaskRows
    BY <1>0, <2>2 DEF ChatTypes
  <2>5. \A m \in Ask : m # f.task => chShown'[m] = chShown[m]
    BY <2>1, <2>2, <2>4 DEF IsShown
  <2>6. f.seq = 0 => chShown'[f.task].seq = chShown[f.task].seq
    <3>1. [chShown[f.task] EXCEPT !.status = f.status].seq = chShown[f.task].seq
      BY <2>4 DEF TaskRows
    <3> QED BY <2>1, <2>2, <2>4, <3>1 DEF IsShown
  <2>7. OnTheWay' \subseteq OnTheWay
    BY <2>3 DEF OnTheWay
  <2>8. CASE f.seq = 0
    BY <1>1, <2>5, <2>6, <2>7, <2>8
  <2>9. CASE f.seq > 0
    <3>1. IsReport(f, f.task)
      BY <2>2, <2>9 DEF IsReport
    <3>2. \A g \in Frames(chToBrowser) : ~IsRefusal(g, f.task)
      BY <1>0, <2>1, <2>2, <2>3, <3>1, OrderChanges DEF OrderIsSound
    <3>3. ~IsRefusal(chPending, f.task)
      BY <2>2, <2>3, <3>1 DEF OrderIsSound
    <3>4. \A g \in Frames(chOut) : ~IsRefusal(g, f.task)
      BY <2>2, <2>3, <3>1 DEF OrderIsSound
    <3>5. \A g \in OnTheWay' : g.kind = "task" /\ ~(g.seq > 0) => g.task # f.task
      <4> SUFFICES ASSUME NEW g \in OnTheWay', g.kind = "task", ~(g.seq > 0), g.task = f.task PROVE FALSE
        OBVIOUS
      <4>1. g \in OnTheWay /\ g \in TaskFrames
        <5>1. Frames(chOut) \subseteq TaskFrames /\ Frames(chToBrowser) \subseteq ToBrowser
              /\ (chPending \in TaskFrames \/ chPending = NoFrame)
          BY <1>0, FramesChange DEF QueueTypes
        <5> QED BY <2>7, <5>1, FrameFields DEF OnTheWay
      <4>2. g.seq = 0
        BY <4>1, FrameFields
      <4>3. IsRefusal(g, f.task)
        BY <4>2 DEF IsRefusal
      <4> QED BY <3>2, <3>3, <3>4, <4>1, <4>3 DEF OnTheWay
    <3>6. \A g \in OnTheWay : g.kind = "task" => g.task \in Ask
      <4>1. Frames(chOut) \subseteq TaskFrames /\ Frames(chToBrowser) \subseteq ToBrowser
              /\ (chPending \in TaskFrames \/ chPending = NoFrame)
        BY <1>0, FramesChange DEF QueueTypes
      <4> QED BY <4>1, FrameFields DEF OnTheWay
    <3>7. chSaid' = chSaid
      BY <2>3 DEF chRunVars
    <3> QED BY <2>5, <2>7, <3>5, <3>6, <3>7 DEF WayIsSound
  <2> QED BY <2>2, <2>8, <2>9
<1>5. CASE SendReport
  <2>1. PICK f \in TaskFrames :
              /\ \/ f = chPending /\ chOut' = chOut
                 \/ chPending = NoFrame /\ chOut # <<>> /\ f = Head(chOut) /\ chOut' = Tail(chOut)
              /\ chPending' \in {chPending, f, NoFrame}
              /\ \/ chToBrowser' = chToBrowser
                 \/ chToBrowser' = Append(chToBrowser, f) /\ chPending' = NoFrame
    BY <1>0, <1>5, SendReportDoes
  <2>6. chOut # <<>> => Head(chOut) \in Frames(chOut) /\ Frames(Tail(chOut)) \subseteq Frames(chOut)
    BY <1>0, FramesChange
  <2>2. f \in OnTheWay /\ Frames(chOut') \subseteq Frames(chOut)
    BY <2>1, <2>6 DEF OnTheWay
  <2>7. f \in ToBrowser
    BY FrameFields
  <2>8. Frames(Append(chToBrowser, f)) = Frames(chToBrowser) \cup {f}
    BY <1>0, <2>7, FramesChange
  <2>3. Frames(chToBrowser') \subseteq Frames(chToBrowser) \cup {f}
    BY <2>1, <2>8
  <2>4. \A g \in OnTheWay' : g.kind = "task" => g \in OnTheWay
    BY <2>1, <2>2, <2>3, FrameFields DEF OnTheWay
  <2>5. UNCHANGED chShown
    BY <1>0, <1>5, SendReportDoes DEF chBrowserVars
  <2> QED BY <1>1, <2>4, <2>5
<1>6. CASE /\ UNCHANGED chToBrowser /\ UNCHANGED chShown /\ chPending' \in {chPending, NoFrame}
           /\ UNCHANGED chOut \/ chOut' = <<>>
  <2>1. Frames(<<>>) = {}
    BY DEF Frames
  <2>2. \A g \in OnTheWay' : g.kind = "task" => g \in OnTheWay
    BY <1>6, <2>1, FrameFields DEF OnTheWay
  <2> QED BY <1>1, <1>6, <2>2
<1>7. RunnerMoves => /\ UNCHANGED chToBrowser /\ UNCHANGED chShown /\ chPending' \in {chPending, NoFrame}
                     /\ UNCHANGED chOut \/ chOut' = <<>>
  BY <1>0, RunnerDoes DEF chBrowserVars, chHubVars
<1>8. CASE /\ UNCHANGED chToBrowser /\ UNCHANGED chShown /\ chPending' \in {chPending, NoFrame}
           /\ \E S : Reports(S)
  <2>1. PICK S : Reports(S)
    BY <1>8
  <2>2. PICK s \in Seq(TaskFrames) : /\ chOut' = chOut \o s /\ chSaid' = chSaid \cup Frames(s)
            /\ \A f \in Frames(s) : f.task \in S /\ f.status = chDisk'[f.task].status /\ f.seq = chDisk'[f.task].seq
    BY <2>1 DEF Reports, HandsOut
  <2>3. \A m \in S : m \in Ask /\ chDisk'[m].seq = chDisk[m].seq + 1 /\ chDisk[m].seq \in Nat
    BY <1>0, <2>1, RowFields DEF Reports, HandsOut, ChatTypes
  <2>4. \A f \in Frames(s) : f.seq > 0 /\ f \in chSaid'
    BY <2>2, <2>3
  <2>5. Frames(chOut') = Frames(chOut) \cup Frames(s)
    BY <1>0, <2>2, FramesChange
  <2>6. \A f \in OnTheWay' : f.kind = "task" => f \in OnTheWay \/ f \in Frames(s)
    BY <1>8, <2>5, FrameFields DEF OnTheWay
  <2> QED BY <1>8, <2>4, <2>6 DEF WayIsSound
<1>9. CASE /\ UNCHANGED chToBrowser /\ UNCHANGED chShown /\ chPending' \in {chPending, NoFrame}
           /\ \E m \in Ask : Refuses(m)
  <2>1. PICK m \in Ask : Refuses(m)
    BY <1>9
  <2>2. PICK x \in TaskFrames : x = [kind |-> "task", task |-> m, status |-> "failed", seq |-> 0]
            /\ x.task = m /\ x.status = "failed" /\ x.seq = 0
    BY RefusalFrame
  <2>3. chOut' = Append(chOut, x) /\ chDisk[m].status = "none" /\ chSaid' = chSaid
    BY <2>1, <2>2 DEF Refuses
  <2>4. Frames(chOut') = Frames(chOut) \cup {x}
    BY <1>0, <2>3, FramesChange
  <2>5. chShown[m].seq = 0
    BY <2>3, UnknownIsQuiet
  <2>6. \A f \in OnTheWay' : f.kind = "task" => f \in OnTheWay \/ f = x
    BY <1>9, <2>4, FrameFields DEF OnTheWay
  <2> QED BY <1>9, <2>2, <2>3, <2>5, <2>6 DEF WayIsSound
<1>10. ReadAgent \/ (\E m \in Ask : RunnerWorks(m)) =>
           /\ UNCHANGED chToBrowser /\ UNCHANGED chShown /\ chPending' \in {chPending, NoFrame}
           /\ UNCHANGED chOut \/ (\E S : Reports(S)) \/ (\E m \in Ask : Refuses(m))
  BY <1>0, WorkIs DEF chBrowserVars
<1> QED BY <1>0, <1>2, <1>3, <1>4, <1>5, <1>6, <1>7, <1>8, <1>9, <1>10, ChatStepIs

\* No step lets a report overtake a refusal of its request.
LEMMA OrderKept ==
  ASSUME ChatIsSound, WayIsSound, OrderIsSound, [ChatNext]_chVars
  PROVE  OrderIsSound'
<1>0. /\ RunnerIsSound /\ ChatTypes /\ QueueTypes /\ LedgerIsSound
      /\ chToBrowser \in Seq(ToBrowser) /\ chOut \in Seq(TaskFrames)
      /\ RefusedFirst(chToBrowser) /\ RefusedFirst(chOut)
      /\ chPending \in TaskFrames \cup {NoFrame}
  BY DEF ChatIsSound, RunnerIsSound, QueueTypes, OrderIsSound
<1>1. /\ Frames(chOut) \subseteq TaskFrames /\ Frames(chToBrowser) \subseteq ToBrowser
      /\ \A m : ~IsReport(NoFrame, m) /\ ~IsRefusal(NoFrame, m)
  BY <1>0, FramesChange, FrameFields DEF IsReport, IsRefusal
\* Nothing is added, and the order is kept.
<1>2. ASSUME RefusedFirst(chToBrowser'), RefusedFirst(chOut'),
             \A f \in Frames(chToBrowser') : f.kind = "task" => f \in Frames(chToBrowser),
             \A f \in Frames(chOut') : \A m \in Ask : IsRefusal(f, m) => f \in Frames(chOut),
             chPending' \in {chPending, NoFrame}
      PROVE  OrderIsSound'
  BY <1>1, <1>2 DEF OrderIsSound, IsReport, IsRefusal
<1>3. CASE UNCHANGED chVars
  BY <1>0, <1>2, <1>3 DEF chVars, chHubVars, chLinkVars
<1>4. CASE QuietStep
  BY <1>0, <1>2, <1>4 DEF QuietStep, Quieter
<1>5. CASE ReadsReport
  <2>1. RefusedFirst(chToBrowser') /\ Frames(chToBrowser') \subseteq Frames(chToBrowser)
        /\ UNCHANGED <<chOut, chPending>>
    BY <1>0, <1>5, FramesChange, OrderChanges DEF ReadsReport
  <2> QED BY <1>0, <1>2, <2>1
<1>6. CASE SendReport
  <2>1. PICK f \in TaskFrames :
              /\ \/ f = chPending /\ chOut' = chOut
                 \/ chPending = NoFrame /\ chOut # <<>> /\ f = Head(chOut) /\ chOut' = Tail(chOut)
              /\ chPending' \in {chPending, f, NoFrame}
              /\ \/ chToBrowser' = chToBrowser
                 \/ chToBrowser' = Append(chToBrowser, f) /\ chPending' = NoFrame
    BY <1>0, <1>6, SendReportDoes
  <2>7. chOut # <<>> => Frames(Tail(chOut)) \subseteq Frames(chOut)
    BY <1>0, FramesChange
  <2>8. chOut # <<>> => RefusedFirst(Tail(chOut))
    BY <1>0, OrderChanges
  <2>2. /\ RefusedFirst(chOut') /\ Frames(chOut') \subseteq Frames(chOut)
    BY <1>0, <2>1, <2>7, <2>8
  <2>3. \A m \in Ask : IsRefusal(f, m) => \A g \in Frames(chToBrowser) : ~IsReport(g, m)
    <3>1. CASE f = chPending
      BY <3>1 DEF OrderIsSound
    <3>2. CASE chPending = NoFrame /\ chOut # <<>> /\ f = Head(chOut)
      <4>1. f \in Frames(chOut)
        BY <1>0, <3>2, FramesChange
      <4> QED BY <4>1 DEF OrderIsSound
    <3> QED BY <2>1, <3>1, <3>2
  <2>4. \A m \in Ask : (\E g \in Frames(chOut') : IsRefusal(g, m)) => ~IsReport(f, m)
    <3>1. CASE f = chPending
      BY <2>2, <3>1 DEF OrderIsSound
    <3>2. CASE chPending = NoFrame /\ chOut # <<>> /\ f = Head(chOut)
      BY <1>0, <2>2, <3>2, OrderChanges
    <3> QED BY <2>1, <3>1, <3>2
  <2>5. CASE chToBrowser' = chToBrowser
    BY <1>0, <1>1, <2>1, <2>2, <2>3, <2>4, <2>5 DEF OrderIsSound
  <2>6. CASE chToBrowser' = Append(chToBrowser, f) /\ chPending' = NoFrame
    <3>1. f \in ToBrowser
      BY FrameFields
    <3>2. RefusedFirst(chToBrowser')
      BY <1>0, <2>3, <2>6, <3>1, OrderChanges
    <3>3. Frames(chToBrowser') = Frames(chToBrowser) \cup {f}
      BY <1>0, <2>6, <3>1, FramesChange
    <3> QED BY <1>1, <2>2, <2>4, <2>6, <3>2, <3>3 DEF OrderIsSound
  <2> QED BY <2>1, <2>5, <2>6
<1>7. CASE /\ UNCHANGED chToBrowser /\ chPending' \in {chPending, NoFrame}
           /\ UNCHANGED chOut \/ chOut' = <<>>
  <2>1. Frames(<<>>) = {} /\ RefusedFirst(<<>>)
    BY DEF Frames, RefusedFirst
  <2> QED BY <1>0, <1>2, <1>7, <2>1
<1>8. RunnerMoves => /\ UNCHANGED chToBrowser /\ chPending' \in {chPending, NoFrame}
                     /\ UNCHANGED chOut \/ chOut' = <<>>
  BY <1>0, RunnerDoes DEF chHubVars
<1>9. CASE UNCHANGED chToBrowser /\ chPending' \in {chPending, NoFrame} /\ \E S : Reports(S)
  <2>1. PICK S : Reports(S)
    BY <1>9
  <2>2. PICK s \in Seq(TaskFrames) : /\ chOut' = chOut \o s
            /\ \A f \in Frames(s) : f.task \in S /\ f.seq = chDisk'[f.task].seq
    BY <2>1 DEF Reports, HandsOut
  <2>3. \A m \in S : m \in Ask /\ chDisk'[m].seq = chDisk[m].seq + 1 /\ chDisk[m].seq \in Nat
    BY <1>0, <2>1, RowFields DEF Reports, HandsOut, ChatTypes
  <2>4. \A f \in Frames(s) : \A m \in Ask : ~IsRefusal(f, m)
    BY <2>2, <2>3 DEF IsRefusal
  <2>5. RefusedFirst(chOut') /\ Frames(chOut') = Frames(chOut) \cup Frames(s)
    BY <1>0, <2>2, <2>4, FramesChange, OrderChanges
  <2> QED BY <1>0, <1>2, <1>9, <2>4, <2>5
<1>10. CASE UNCHANGED chToBrowser /\ chPending' \in {chPending, NoFrame} /\ \E m \in Ask : Refuses(m)
  <2>1. PICK m \in Ask : Refuses(m)
    BY <1>10
  <2>2. PICK x \in TaskFrames : x = [kind |-> "task", task |-> m, status |-> "failed", seq |-> 0] /\ x.task = m
    BY RefusalFrame
  <2>3. chOut' = Append(chOut, x) /\ chDisk[m].status = "none"
    BY <2>1, <2>2 DEF Refuses
  <2>4. \A f \in OnTheWay : ~IsReport(f, m)
    BY <2>3, UnknownIsQuiet
  <2>5. \A o \in Ask : IsRefusal(x, o) => o = m
    BY <2>2 DEF IsRefusal
  <2>6. RefusedFirst(chOut')
    BY <1>0, <2>3, <2>4, <2>5, OrderChanges DEF OnTheWay
  <2>7. Frames(chOut') = Frames(chOut) \cup {x}
    BY <1>0, <2>3, FramesChange
  <2> QED BY <1>0, <1>1, <1>10, <2>4, <2>5, <2>6, <2>7 DEF OrderIsSound, OnTheWay
<1>11. ReadAgent \/ (\E m \in Ask : RunnerWorks(m)) =>
           /\ UNCHANGED chToBrowser /\ chPending' \in {chPending, NoFrame}
           /\ UNCHANGED chOut \/ (\E S : Reports(S)) \/ (\E m \in Ask : Refuses(m))
  BY <1>0, WorkIs
<1> QED BY <1>0, <1>3, <1>4, <1>5, <1>6, <1>7, <1>8, <1>9, <1>10, <1>11, ChatStepIs

\* Every step keeps what the browser shows on the runner's disk.
LEMMA ShownKept ==
  ASSUME ChatIsSound, WayIsSound, [ChatNext]_chVars, NEW m \in Ask
  PROVE  ShownIsKept(m)'
<1>0. /\ RunnerIsSound /\ ChatTypes /\ QueueTypes /\ LedgerIsSound /\ ShownIsKept(m)
      /\ \A o \in Ask : TurnsAreSound(o)
      /\ chToBrowser \in Seq(ToBrowser) /\ chShown \in [Ask -> TaskRows] /\ chAsked \in [Ask -> {"none", "sent", "uncertain", "done"}]
  BY DEF ChatIsSound, RunnerIsSound, QueueTypes, ChatTypes
<1>1. DiskKeeps(m)
  BY <1>0, DiskIsKept
<1>2. CASE chAsked'[m] = chAsked[m] /\ chShown'[m] = chShown[m]
  BY <1>0, <1>1, <1>2 DEF ShownIsKept, DiskKeeps
<1>3. UNCHANGED chVars \/ SendReport \/ ReadAgent \/ (\E o \in Ask : RunnerWorks(o)) \/ RunnerMoves
        => UNCHANGED <<chAsked, chShown>>
  BY <1>0, WorkIs, SendReportDoes, RunnerDoes DEF chVars, chBrowserVars
<1>4. CASE QuietStep
  <2>1. /\ chAsked'[m] = "done" => chAsked[m] = "done"
        /\ chShown'[m] = chShown[m] \/ (chAsked'[m] # "done" /\ chShown'[m].seq = chShown[m].seq /\ chShown'[m].status = "queued")
    BY <1>4 DEF QuietStep
  <2> QED BY <1>0, <1>1, <2>1 DEF ShownIsKept, DiskKeeps, Finished
<1>5. CASE ReadsReport
  <2>1. PICK f \in TaskFrames : f = Head(chToBrowser) /\ IsShown(f)
    BY <1>5 DEF ReadsReport
  <2>2. f.task \in Ask /\ f.status \in ChatStatuses /\ f.seq \in Nat /\ f.kind = "task"
    BY FrameFields
  <2>3. f \in OnTheWay
    BY <1>0, <1>5, <2>1, FramesChange DEF ReadsReport, OnTheWay
  <2>4. CASE f.task # m
    BY <1>0, <1>2, <2>1, <2>2, <2>4 DEF IsShown
  <2>5. CASE f.task = m /\ f.seq = 0
    <3>1. f.status = "failed" /\ chShown[m].seq = 0
      BY <2>2, <2>3, <2>5 DEF WayIsSound
    <3>2. chShown'[m] = [chShown[m] EXCEPT !.status = "failed"]
      BY <1>0, <2>1, <2>5, <3>1 DEF IsShown
    <3>3. chShown'[m] = [status |-> "failed", seq |-> 0]
      BY <1>0, <3>1, <3>2 DEF TaskRows
    <3> QED BY <3>3 DEF ShownIsKept
  <2>6. CASE f.task = m /\ f.seq > 0
    <3>1. f \in chSaid
      BY <2>2, <2>3, <2>6 DEF WayIsSound
    <3>2. SaidIsKept(f)
      BY <3>1 DEF ChatIsSound
    <3>3. chShown'[m] = chShown[m] \/ chShown'[m] = [status |-> f.status, seq |-> f.seq]
      BY <1>0, <2>1, <2>2, <2>6 DEF IsShown
    <3>4. chDisk'[m].status # "none" /\ (f.status \in Finished => IsOver(m)')
      BY <1>1, <2>6, <3>2 DEF SaidIsKept, DiskKeeps
    <3> QED BY <1>0, <1>1, <3>3, <3>4 DEF ShownIsKept, DiskKeeps
  <2> QED BY <2>2, <2>4, <2>5, <2>6
<1> QED BY <1>0, <1>2, <1>3, <1>4, <1>5, ChatStepIs

\* The initial state has the invariant.
LEMMA ChatInitSound == ChatInit => ChatInv
<1> SUFFICES ASSUME ChatInit PROVE ChatInv
  OBVIOUS
<1>1. Frames(<<>>) = {} /\ RefusedFirst(<<>>)
  BY DEF Frames, RefusedFirst
<1>2. ChatTypes
  BY RowFields, IdleIs DEF ChatInit, ChatTypes
<1>3. QueueTypes
  BY DEF ChatInit, QueueTypes
<1>4. LedgerIsSound
  BY IdleIs DEF ChatInit, LedgerIsSound
<1>5. \A m \in Ask : TurnsAreSound(m) /\ ShownIsKept(m)
  BY RowFields, IdleIs DEF ChatInit, TurnsAreSound, ShownIsKept
<1>6. (\A f \in chSaid : SaidIsKept(f)) /\ SaidOnce
  BY DEF ChatInit, SaidOnce
<1>7. WayIsSound /\ OrderIsSound
  BY <1>1, FrameFields DEF ChatInit, WayIsSound, OnTheWay, OrderIsSound, IsRefusal
<1> QED BY <1>2, <1>3, <1>4, <1>5, <1>6, <1>7 DEF ChatInv

\* For every set of requests and every bound: the invariant holds.
THEOREM ChatInvariant == ChatSpec => []ChatInv
<1>1. ChatInv /\ [ChatNext]_chVars => ChatInv'
  <2> SUFFICES ASSUME ChatInv, [ChatNext]_chVars PROVE ChatInv'
    OBVIOUS
  <2>1. RunnerIsSound /\ ChatIsSound
    BY DEF ChatInv, RunnerIsSound, ChatIsSound
  <2>2. ChatTypes' /\ QueueTypes' /\ LedgerIsSound' /\ \A m \in Ask : TurnsAreSound(m)'
    BY ChatTypesKept, QueueTypesKept, LedgerKept, TurnsKept DEF ChatInv
  <2>3. RunnerIsSound'
    BY <2>2 DEF RunnerIsSound
  <2>4. (\A f \in chSaid' : SaidIsKept(f)') /\ SaidOnce'
    BY <2>1, SaidKept DEF ChatInv
  <2>5. chSaid \subseteq chSaid'
    <3>1. UNCHANGED chVars \/ QuietStep \/ ReadsReport \/ SendReport \/ RunnerMoves => UNCHANGED chSaid
      BY SendReportDoes, RunnerDoes DEF chVars, chRunVars, QuietStep, ReadsReport, ChatInv
    <3>2. ReadAgent \/ (\E m \in Ask : RunnerWorks(m)) => chSaid \subseteq chSaid'
      BY <2>1, WorkIs DEF Refuses, Reports, HandsOut
    <3> QED BY <3>1, <3>2, ChatStepIs DEF ChatInv
  <2>6. WayIsSound' /\ OrderIsSound' /\ \A m \in Ask : ShownIsKept(m)'
    BY <2>1, <2>3, <2>5, WayKept, OrderKept, ShownKept DEF ChatInv
  <2> QED BY <2>2, <2>4, <2>6 DEF ChatInv
<1> QED BY <1>1, ChatInitSound, PTL DEF ChatSpec

\* For every set of requests, every length of the queues and every number of
\* connections, crashes and stops: a task is given to the model at most once, what
\* is shown as finished is never worked on again, no sequence is used for two
\* statuses, and the browser lets go of a request only when the runner has it on
\* disk or has refused it (agent-client.js, chat.rs, runner.rs).
THEOREM AsksSurvive == ChatSpec => []ChatAsksSurvive
<1>1. ChatInv => ChatAsksSurvive
  BY DEF ChatInv, ChatAsksSurvive, ChatRunsOnce, TurnsAreSound, ShownIsKept, SaidOnce, IsOver
<1> QED BY <1>1, ChatInvariant, PTL

-----------------------------------------------------------------------------
(* FileSync: nobody's words are lost to the other side.                    *)

\* The words of a text, the items of a document and the documents; the inserted
\* items are finitely many, which is what makes their count a fresh number.
FileWord == SyncPlace \X (0..SyncWords)
FileItem == SyncPlace \X (0..SyncWords) \X Nat
FileDocs == {d \in [ins : SUBSET FileItem, del : SUBSET FileItem] : IsFiniteSet(d.ins)}
WordOf(i) == <<i[1], i[2]>>
FileCount(d, w) == Cardinality({i \in d.ins : WordOf(i) = w})
FileBelow(d, e) == d.ins \subseteq e.ins /\ d.del \subseteq e.del

\* What goes to the room and what comes from it.
OpenFrame == [type |-> "open"]
FileFrames == {OpenFrame} \cup [type : {"update"}, update : FileDocs]
FileNews == [type : {"state", "update"}, update : FileDocs]

\* The items of a word are numbered without a gap.
FileDense(d) == \A i \in d.ins : \A k \in 0..i[3] : <<i[1], i[2], k>> \in d.ins

\* What a document is made of, and what makes one.
LEMMA DocsFields ==
  ASSUME NEW d \in FileDocs
  PROVE  /\ d.ins \in SUBSET FileItem /\ d.del \in SUBSET FileItem /\ IsFiniteSet(d.ins)
         /\ d = [ins |-> d.ins, del |-> d.del]
BY DEF FileDocs

LEMMA DocsMade ==
  ASSUME NEW ins \in SUBSET FileItem, NEW del \in SUBSET FileItem, IsFiniteSet(ins)
  PROVE  /\ [ins |-> ins, del |-> del] \in FileDocs
         /\ [ins |-> ins, del |-> del].ins = ins /\ [ins |-> ins, del |-> del].del = del
BY DEF FileDocs

\* An item is its word and its number.
LEMMA ItemFields ==
  ASSUME NEW i \in FileItem
  PROVE  /\ i[1] \in SyncPlace /\ i[2] \in 0..SyncWords /\ i[3] \in Nat
         /\ i = <<i[1], i[2], i[3]>> /\ WordOf(i) = <<i[1], i[2]>> /\ WordOf(i) \in FileWord
         /\ WordOf(i)[1] = i[1] /\ WordOf(i)[2] = i[2]
BY DEF FileItem, FileWord, WordOf

LEMMA WordFields ==
  ASSUME NEW w \in FileWord
  PROVE  /\ w[1] \in SyncPlace /\ w[2] \in 0..SyncWords /\ w = <<w[1], w[2]>>
         /\ \A n \in Nat : /\ <<w[1], w[2], n>> \in FileItem
                           /\ WordOf(<<w[1], w[2], n>>) = w
                           /\ <<w[1], w[2], n>>[1] = w[1]
                           /\ <<w[1], w[2], n>>[2] = w[2]
                           /\ <<w[1], w[2], n>>[3] = n
BY DEF FileItem, FileWord, WordOf

\* An update applied adds its items and its deletions.
LEMMA JoinedDocs ==
  ASSUME NEW d \in FileDocs, NEW e \in FileDocs
  PROVE  /\ FileJoined(d, e) \in FileDocs
         /\ FileJoined(d, e).ins = d.ins \cup e.ins /\ FileJoined(d, e).del = d.del \cup e.del
         /\ FileBelow(d, FileJoined(d, e)) /\ FileBelow(e, FileJoined(d, e))
<1>1. /\ d.ins \in SUBSET FileItem /\ d.del \in SUBSET FileItem /\ IsFiniteSet(d.ins)
      /\ e.ins \in SUBSET FileItem /\ e.del \in SUBSET FileItem /\ IsFiniteSet(e.ins)
  BY DocsFields
<1>2. IsFiniteSet(d.ins \cup e.ins)
  BY <1>1, FS_Union
<1>3. /\ FileJoined(d, e).ins = d.ins \cup e.ins /\ FileJoined(d, e).del = d.del \cup e.del
      /\ FileJoined(d, e) = [ins |-> d.ins \cup e.ins, del |-> d.del \cup e.del]
  BY DEF FileJoined
<1>4. d.ins \cup e.ins \in SUBSET FileItem /\ d.del \cup e.del \in SUBSET FileItem
  BY <1>1
<1>5. FileJoined(d, e) \in FileDocs
  BY <1>2, <1>3, <1>4, DocsMade
<1> QED  BY <1>3, <1>5 DEF FileBelow

\* What a document says.
LEMMA TextWords ==
  ASSUME NEW d \in FileDocs
  PROVE  /\ Text(d) \in SUBSET FileWord
         /\ \A i \in d.ins \ d.del : WordOf(i) \in Text(d)
         /\ \A w \in Text(d) : \E i \in d.ins \ d.del : WordOf(i) = w
<1>1. Text(d) = {WordOf(i) : i \in d.ins \ d.del}
  BY DEF Text, WordOf
<1>2. d.ins \in SUBSET FileItem
  BY DocsFields
<1> QED  BY <1>1, <1>2, ItemFields

\* The count of a word's items is a number none of them has, next to theirs.
LEMMA CountIsFresh ==
  ASSUME NEW d \in FileDocs, FileDense(d), NEW w \in FileWord
  PROVE  /\ FileCount(d, w) \in Nat
         /\ <<w[1], w[2], FileCount(d, w)>> \notin d.ins
         /\ \A k \in 0..FileCount(d, w) : k = FileCount(d, w) \/ <<w[1], w[2], k>> \in d.ins
<1> DEFINE S == {i \in d.ins : WordOf(i) = w}
           K == {k \in Nat : <<w[1], w[2], k>> \in d.ins}
           number == [i \in S |-> i[3]]
           item == [k \in K |-> <<w[1], w[2], k>>]
<1>1. d.ins \in SUBSET FileItem /\ IsFiniteSet(d.ins)
  BY DocsFields
<1>2. IsFiniteSet(S)
  BY <1>1, FS_Subset
<1>3. \A i \in S : i[3] \in K /\ i = <<w[1], w[2], i[3]>>
  <2> SUFFICES ASSUME NEW i \in S  PROVE  i[3] \in K /\ i = <<w[1], w[2], i[3]>>
    OBVIOUS
  <2>1. i \in FileItem /\ WordOf(i) = w
    BY <1>1
  <2>2. w[1] = i[1] /\ w[2] = i[2]
    BY <2>1, ItemFields
  <2> QED  BY <2>1, <2>2, ItemFields
<1>4. \A k \in K : <<w[1], w[2], k>> \in S
  BY WordFields
<1>5. number \in Surjection(S, K)
  <2>1. number \in [S -> K]
    BY <1>3
  <2>2. \A k \in K : number[<<w[1], w[2], k>>] = k /\ <<w[1], w[2], k>> \in S
    BY <1>4, WordFields
  <2> QED  BY <2>1, <2>2 DEF Surjection
<1>6. item \in Surjection(K, S)
  <2>1. item \in [K -> S]
    BY <1>4
  <2>2. \A i \in S : item[i[3]] = i /\ i[3] \in K
    BY <1>3
  <2> QED  BY <2>1, <2>2 DEF Surjection
<1>7. IsFiniteSet(K) /\ Cardinality(K) <= Cardinality(S)
  BY <1>2, <1>5, FS_Surjection
<1>8. Cardinality(S) <= Cardinality(K)
  BY <1>6, <1>7, FS_Surjection
<1> DEFINE n == Cardinality(K)
<1>9. n \in Nat /\ Cardinality(S) \in Nat
  BY <1>2, <1>7, FS_CardinalityType
<1>10. FileCount(d, w) = n
  BY <1>7, <1>8, <1>9 DEF FileCount
<1>11. \A m \in K : \A k \in 0..m : k \in K
  BY WordFields DEF FileDense
<1> HIDE DEF K
<1>12. \A m \in K : m < n
  <2> SUFFICES ASSUME NEW m \in K, m >= n  PROVE FALSE
    BY <1>9 DEF K
  <2>1. m \in Nat /\ 0..m \in SUBSET K
    BY <1>11 DEF K
  <2>2. Cardinality(0..m) = m + 1
    BY <2>1, FS_Interval
  <2>3. Cardinality(0..m) <= n
    BY <1>7, <2>1, FS_Subset
  <2> QED  BY <1>9, <2>1, <2>2, <2>3
<1>13. \A k \in 0..n : k = n \/ k \in K
  <2> SUFFICES ASSUME NEW k \in 0..n, k # n, k \notin K  PROVE FALSE
    OBVIOUS
  <2>0. k \in Nat /\ k < n
    BY <1>9
  <2>1. K \in SUBSET (0..(k - 1))
    <3> SUFFICES ASSUME NEW m \in K  PROVE m \in 0..(k - 1)
      OBVIOUS
    <3>1. m \in Nat
      BY DEF K
    <3>2. m < k
      BY <1>11, <2>0, <3>1
    <3> QED  BY <2>0, <3>1, <3>2
  <2>2. IsFiniteSet(0..(k - 1)) /\ Cardinality(0..(k - 1)) = IF 0 > k - 1 THEN 0 ELSE (k - 1) - 0 + 1
    BY <2>0, FS_Interval
  <2>3. n <= Cardinality(0..(k - 1))
    BY <2>1, <2>2, FS_Subset
  <2> QED  BY <1>9, <2>0, <2>2, <2>3
<1>14. n \notin K
  BY <1>9, <1>12
<1> QED  BY <1>9, <1>10, <1>13, <1>14 DEF K

\* Nothing the merge says is new: its words are the file's or the session's, and
\* it leaves out a word of the session only where the base said it.
LEMMA MergedWords ==
  ASSUME NEW base \in SUBSET FileWord, NEW local \in SUBSET FileWord, NEW remote \in SUBSET FileWord
  PROVE  /\ FileMergedText(base, local, remote) \in SUBSET (local \cup remote)
         /\ remote \ FileMergedText(base, local, remote) \in SUBSET base
<1> DEFINE part(p) == IF FileAt(local, p) = FileAt(base, p) \/ FileAt(remote, p) # FileAt(base, p)
                      THEN FileAt(remote, p) ELSE FileAt(local, p)
<1>1. FileMergedText(base, local, remote) = UNION {part(p) : p \in SyncPlace}
  BY DEF FileMergedText
<1>2. \A p \in SyncPlace : part(p) \in SUBSET (local \cup remote)
  BY DEF FileAt
<1>3. \A w \in remote : w[1] \in SyncPlace /\ w \in FileAt(remote, w[1])
  BY WordFields DEF FileAt
<1>4. \A p \in SyncPlace : \A w \in FileAt(remote, p) : w \in part(p) \/ w \in FileAt(base, p)
  OBVIOUS
<1>5. \A p \in SyncPlace : FileAt(base, p) \in SUBSET base
  BY DEF FileAt
<1> HIDE DEF part
<1>6. \A p \in SyncPlace : part(p) \in SUBSET FileMergedText(base, local, remote)
  BY <1>1
<1> QED  BY <1>1, <1>2, <1>3, <1>4, <1>5, <1>6

\* An edit deletes what the document said, and adds words it did not say, each as
\* an item of a number that is free.
LEMMA EditItems ==
  ASSUME NEW d \in FileDocs, FileDense(d), NEW text \in SUBSET FileWord, IsFiniteSet(text)
  PROVE  /\ Edits(d, text) \in FileDocs
         /\ Edits(d, text).ins =
              {<<w[1], w[2], FileCount(d, w)>> : w \in text \ Text(d)}
         /\ Edits(d, text).del = {i \in d.ins \ d.del : WordOf(i) \notin text}
<1> DEFINE fresh == {<<w[1], w[2], FileCount(d, w)>> : w \in text \ Text(d)}
           gone == {i \in d.ins \ d.del : WordOf(i) \notin text}
           item == [w \in text \ Text(d) |-> <<w[1], w[2], FileCount(d, w)>>]
<1>1. Edits(d, text) = [ins |-> fresh, del |-> gone]
  BY DEF Edits, FileCount, WordOf
<1>2. fresh \in SUBSET FileItem
  BY CountIsFresh, WordFields
<1>3. gone \in SUBSET FileItem
  BY DocsFields
<1>4. IsFiniteSet(text \ Text(d))
  BY FS_Subset
<1>5. item \in Surjection(text \ Text(d), fresh)
  BY DEF Surjection
<1>6. IsFiniteSet(fresh)
  BY <1>4, <1>5, FS_Surjection
<1> HIDE DEF fresh, gone
<1>7. Edits(d, text) \in FileDocs /\ Edits(d, text).ins = fresh /\ Edits(d, text).del = gone
  BY <1>1, <1>2, <1>3, <1>6, DocsMade
<1> QED  BY <1>7 DEF fresh, gone

\* A document edited to say a text says it, when none of the items added was
\* deleted before.
LEMMA EditedText ==
  ASSUME NEW d \in FileDocs, FileDense(d), NEW text \in SUBSET FileWord, IsFiniteSet(text),
         \A w \in text \ Text(d) : <<w[1], w[2], FileCount(d, w)>> \notin d.del
  PROVE  /\ FileJoined(d, Edits(d, text)) \in FileDocs
         /\ Text(FileJoined(d, Edits(d, text))) = text
         /\ FileDense(FileJoined(d, Edits(d, text)))
         /\ FileBelow(d, FileJoined(d, Edits(d, text)))
         /\ FileJoined(d, Edits(d, text)).ins =
              d.ins \cup {<<w[1], w[2], FileCount(d, w)>> : w \in text \ Text(d)}
         /\ FileJoined(d, Edits(d, text)).del \in SUBSET (d.del \cup d.ins)
<1> DEFINE e == Edits(d, text)
           j == FileJoined(d, e)
           fresh == {<<w[1], w[2], FileCount(d, w)>> : w \in text \ Text(d)}
<1>1. /\ e \in FileDocs /\ e.ins = fresh
      /\ e.del = {i \in d.ins \ d.del : WordOf(i) \notin text}
  BY EditItems
<1> HIDE DEF e, fresh
<1>2. j \in FileDocs /\ j.ins = d.ins \cup e.ins /\ j.del = d.del \cup e.del /\ FileBelow(d, j)
  BY <1>1, JoinedDocs
<1> HIDE DEF j
<1>3. \A w \in text \ Text(d) :
         /\ FileCount(d, w) \in Nat
         /\ <<w[1], w[2], FileCount(d, w)>> \notin d.ins
         /\ \A k \in 0..FileCount(d, w) : k = FileCount(d, w) \/ <<w[1], w[2], k>> \in d.ins
  BY CountIsFresh
<1>4. \A w \in text \ Text(d) :
         LET i == <<w[1], w[2], FileCount(d, w)>>
         IN  i \in FileItem /\ WordOf(i) = w /\ i[1] = w[1] /\ i[2] = w[2] /\ i[3] = FileCount(d, w)
  BY <1>3, WordFields
<1>5. ASSUME NEW w \in Text(j)  PROVE w \in text
  <2>1. PICK i \in j.ins \ j.del : WordOf(i) = w
    BY <1>2, TextWords
  <2>2. CASE i \in d.ins
    BY <1>1, <1>2, <2>1, <2>2
  <2>3. CASE i \in e.ins
    BY <1>1, <1>4, <2>1, <2>3 DEF fresh
  <2> QED  BY <1>2, <2>1, <2>2, <2>3
<1>6. ASSUME NEW w \in text  PROVE w \in Text(j)
  <2>1. CASE w \in Text(d)
    <3>1. PICK i \in d.ins \ d.del : WordOf(i) = w
      BY <2>1, TextWords
    <3>2. i \in j.ins \ j.del
      BY <1>1, <1>2, <3>1
    <3> QED  BY <1>2, <3>1, <3>2, TextWords
  <2>2. CASE w \notin Text(d)
    <3> DEFINE i == <<w[1], w[2], FileCount(d, w)>>
    <3>1. i \in fresh /\ i \notin d.ins /\ i \notin d.del /\ WordOf(i) = w
      BY <1>3, <1>4, <2>2 DEF fresh
    <3> HIDE DEF i
    <3>2. i \in j.ins \ j.del
      BY <1>1, <1>2, <3>1
    <3> QED  BY <1>2, <3>1, <3>2, TextWords
  <2> QED  BY <2>1, <2>2
<1>7. ASSUME NEW i \in j.ins, NEW k \in 0..i[3]  PROVE <<i[1], i[2], k>> \in j.ins
  <2>1. CASE i \in d.ins
    BY <1>2, <2>1 DEF FileDense
  <2>2. CASE i \in fresh
    <3>1. PICK w \in text \ Text(d) : i = <<w[1], w[2], FileCount(d, w)>>
      BY <2>2 DEF fresh
    <3>2. i[1] = w[1] /\ i[2] = w[2] /\ i[3] = FileCount(d, w)
      BY <1>4, <3>1
    <3> QED  BY <1>2, <1>3, <2>2, <3>1, <3>2
  <2> QED  BY <1>1, <1>2, <2>1, <2>2
<1>8. j.del \in SUBSET (d.del \cup d.ins)
  BY <1>1, <1>2
<1>9. Text(j) = text
  BY <1>5, <1>6
<1> QED  BY <1>1, <1>2, <1>7, <1>8, <1>9 DEF e, j, fresh, FileDense

-----------------------------------------------------------------------------
(* FileSync: the frames on their way.                                      *)

\* The frames of a sequence, as it grows and is handled.
LEMMA RangeIn ==
  ASSUME NEW S, NEW s \in Seq(S)
  PROVE  Range(s) \in SUBSET S
BY DEF Range

LEMMA RangeConcat ==
  ASSUME NEW S, NEW s \in Seq(S), NEW t \in Seq(S)
  PROVE  Range(s \o t) = Range(s) \cup Range(t) /\ s \o t \in Seq(S)
<1>1. /\ s \o t \in Seq(S) /\ Len(s \o t) = Len(s) + Len(t)
      /\ \A k \in 1..(Len(s) + Len(t)) :
            (s \o t)[k] = IF k <= Len(s) THEN s[k] ELSE t[k - Len(s)]
  BY ConcatProperties
<1>2. ASSUME NEW x \in Range(s)  PROVE x \in Range(s \o t)
  BY <1>1 DEF Range
<1>3. ASSUME NEW x \in Range(t)  PROVE x \in Range(s \o t)
  <2>1. PICK k \in 1..Len(t) : x = t[k]
    BY DEF Range
  <2>2. Len(s) + k \in 1..(Len(s) + Len(t)) /\ (s \o t)[Len(s) + k] = t[k]
    BY <1>1
  <2> QED  BY <1>1, <2>1, <2>2 DEF Range
<1>4. ASSUME NEW x \in Range(s \o t)  PROVE x \in Range(s) \cup Range(t)
  <2>1. PICK k \in 1..(Len(s) + Len(t)) : x = (s \o t)[k]
    BY <1>1 DEF Range
  <2>2. CASE k <= Len(s)
    BY <1>1, <2>1, <2>2 DEF Range
  <2>3. CASE k > Len(s)
    <3>1. x = t[k - Len(s)] /\ k - Len(s) \in 1..Len(t)
      BY <1>1, <2>1, <2>3
    <3> QED  BY <3>1 DEF Range
  <2> QED  BY <2>2, <2>3
<1> QED  BY <1>1, <1>2, <1>3, <1>4

LEMMA RangeAppend ==
  ASSUME NEW S, NEW s \in Seq(S), NEW e \in S
  PROVE  Range(Append(s, e)) = Range(s) \cup {e} /\ Append(s, e) \in Seq(S)
<1>1. /\ Append(s, e) \in Seq(S) /\ Len(s) \in Nat /\ Len(Append(s, e)) = Len(s) + 1
      /\ \A k \in 1..Len(s) : Append(s, e)[k] = s[k]
      /\ Append(s, e)[Len(s) + 1] = e
  OBVIOUS
<1>2. DOMAIN s = 1..Len(s) /\ DOMAIN Append(s, e) = 1..(Len(s) + 1)
  BY <1>1
<1>3. \A k \in 1..(Len(s) + 1) : k \in 1..Len(s) \/ k = Len(s) + 1
  BY <1>1
<1>4. 1..Len(s) \in SUBSET (1..(Len(s) + 1)) /\ Len(s) + 1 \in 1..(Len(s) + 1)
  BY <1>1
<1>5. ASSUME NEW x \in Range(s) \cup {e}  PROVE x \in Range(Append(s, e))
  BY <1>1, <1>2, <1>4 DEF Range
<1>6. ASSUME NEW x \in Range(Append(s, e))  PROVE x \in Range(s) \cup {e}
  BY <1>1, <1>2, <1>3 DEF Range
<1> QED  BY <1>1, <1>5, <1>6

LEMMA RangeOne ==
  ASSUME NEW S, NEW e \in S
  PROVE  Range(<<e>>) = {e} /\ <<e>> \in Seq(S)
BY DEF Range

LEMMA RangeEmpty ==
  ASSUME NEW S
  PROVE  <<>> \in Seq(S) /\ Range(<<>>) = {} /\ \A s \in Seq(S) : s # <<>> => Range(s) # {}
BY DEF Range

LEMMA RangeTail ==
  ASSUME NEW S, NEW s \in Seq(S), s # <<>>
  PROVE  /\ Head(s) \in S /\ Head(s) \in Range(s) /\ Tail(s) \in Seq(S)
         /\ Range(s) = {Head(s)} \cup Range(Tail(s))
<1>1. /\ Tail(s) \in Seq(S) /\ Len(s) \in Nat /\ Len(s) # 0 /\ DOMAIN s = 1..Len(s)
      /\ DOMAIN Tail(s) = 1..(Len(s) - 1) /\ Head(s) = s[1]
      /\ \A k \in 1..(Len(s) - 1) : Tail(s)[k] = s[k + 1]
  OBVIOUS
<1>2. Head(s) \in S /\ Head(s) \in Range(s)
  BY <1>1 DEF Range
<1>3. ASSUME NEW x \in Range(s)  PROVE x \in {Head(s)} \cup Range(Tail(s))
  <2>1. PICK k \in 1..Len(s) : x = s[k]
    BY <1>1 DEF Range
  <2>2. CASE k = 1
    BY <1>1, <2>1, <2>2
  <2>3. CASE k # 1
    <3>1. k - 1 \in 1..(Len(s) - 1) /\ Tail(s)[k - 1] = s[k]
      BY <1>1, <2>3
    <3> QED  BY <1>1, <2>1, <3>1 DEF Range
  <2> QED  BY <2>2, <2>3
<1>4. ASSUME NEW x \in Range(Tail(s))  PROVE x \in Range(s)
  <2>1. PICK k \in 1..(Len(s) - 1) : x = Tail(s)[k]
    BY <1>1 DEF Range
  <2>2. k + 1 \in 1..Len(s) /\ x = s[k + 1]
    BY <1>1, <2>1
  <2> QED  BY <1>1, <2>2 DEF Range
<1> QED  BY <1>1, <1>2, <1>3, <1>4

LEMMA RangeFirst ==
  ASSUME NEW S, NEW s \in Seq(S), NEW k \in 0..Len(s)
  PROVE  SubSeq(s, 1, k) \in Seq(S) /\ Range(SubSeq(s, 1, k)) \in SUBSET Range(s)
<1>1. /\ SubSeq(s, 1, k) \in Seq(S) /\ DOMAIN SubSeq(s, 1, k) = 1..k
      /\ \A n \in 1..k : SubSeq(s, 1, k)[n] = s[n]
  BY SubSeqProperties
<1> QED  BY <1>1 DEF Range

LEMMA FileFrameFields ==
  ASSUME NEW f \in FileFrames
  PROVE  /\ f.type \in {"open", "update"} /\ f.type = "update" => f.update \in FileDocs
         /\ f.type = "open" => f = OpenFrame
BY DEF FileFrames, OpenFrame

LEMMA FileFrameMade ==
  ASSUME NEW d \in FileDocs
  PROVE  /\ [type |-> "update", update |-> d] \in FileFrames
         /\ [type |-> "update", update |-> d].type = "update"
         /\ [type |-> "update", update |-> d].update = d
         /\ OpenFrame \in FileFrames /\ OpenFrame.type = "open"
         /\ \A type \in {"state", "update"} :
              /\ [type |-> type, update |-> d] \in FileNews
              /\ [type |-> type, update |-> d].type = type
              /\ [type |-> type, update |-> d].update = d
BY DEF FileFrames, FileNews, OpenFrame

LEMMA FileNewsFields ==
  ASSUME NEW f \in FileNews
  PROVE  f.type \in {"state", "update"} /\ f.update \in FileDocs
BY DEF FileNews

\* What the room holds after handling frames is what it held and what they bring.
LEMMA HandledDocs ==
  ASSUME syServer \in FileDocs, NEW frames \in Seq(FileFrames)
  PROVE  /\ Handled(frames) \in FileDocs /\ FileBelow(syServer, Handled(frames))
         /\ \A f \in Range(frames) : f.type = "update" => FileBelow(f.update, Handled(frames))
         /\ \A i \in Handled(frames).ins : i \in syServer.ins
               \/ \E f \in Range(frames) : f.type = "update" /\ i \in f.update.ins
         /\ \A i \in Handled(frames).del : i \in syServer.del
               \/ \E f \in Range(frames) : f.type = "update" /\ i \in f.update.del
<1> DEFINE U == Updates(frames)
           ins == syServer.ins \cup UNION {f.update.ins : f \in U}
           del == syServer.del \cup UNION {f.update.del : f \in U}
           I == {f.update.ins : f \in U}
           get == [f \in U |-> f.update.ins]
           nth == [k \in 1..Len(frames) |-> frames[k]]
<1>1. Handled(frames) = [ins |-> ins, del |-> del] /\ Handled(frames).ins = ins /\ Handled(frames).del = del
  BY DEF Handled
<1>2. Range(frames) \in SUBSET FileFrames
  BY RangeIn
<1>3. \A f \in U : f \in Range(frames) /\ f.type = "update" /\ f.update \in FileDocs
  BY <1>2, FileFrameFields DEF Updates
<1>4. \A f \in U : /\ f.update.ins \in SUBSET FileItem /\ f.update.del \in SUBSET FileItem
                   /\ IsFiniteSet(f.update.ins)
  BY <1>3, DocsFields
<1>5. IsFiniteSet(Range(frames))
  <2>1. Len(frames) \in Nat /\ DOMAIN frames = 1..Len(frames)
    OBVIOUS
  <2>2. nth \in Surjection(1..Len(frames), Range(frames))
    BY <2>1 DEF Surjection, Range
  <2>3. IsFiniteSet(1..Len(frames))
    BY <2>1, FS_Interval
  <2> QED  BY <2>2, <2>3, FS_Surjection
<1>6. IsFiniteSet(U)
  BY <1>5, FS_Subset DEF Updates
<1>7. get \in Surjection(U, I)
  BY DEF Surjection
<1>8. IsFiniteSet(I)
  BY <1>6, <1>7, FS_Surjection
<1>9. \A T \in I : IsFiniteSet(T)
  BY <1>4
<1>10. IsFiniteSet(UNION I)
  BY <1>8, <1>9, FS_UNION
<1>11. syServer.ins \in SUBSET FileItem /\ syServer.del \in SUBSET FileItem /\ IsFiniteSet(syServer.ins)
  BY DocsFields
<1>12. IsFiniteSet(ins)
  BY <1>10, <1>11, FS_Union
<1>13. ins \in SUBSET FileItem /\ del \in SUBSET FileItem
  BY <1>4, <1>11
<1>14. Handled(frames) \in FileDocs
  <2> HIDE DEF ins, del
  <2> QED  BY <1>1, <1>12, <1>13, DocsMade
<1>15. \A f \in Range(frames) : f.type = "update" => f \in U
  BY DEF Updates
<1>16. \A f \in U : FileBelow(f.update, Handled(frames))
  BY <1>1 DEF FileBelow
<1>17. FileBelow(syServer, Handled(frames))
  BY <1>1 DEF FileBelow
<1>18. \A i \in ins : i \in syServer.ins \/ \E f \in U : i \in f.update.ins
  OBVIOUS
<1>19. \A i \in del : i \in syServer.del \/ \E f \in U : i \in f.update.del
  OBVIOUS
<1> HIDE DEF U, ins, del
<1> QED  BY <1>1, <1>3, <1>14, <1>15, <1>16, <1>17, <1>18, <1>19

-----------------------------------------------------------------------------
(* FileSync: the invariant.                                                *)

\* The type of each variable the proof speaks of.
FileTypes ==
  /\ syServer \in FileDocs /\ syDoc \in FileDocs
  /\ sySent \in Seq(FileFrames) /\ syOutbox \in Seq(FileFrames) /\ syInbox \in Seq(FileNews)
  /\ syConn \in {"up", "down"} /\ syReady \in BOOLEAN /\ syEstablished \in BOOLEAN
  /\ syWord \in 0..SyncWords /\ syDropped \in Nat
  /\ syBase \in SUBSET FileWord /\ syKnown \in SUBSET FileWord /\ syInFile \in SUBSET FileWord

\* What is under way brings either side only what the other has.
FramesAreSound ==
  /\ \A f \in Range(sySent) \cup Range(syOutbox) : f.type = "update" => FileBelow(f.update, syDoc)
  /\ \A f \in Range(syInbox) : FileBelow(f.update, syServer)

\* The words of the file and of the author's buffer.
FileNamed == syInFile \cup syKnown
FileItems == syServer.ins \cup syServer.del \cup syDoc.ins \cup syDoc.del

\* A number typed is used once; a word typed at the file, and an item that comes
\* back, are made by the client, so the client has every item of them; and every
\* document has the text the session began with.
ItemsAreSound ==
  /\ FileDense(syDoc)
  /\ \A i \in FileItems : i[2] <= syWord
  /\ \A i \in FileItems : i[3] # 0 \/ (WordOf(i) \in FileNamed /\ i[2] # 0) => i \in syDoc.ins
  /\ \A w \in FileNamed : w[2] <= syWord
  /\ \A p \in SyncPlace : <<p, 0, 0>> \in syServer.ins
  /\ syMerge # <<>> \/ syEstablished => \A p \in SyncPlace : <<p, 0, 0>> \in syDoc.ins
  /\ \A f \in Range(syInbox) : f.type = "state" => \A p \in SyncPlace : <<p, 0, 0>> \in f.update.ins

\* The buffer, the file, the base and a file being merged are texts the file or the
\* buffer had, and so is every word a merge deleted.
TextsAreSound ==
  /\ syBuffer.now \in SUBSET syKnown /\ syBuffer.before \in SUBSET syKnown
  /\ syFile = SyncNone \/ syFile \in SUBSET syInFile
  /\ syReady => syEstablished
  /\ syEstablished => syBase \in SUBSET syInFile /\ syFile # SyncNone
  /\ syMerge # <<>> =>
       /\ syMerge[1].why \in {"joined", "disk"}
       /\ \/ syMerge[1].local = SyncNone
          \/ syMerge[1].local \in SUBSET syInFile /\ syFile # SyncNone
  /\ syErased \in SUBSET syInFile

\* On the connection a join was answered on, what the client changed is at the
\* room or on its way.
SentIsSound ==
  syConn = "up" /\ syReady =>
    /\ \A i \in syDoc.ins : i \in syServer.ins
         \/ \E f \in Range(sySent) : f.type = "update" /\ i \in f.update.ins
    /\ \A i \in syDoc.del : i \in syServer.del
         \/ \E f \in Range(sySent) : f.type = "update" /\ i \in f.update.del

\* The first connection, as far as it has come: not made, its open under way,
\* its state under way, the file read for it, the join done.
NoOpen == \A f \in Range(sySent) : f.type # "open"
NoState(frames) == \A f \in Range(frames) : f.type # "state"
OneState(frames) ==
  \A m, n \in DOMAIN frames : frames[m].type = "state" /\ frames[n].type = "state" => m = n
NotJoined == ~syReady /\ ~syEstablished /\ syOutbox = <<>> /\ syWrote = SyncNone
FirstIdle == syConn = "down" /\ NotJoined /\ syMerge = <<>> /\ sySent = <<>> /\ syInbox = <<>>
FirstOpens == /\ syConn = "up" /\ NotJoined /\ syMerge = <<>>
              /\ sySent = <<OpenFrame>> /\ NoState(syInbox)
FirstWaits == syConn = "up" /\ NotJoined /\ syMerge = <<>> /\ NoOpen /\ OneState(syInbox)
FirstReads == /\ syConn = "up" /\ NotJoined /\ NoOpen /\ NoState(syInbox)
              /\ syMerge # <<>> /\ syMerge[1].why = "joined"
              /\ syFile = syMerge[1].local \/ syEvent
FirstJoined == /\ syConn = "up" /\ NoOpen /\ NoState(syInbox) /\ syReady /\ syEstablished
               /\ syOutbox = <<>>
               /\ syWrote \in {SyncNone, syBase}
               /\ syBase = Text(syDoc) \/ syFromSession
               /\ \/ syMerge = <<>> /\ (syFile = syBase \/ syEvent \/ syFromDisk)
                  \/ /\ syMerge # <<>> /\ syMerge[1].why = "disk" /\ syMerge[1].local # SyncNone
                     /\ syFile = syMerge[1].local \/ syEvent
FirstIsSound ==
  syDropped = 0 => FirstIdle \/ FirstOpens \/ FirstWaits \/ FirstReads \/ FirstJoined

\* The inductive invariant.
FileInv == FileTypes /\ FramesAreSound /\ ItemsAreSound /\ TextsAreSound /\ SentIsSound /\ FirstIsSound

-----------------------------------------------------------------------------
(* FileSync: what a step does to the documents and the file.               *)

LEMMA WordsAreFinite == \A text \in SUBSET FileWord : IsFiniteSet(text) /\ text # SyncNone
<1>1. IsFiniteSet(SyncPlace) /\ SyncWords \in Nat
      /\ \A text \in SUBSET (SyncPlace \X (0..SyncWords)) : text # SyncNone
  BY SyncAssumption
<1>2. IsFiniteSet(0..SyncWords)
  BY <1>1, FS_Interval
<1>3. IsFiniteSet(FileWord)
  BY <1>1, <1>2, FS_Product DEF FileWord
<1>4. \A text \in SUBSET FileWord : IsFiniteSet(text)
  BY <1>3, FS_Subset
<1> QED  BY <1>1, <1>4 DEF FileWord

\* A word the file said and the document does not has a free number no deletion
\* names.
LEMMA FreshIsKept ==
  ASSUME FileTypes, ItemsAreSound, syMerge # <<>>,
         NEW w \in syInFile, w \notin Text(syDoc)
  PROVE  <<w[1], w[2], FileCount(syDoc, w)>> \notin syDoc.del
<1> DEFINE i == <<w[1], w[2], FileCount(syDoc, w)>>
<1>1. w \in FileWord /\ syDoc \in FileDocs /\ FileDense(syDoc)
  BY DEF FileTypes, ItemsAreSound
<1>2. FileCount(syDoc, w) \in Nat /\ i \notin syDoc.ins
  BY <1>1, CountIsFresh
<1>3. i[2] = w[2] /\ i[3] = FileCount(syDoc, w) /\ WordOf(i) = w /\ w[1] \in SyncPlace
  BY <1>1, <1>2, WordFields
<1>4. ASSUME i \in syDoc.del  PROVE FALSE
  <2>1. i \in FileItems /\ WordOf(i) \in FileNamed
    BY <1>3, <1>4 DEF FileItems, FileNamed
  <2> HIDE DEF i
  <2>2. i[3] = 0 /\ i[2] = 0
    BY <1>2, <2>1 DEF ItemsAreSound
  <2>3. i = <<w[1], 0, 0>>
    BY <1>3, <2>2 DEF i
  <2> QED  BY <1>2, <1>3, <2>3 DEF ItemsAreSound
<1> QED  BY <1>4

\* A reconcile makes the document, the base and, unless it says so already, the file
\* say the same.
LEMMA ReconcileEffect ==
  ASSUME FileTypes, ItemsAreSound, TextsAreSound, syMerge # <<>>,
         NEW base \in SUBSET FileWord, NEW local \in SUBSET syInFile, NEW wrote,
         Reconcile(base, local, wrote)
  PROVE  /\ syDoc' \in FileDocs /\ FileDense(syDoc') /\ FileBelow(syDoc, syDoc')
         /\ \A i \in syDoc'.ins : i \in syDoc.ins \/ WordOf(i) \in syInFile
         /\ syDoc'.del \in SUBSET (syDoc.del \cup syDoc.ins)
         /\ syBase' = Text(syDoc') /\ syBase' \in SUBSET syInFile' /\ syBase' \in SUBSET FileWord
         /\ syErased' \in SUBSET (syErased \cup base)
         /\ ~syEstablished => syErased' = syErased
         /\ syInFile \in SUBSET syInFile' /\ syInFile' \in SUBSET (syInFile \cup Text(syDoc))
         /\ \/ syFile' = syBase' /\ syWrote' = syBase' /\ syEvent'
            \/ syBase' = local /\ syFile' = syFile /\ syWrote' = wrote /\ syEvent' = syEvent
<1> DEFINE remote == Text(syDoc)
           merged == FileMergedText(base, local, remote)
<1>1. /\ syDoc \in FileDocs /\ FileDense(syDoc) /\ remote \in SUBSET FileWord /\ local \in SUBSET FileWord
      /\ syInFile \in SUBSET FileWord
  BY TextWords DEF FileTypes, ItemsAreSound
<1>2. merged \in SUBSET (local \cup remote) /\ remote \ merged \in SUBSET base
  BY <1>1, MergedWords
<1>3. merged \in SUBSET FileWord /\ IsFiniteSet(merged)
  BY <1>1, <1>2, WordsAreFinite
<1> HIDE DEF merged
<1>4. \A w \in merged \ Text(syDoc) : w \in syInFile
                 /\ <<w[1], w[2], FileCount(syDoc, w)>> \notin syDoc.del
  BY <1>2, FreshIsKept
<1>5. /\ syDoc' = FileJoined(syDoc, Edits(syDoc, merged)) /\ syBase' = merged
      /\ syErased' = IF syEstablished THEN syErased \cup (remote \ merged) ELSE syErased
      /\ IF merged # local THEN WriteFile(merged) ELSE LeaveFile /\ syWrote' = wrote
  BY DEF Reconcile, merged
<1>6. /\ syDoc' \in FileDocs /\ Text(syDoc') = merged /\ FileDense(syDoc')
      /\ FileBelow(syDoc, syDoc')
      /\ syDoc'.ins = syDoc.ins \cup {<<w[1], w[2], FileCount(syDoc, w)>> : w \in merged \ Text(syDoc)}
      /\ syDoc'.del \in SUBSET (syDoc.del \cup syDoc.ins)
  BY <1>1, <1>3, <1>4, <1>5, EditedText
<1>7. ASSUME NEW i \in syDoc'.ins, i \notin syDoc.ins  PROVE WordOf(i) \in syInFile
  <2>1. PICK w \in merged \ Text(syDoc) : i = <<w[1], w[2], FileCount(syDoc, w)>>
    BY <1>6, <1>7
  <2>2. w \in syInFile /\ w \in FileWord /\ FileCount(syDoc, w) \in Nat
    BY <1>1, <1>3, <1>4, <2>1, CountIsFresh
  <2> QED  BY <2>1, <2>2, WordFields
<1>8. /\ syBase' \in SUBSET syInFile'
      /\ syInFile \in SUBSET syInFile' /\ syInFile' \in SUBSET (syInFile \cup Text(syDoc))
      /\ \/ syFile' = syBase' /\ syWrote' = syBase' /\ syEvent'
         \/ syBase' = local /\ syFile' = syFile /\ syWrote' = wrote /\ syEvent' = syEvent
  <2>1. CASE merged # local
    BY <1>2, <1>5, <2>1 DEF WriteFile
  <2>2. CASE merged = local
    BY <1>5, <2>2 DEF LeaveFile
  <2> QED  BY <2>1, <2>2
<1> QED  BY <1>2, <1>3, <1>5, <1>6, <1>7, <1>8

\* What a step brings the room is in the frames.
FileGained(frames) ==
  /\ syServer' \in FileDocs /\ FileBelow(syServer, syServer')
  /\ \A i \in syServer'.ins : i \in syServer.ins
        \/ \E f \in Range(frames) : f.type = "update" /\ i \in f.update.ins
  /\ \A i \in syServer'.del : i \in syServer.del
        \/ \E f \in Range(frames) : f.type = "update" /\ i \in f.update.del

\* A connection lost leaves nothing on the wire; the room has some of it.
LEMMA LoseEffect ==
  ASSUME FileTypes, NEW frames \in Seq(FileFrames), FileLose(frames)
  PROVE  /\ FileGained(frames)
         /\ syDropped' = syDropped + 1 /\ syDropped' \in Nat /\ syDropped' # 0
         /\ syConn' = "down" /\ sySent' = <<>> /\ syInbox' = <<>>
<1>1. PICK k \in 0..Len(frames) : syServer' = Handled(SubSeq(frames, 1, k))
  BY DEF FileLose
<1>2. SubSeq(frames, 1, k) \in Seq(FileFrames) /\ Range(SubSeq(frames, 1, k)) \in SUBSET Range(frames)
  BY <1>1, RangeFirst
<1>3. syServer \in FileDocs
  BY DEF FileTypes
<1>4. FileGained(frames)
  BY <1>1, <1>2, <1>3, HandledDocs DEF FileGained
<1> QED  BY <1>4 DEF FileLose, FileTypes

\* What is flushed is on the wire, or waits for the next connection.
LEMMA FlushEffect ==
  ASSUME FileTypes, NEW frames \in Seq(FileFrames), Flush(frames)
  PROVE  /\ FileGained(sySent \o frames)
         /\ sySent' \in Seq(FileFrames) /\ syOutbox' \in Seq(FileFrames) /\ syInbox' \in Seq(FileNews)
         /\ Range(sySent') \in SUBSET (Range(sySent) \cup Range(frames))
         /\ Range(syOutbox') \in SUBSET Range(frames)
         /\ Range(syInbox') \in SUBSET Range(syInbox)
         /\ syConn' \in {"up", "down"} /\ syDropped' \in Nat
         /\ \/ /\ sySent' = sySent \o frames /\ syOutbox' = <<>> /\ syServer' = syServer
               /\ syConn' = syConn /\ syInbox' = syInbox /\ syDropped' = syDropped
            \/ syConn' = "down" /\ syDropped' # 0
<1>1. /\ sySent \in Seq(FileFrames) /\ syServer \in FileDocs /\ syInbox \in Seq(FileNews)
      /\ syConn \in {"up", "down"} /\ syDropped \in Nat
  BY DEF FileTypes
<1>2. /\ sySent \o frames \in Seq(FileFrames)
      /\ Range(sySent \o frames) = Range(sySent) \cup Range(frames)
  BY <1>1, RangeConcat
<1>3. /\ <<>> \in Seq(FileFrames) /\ <<>> \in Seq(FileNews) /\ Range(<<>>) = {}
  BY RangeEmpty
<1>4. CASE /\ sySent' = sySent \o frames /\ syOutbox' = <<>>
           /\ UNCHANGED <<syServer, syConn, syInbox, syDropped>>
  <2>1. FileGained(sySent \o frames)
    BY <1>1, <1>4 DEF FileGained, FileBelow
  <2> QED  BY <1>1, <1>2, <1>3, <1>4, <2>1
<1>5. CASE FileLose(sySent \o frames) /\ syOutbox' = frames
  <2>1. /\ FileGained(sySent \o frames) /\ syDropped' \in Nat /\ syDropped' # 0
        /\ syConn' = "down" /\ sySent' = <<>> /\ syInbox' = <<>>
    BY <1>2, <1>5, LoseEffect
  <2> QED  BY <1>1, <1>2, <1>3, <1>5, <2>1
<1> QED  BY <1>4, <1>5 DEF Flush

\* What the reading of the file makes of the document, the file and what they
\* were last agreed to be.
FileMerges ==
  /\ syDoc' \in FileDocs /\ FileDense(syDoc') /\ FileBelow(syDoc, syDoc')
  /\ \A i \in syDoc'.ins : i \in syDoc.ins \/ WordOf(i) \in syInFile
  /\ syDoc'.del \in SUBSET (syDoc.del \cup syDoc.ins)
  /\ syBase' \in SUBSET FileWord
  /\ syErased' \in SUBSET (syErased \cup syInFile)
  /\ syInFile \in SUBSET syInFile' /\ syInFile' \in SUBSET (syInFile \cup Text(syDoc))
  /\ syFile' = SyncNone \/ syFile' \in SUBSET syInFile'

\* A join makes the file, the base and the document say the same.
LEMMA JoinMerges ==
  ASSUME FileInv, FinishJoin
  PROVE  /\ FileMerges
         /\ syBase' = Text(syDoc') /\ syBase' \in SUBSET syInFile' /\ syFile' # SyncNone
         /\ \/ syFile' = syBase' /\ syWrote' = syBase' /\ syEvent'
            \/ /\ syBase' = syMerge[1].local
               /\ syFile' = syFile /\ syWrote' = syWrote /\ syEvent' = syEvent
<1> DEFINE local == syMerge[1].local
           remote == Text(syDoc)
<1>1. /\ syDoc \in FileDocs /\ FileDense(syDoc) /\ remote \in SUBSET FileWord /\ remote # SyncNone
      /\ syInFile \in SUBSET FileWord /\ syBase \in SUBSET FileWord
  BY TextWords, WordsAreFinite DEF FileInv, FileTypes, ItemsAreSound
<1>2. /\ syMerge # <<>>
      /\ \/ local = SyncNone
         \/ local \in SUBSET syInFile /\ syFile # SyncNone
      /\ syFile = SyncNone \/ syFile \in SUBSET syInFile
      /\ syEstablished => syBase \in SUBSET syInFile
  BY DEF FileInv, TextsAreSound, FinishJoin
<1> HIDE DEF local, remote
<1>3. CASE local = SyncNone
  <2>1. WriteFile(remote) /\ syBase' = remote /\ syDoc' = syDoc /\ syErased' = syErased
    BY <1>1, <1>3 DEF FinishJoin, local, remote
  <2> QED  BY <1>1, <1>2, <2>1 DEF WriteFile, FileMerges, FileBelow, remote
<1>4. CASE local # SyncNone /\ local = remote
  <2>1. /\ LeaveFile /\ syBase' = remote /\ syDoc' = syDoc /\ syErased' = syErased
        /\ syWrote' = syWrote
    BY <1>4 DEF FinishJoin, local, remote
  <2>2. local = syMerge[1].local
    BY DEF local
  <2> QED  BY <1>1, <1>2, <1>4, <2>1, <2>2 DEF LeaveFile, FileMerges, FileBelow, remote
<1>5. CASE local # SyncNone /\ local # remote
  <2>0. PICK base : base = JoinBase(remote)
    OBVIOUS
  <2>1. Reconcile(base, local, syWrote)
    BY <1>5, <2>0 DEF FinishJoin, local, remote
  <2>2. base \in SUBSET FileWord /\ (syEstablished => base \in SUBSET syInFile)
    BY <1>1, <1>2, <2>0 DEF JoinBase
  <2>3. local \in SUBSET syInFile /\ syFile # SyncNone
    BY <1>2, <1>5
  <2>4. FileTypes /\ ItemsAreSound /\ TextsAreSound
    BY DEF FileInv
  <2>5. /\ syDoc' \in FileDocs /\ FileDense(syDoc') /\ FileBelow(syDoc, syDoc')
        /\ \A i \in syDoc'.ins : i \in syDoc.ins \/ WordOf(i) \in syInFile
        /\ syDoc'.del \in SUBSET (syDoc.del \cup syDoc.ins)
        /\ syBase' = Text(syDoc') /\ syBase' \in SUBSET syInFile' /\ syBase' \in SUBSET FileWord
        /\ syErased' \in SUBSET (syErased \cup base)
        /\ ~syEstablished => syErased' = syErased
        /\ syInFile \in SUBSET syInFile' /\ syInFile' \in SUBSET (syInFile \cup Text(syDoc))
        /\ \/ syFile' = syBase' /\ syWrote' = syBase' /\ syEvent'
           \/ syBase' = local /\ syFile' = syFile /\ syWrote' = syWrote /\ syEvent' = syEvent
    BY <1>2, <2>1, <2>2, <2>3, <2>4, ReconcileEffect
  <2>6. syErased' \in SUBSET (syErased \cup syInFile)
    BY <2>2, <2>5
  <2>7. (syFile' = SyncNone \/ syFile' \in SUBSET syInFile') /\ syFile' # SyncNone
    BY <1>2, <2>3, <2>5, WordsAreFinite
  <2>8. FileMerges
    BY <2>5, <2>6, <2>7 DEF FileMerges
  <2>9. local = syMerge[1].local
    BY DEF local
  <2> QED  BY <2>5, <2>7, <2>8, <2>9
<1> QED  BY <1>3, <1>4, <1>5

\* So does a read of a file that is there, unless it finds the client's own write.
LEMMA ReadMerges ==
  ASSUME FileInv, FinishRead
  PROVE  /\ FileMerges
         /\ syEstablished => syBase' \in SUBSET syInFile' /\ syFile' # SyncNone
         /\ \/ /\ syMerge[1].local = SyncNone
            \/ /\ syMerge[1].local = syWrote /\ syDoc' = syDoc /\ syBase' = syBase
               /\ syFile' = syFile /\ syWrote' = SyncNone /\ syEvent' = syEvent
            \/ /\ syBase' = Text(syDoc')
               /\ \/ syFile' = syBase' /\ syWrote' = syBase' /\ syEvent'
                  \/ /\ syBase' = syMerge[1].local
                     /\ syFile' = syFile /\ syWrote' = SyncNone /\ syEvent' = syEvent
<1> DEFINE local == syMerge[1].local
           remote == Text(syDoc)
<1>1. /\ syDoc \in FileDocs /\ FileDense(syDoc) /\ remote \in SUBSET FileWord /\ remote # SyncNone
      /\ syInFile \in SUBSET FileWord /\ syBase \in SUBSET FileWord
  BY TextWords, WordsAreFinite DEF FileInv, FileTypes, ItemsAreSound
<1>2. /\ syMerge # <<>>
      /\ \/ local = SyncNone
         \/ local \in SUBSET syInFile /\ syFile # SyncNone
      /\ syFile = SyncNone \/ syFile \in SUBSET syInFile
      /\ syEstablished => syBase \in SUBSET syInFile /\ syFile # SyncNone
  BY DEF FileInv, TextsAreSound, FinishRead
<1>0. local = syMerge[1].local
  OBVIOUS
<1> HIDE DEF local, remote
<1>3. CASE local \in {syWrote, SyncNone}
  <2>1. /\ LeaveFile /\ syBase' = syBase /\ syDoc' = syDoc /\ syErased' = syErased
        /\ local # SyncNone => syWrote' = SyncNone
    BY <1>1, <1>3 DEF FinishRead, MarkerUsed, local, remote
  <2> QED  BY <1>0, <1>1, <1>2, <1>3, <2>1 DEF LeaveFile, FileMerges, FileBelow, remote
<1>4. CASE local \notin {syWrote, SyncNone} /\ local = remote
  <2>1. /\ LeaveFile /\ syBase' = local /\ syDoc' = syDoc /\ syErased' = syErased
        /\ syWrote' = SyncNone
    BY <1>4 DEF FinishRead, MarkerUsed, local, remote
  <2> QED  BY <1>0, <1>1, <1>2, <1>4, <2>1 DEF LeaveFile, FileMerges, FileBelow, remote
<1>5. CASE local \notin {syWrote, SyncNone} /\ local # remote
  <2>1. Reconcile(syBase, local, SyncNone)
    BY <1>5 DEF FinishRead, MarkerUsed, local, remote
  <2>3. local \in SUBSET syInFile /\ syFile # SyncNone
    BY <1>2, <1>5
  <2>4. FileTypes /\ ItemsAreSound /\ TextsAreSound
    BY DEF FileInv
  <2>5. /\ syDoc' \in FileDocs /\ FileDense(syDoc') /\ FileBelow(syDoc, syDoc')
        /\ \A i \in syDoc'.ins : i \in syDoc.ins \/ WordOf(i) \in syInFile
        /\ syDoc'.del \in SUBSET (syDoc.del \cup syDoc.ins)
        /\ syBase' = Text(syDoc') /\ syBase' \in SUBSET syInFile' /\ syBase' \in SUBSET FileWord
        /\ syErased' \in SUBSET (syErased \cup syBase)
        /\ ~syEstablished => syErased' = syErased
        /\ syInFile \in SUBSET syInFile' /\ syInFile' \in SUBSET (syInFile \cup Text(syDoc))
        /\ \/ syFile' = syBase' /\ syWrote' = syBase' /\ syEvent'
           \/ syBase' = local /\ syFile' = syFile /\ syWrote' = SyncNone /\ syEvent' = syEvent
    BY <1>1, <1>2, <2>1, <2>3, <2>4, ReconcileEffect
  <2>6. syErased' \in SUBSET (syErased \cup syInFile)
    BY <1>2, <2>5
  <2>7. (syFile' = SyncNone \/ syFile' \in SUBSET syInFile') /\ syFile' # SyncNone
    BY <1>2, <2>3, <2>5, WordsAreFinite
  <2>8. FileMerges
    BY <2>5, <2>6, <2>7 DEF FileMerges
  <2> QED  BY <1>0, <2>5, <2>7, <2>8
<1> QED  BY <1>3, <1>4, <1>5

\* A change is sent unless there is none.
LEMMA ChangeSent ==
  ASSUME NEW d \in FileDocs, NEW e \in FileDocs
  PROVE  LET change == [ins |-> e.ins \ d.ins, del |-> e.del \ d.del]
         IN  /\ Update(change) \in Seq(FileFrames)
             /\ \A f \in Range(Update(change)) : f.type = "update" /\ FileBelow(f.update, e)
             /\ \A i \in e.ins : i \in d.ins \/ \E f \in Range(Update(change)) : i \in f.update.ins
             /\ \A i \in e.del : i \in d.del \/ \E f \in Range(Update(change)) : i \in f.update.del
<1> DEFINE change == [ins |-> e.ins \ d.ins, del |-> e.del \ d.del]
<1>1. /\ change.ins = e.ins \ d.ins /\ change.del = e.del \ d.del /\ FileBelow(change, e)
  BY DEF FileBelow
<1>2. change \in FileDocs
  <2>1. e.ins \in SUBSET FileItem /\ e.del \in SUBSET FileItem /\ IsFiniteSet(e.ins)
    BY DocsFields
  <2>2. IsFiniteSet(e.ins \ d.ins)
    BY <2>1, FS_Subset
  <2> QED  BY <2>1, <2>2, DocsMade
<1> DEFINE frame == [type |-> "update", update |-> change]
<1>3. frame \in FileFrames /\ frame.type = "update" /\ frame.update = change
  BY <1>2, FileFrameMade
<1>4. Range(<<frame>>) = {frame} /\ <<frame>> \in Seq(FileFrames)
  BY <1>3, RangeOne
<1>5. CASE change = Empty
  <2>1. Update(change) = <<>> /\ e.ins \ d.ins = {} /\ e.del \ d.del = {}
    BY <1>1, <1>5 DEF Update, Empty
  <2>2. <<>> \in Seq(FileFrames) /\ Range(<<>>) = {}
    BY RangeEmpty
  <2> QED  BY <2>1, <2>2
<1>6. CASE change # Empty
  <2>1. Update(change) = <<frame>>
    BY <1>6 DEF Update
  <2> HIDE DEF change, frame
  <2>2. /\ Update(change) \in Seq(FileFrames)
        /\ \A f \in Range(Update(change)) : f.type = "update" /\ FileBelow(f.update, e)
        /\ \A i \in e.ins : i \in d.ins \/ \E f \in Range(Update(change)) : i \in f.update.ins
        /\ \A i \in e.del : i \in d.del \/ \E f \in Range(Update(change)) : i \in f.update.del
    BY <1>1, <1>3, <1>4, <2>1
  <2> QED  BY <2>2 DEF change
<1> QED  BY <1>5, <1>6

-----------------------------------------------------------------------------
(* FileSync: what any step does to the documents.                          *)

\* The document only grows: by what the room had, and by words of the file.
DocStep ==
  /\ syDoc' \in FileDocs /\ FileDense(syDoc') /\ FileBelow(syDoc, syDoc')
  /\ \A i \in syDoc'.ins : i \in syDoc.ins \/ i \in syServer.ins \/ WordOf(i) \in syInFile
  /\ syDoc'.del \in SUBSET (syDoc.del \cup syServer.del \cup syDoc.ins)

\* So does the room's: by what the client has, and by a peer's new word.
ServerStep ==
  /\ syServer' \in FileDocs /\ FileBelow(syServer, syServer')
  /\ \A i \in syServer'.ins :
        \/ i \in syServer.ins \/ i \in syDoc'.ins
        \/ i[3] = 0 /\ i[2] = syWord + 1 /\ syWord' = syWord + 1 /\ FileNamed' = FileNamed
  /\ syServer'.del \in SUBSET (syServer.del \cup syServer.ins \cup syDoc'.del)

\* What the frames bring is in the client's document after the step.
FileFramesBelow(frames) ==
  \A f \in Range(frames) : f.type = "update" => FileBelow(f.update, syDoc')

\* What goes out on a new connection.
OpenThenOutbox == <<OpenFrame>> \o syOutbox

LEMMA DocStays ==
  ASSUME FileInv, syDoc' = syDoc
  PROVE  DocStep
BY DEF FileInv, FileTypes, ItemsAreSound, DocStep, FileBelow

\* A frame from the room brings items the room has: of a number above 0 the client
\* has them, so that no gap opens.
LEMMA ReceivedDocs ==
  ASSUME FileInv, syInbox # <<>>, syDoc' = FileJoined(syDoc, Head(syInbox).update)
  PROVE  DocStep
<1> DEFINE u == Head(syInbox).update
<1>1. /\ syDoc \in FileDocs /\ syServer \in FileDocs /\ syInbox \in Seq(FileNews) /\ FileDense(syDoc)
  BY DEF FileInv, FileTypes, ItemsAreSound
<1>2. Head(syInbox) \in FileNews /\ Head(syInbox) \in Range(syInbox)
  BY <1>1, RangeTail
<1>3. u \in FileDocs /\ FileBelow(u, syServer)
  BY <1>2, FileNewsFields DEF FileInv, FramesAreSound
<1> HIDE DEF u
<1>4. /\ syDoc' \in FileDocs /\ syDoc'.ins = syDoc.ins \cup u.ins /\ syDoc'.del = syDoc.del \cup u.del
      /\ FileBelow(syDoc, syDoc')
  BY <1>1, <1>3, JoinedDocs DEF u
<1>5. ASSUME NEW i \in syDoc'.ins, NEW k \in 0..i[3]  PROVE <<i[1], i[2], k>> \in syDoc'.ins
  <2>1. CASE i \in syDoc.ins
    BY <1>1, <1>4, <2>1 DEF FileDense
  <2>2. CASE i \notin syDoc.ins
    <3>1. i \in u.ins /\ i \in FileItem /\ i \in FileItems
      BY <1>3, <1>4, <2>2, DocsFields DEF FileBelow, FileItems
    <3>2. i[3] = 0
      BY <2>2, <3>1 DEF FileInv, ItemsAreSound
    <3>3. i = <<i[1], i[2], 0>> /\ k = 0
      BY <3>1, <3>2, ItemFields
    <3> QED  BY <3>3
  <2> QED  BY <2>1, <2>2
<1> QED  BY <1>3, <1>4, <1>5 DEF DocStep, FileDense, FileBelow

LEMMA GainedServer ==
  ASSUME NEW frames, FileGained(frames), FileFramesBelow(frames)
  PROVE  ServerStep
BY DEF FileGained, FileFramesBelow, FileBelow, ServerStep

\* A connection opens with a frame that brings nothing.
LEMMA OutboxIsSound ==
  ASSUME syOutbox \in Seq(FileFrames), FileFramesBelow(syOutbox)
  PROVE  /\ OpenThenOutbox \in Seq(FileFrames) /\ FileFramesBelow(OpenThenOutbox)
         /\ Range(OpenThenOutbox) = {OpenFrame} \cup Range(syOutbox)
<1>1. OpenFrame \in FileFrames /\ OpenFrame.type = "open"
  BY DEF FileFrames, OpenFrame
<1>2. <<OpenFrame>> \in Seq(FileFrames) /\ Range(<<OpenFrame>>) = {OpenFrame}
  BY <1>1, RangeOne
<1>3. /\ OpenThenOutbox \in Seq(FileFrames)
      /\ Range(OpenThenOutbox) = {OpenFrame} \cup Range(syOutbox)
  <2>1. PICK open : open = <<OpenFrame>>
    OBVIOUS
  <2>2. open \in Seq(FileFrames) /\ Range(open) = {OpenFrame}
    BY <1>2, <2>1
  <2>3. open \o syOutbox \in Seq(FileFrames) /\ Range(open \o syOutbox) = Range(open) \cup Range(syOutbox)
    BY <2>2, RangeConcat
  <2> QED  BY <2>1, <2>2, <2>3 DEF OpenThenOutbox
<1> QED  BY <1>1, <1>2, <1>3 DEF FileFramesBelow

\* A peer's edit: the word is new, and so is its item.
LEMMA PeerServer ==
  ASSUME FileInv, FilePeerEdits
  PROVE  /\ ServerStep
         /\ \E update \in FileDocs :
              /\ FileBelow(update, syServer')
              /\ syInbox' = IF syConn = "up"
                            THEN Append(syInbox, [type |-> "update", update |-> update])
                            ELSE syInbox
<1>01. PICK p \in SyncPlace : \E new \in SUBSET {<<p, syWord + 1>>} :
        LET said == Text(syServer)
            update == Edits(syServer, (said \ FileAt(said, p)) \cup new)
        IN  /\ syServer' = FileJoined(syServer, update)
            /\ syInbox' = IF syConn = "up"
                          THEN Append(syInbox, [type |-> "update", update |-> update])
                          ELSE syInbox
  BY DEF FilePeerEdits
<1>02. PICK new \in SUBSET {<<p, syWord + 1>>} :
        LET said == Text(syServer)
            update == Edits(syServer, (said \ FileAt(said, p)) \cup new)
        IN  /\ syServer' = FileJoined(syServer, update)
            /\ syInbox' = IF syConn = "up"
                          THEN Append(syInbox, [type |-> "update", update |-> update])
                          ELSE syInbox
  BY <1>01
<1>1. PICK update :
        /\ update = Edits(syServer, (Text(syServer) \ FileAt(Text(syServer), p)) \cup new)
        /\ syServer' = FileJoined(syServer, update)
        /\ syInbox' = IF syConn = "up"
                      THEN Append(syInbox, [type |-> "update", update |-> update])
                      ELSE syInbox
  BY <1>02
<1> DEFINE said == Text(syServer)
           text == (said \ FileAt(said, p)) \cup new
           w == <<p, syWord + 1>>
<1>2. /\ syWord + 1 \in 0..SyncWords /\ syWord' = syWord + 1 /\ FileNamed' = FileNamed
      /\ syServer \in FileDocs /\ syWord \in Nat
  BY SyncAssumption DEF FilePeerEdits, FileInv, FileTypes, FileNamed, syDisk
<1>3. w \in FileWord /\ w[2] = syWord + 1
  BY <1>2 DEF FileWord
<1>4. /\ syServer.ins \in SUBSET FileItem /\ syServer.del \in SUBSET FileItem /\ IsFiniteSet(syServer.ins)
  BY <1>2, DocsFields
<1>5. said \in SUBSET FileWord
  BY <1>2, TextWords
<1>6. \A i \in syServer.ins : WordOf(i) # w
  <2> SUFFICES ASSUME NEW i \in syServer.ins, WordOf(i) = w  PROVE FALSE
    OBVIOUS
  <2>1. i \in FileItems
    BY DEF FileItems
  <2>2. i[2] <= syWord /\ i[2] \in 0..SyncWords /\ WordOf(i)[2] = i[2]
    BY <1>4, <2>1, ItemFields DEF FileInv, ItemsAreSound
  <2> QED  BY <1>2, <1>3, <2>2
<1>7. FileCount(syServer, w) = 0
  <2>1. {i \in syServer.ins : WordOf(i) = w} = {}
    BY <1>6
  <2> QED  BY <2>1, FS_EmptySet DEF FileCount
<1> HIDE DEF w
<1>8. text \ said \in SUBSET {w}
  BY <1>1 DEF w
<1> DEFINE fresh == {<<v[1], v[2], FileCount(syServer, v)>> : v \in text \ said}
           gone == {i \in syServer.ins \ syServer.del : WordOf(i) \notin text}
<1>9. update = [ins |-> fresh, del |-> gone]
  BY <1>1 DEF Edits, FileCount, WordOf
<1>10. fresh \in SUBSET {<<w[1], w[2], 0>>}
  BY <1>7, <1>8
<1>11. /\ <<w[1], w[2], 0>> \in FileItem
       /\ <<w[1], w[2], 0>>[2] = syWord + 1 /\ <<w[1], w[2], 0>>[3] = 0
  BY <1>3, WordFields
<1>12. IsFiniteSet(fresh)
  <2>1. IsFiniteSet({<<w[1], w[2], 0>>})
    BY FS_Singleton
  <2> QED  BY <1>10, <2>1, FS_Subset
<1>13. gone \in SUBSET FileItem /\ gone \in SUBSET syServer.ins
  BY <1>4
<1> HIDE DEF fresh, gone
<1>14. update \in FileDocs /\ update.ins = fresh /\ update.del = gone
  <2>1. fresh \in SUBSET FileItem /\ gone \in SUBSET FileItem
    BY <1>10, <1>11, <1>13
  <2> QED  BY <1>9, <1>12, <2>1, DocsMade
<1>15. /\ syServer' \in FileDocs /\ syServer'.ins = syServer.ins \cup fresh
       /\ syServer'.del = syServer.del \cup gone
       /\ FileBelow(syServer, syServer') /\ FileBelow(update, syServer')
  BY <1>1, <1>2, <1>14, JoinedDocs
<1>16. \A i \in fresh : i[3] = 0 /\ i[2] = syWord + 1
  BY <1>10, <1>11
<1>17. ServerStep
  BY <1>2, <1>13, <1>15, <1>16 DEF ServerStep
<1> QED  BY <1>1, <1>14, <1>15, <1>17

\* What a reading of the file sends: what waited, and what it changed; a join
\* sends the whole document.
LEMMA FinishSends ==
  ASSUME FileInv, FinishJoin \/ FinishRead, DocStep
  PROVE  \E frames \in Seq(FileFrames) :
           /\ Flush(frames)
           /\ \A f \in Range(frames) : \/ f \in Range(syOutbox)
                                       \/ f.type = "update" /\ FileBelow(f.update, syDoc')
           /\ \A i \in syDoc'.ins : \/ FinishRead /\ i \in syDoc.ins
                \/ \E f \in Range(frames) : f.type = "update" /\ i \in f.update.ins
           /\ \A i \in syDoc'.del : \/ FinishRead /\ i \in syDoc.del
                \/ \E f \in Range(frames) : f.type = "update" /\ i \in f.update.del
<1> DEFINE change == [ins |-> syDoc'.ins \ syDoc.ins, del |-> syDoc'.del \ syDoc.del]
           some == syOutbox \o Update(change)
           all == some \o CatchUp(syDoc')
<1>1. syOutbox \in Seq(FileFrames) /\ syDoc \in FileDocs /\ syDoc' \in FileDocs
  BY DEF FileInv, FileTypes, DocStep
<1>2. PICK e : e = syDoc'
  OBVIOUS
<1>3. /\ Update(change) \in Seq(FileFrames)
      /\ \A f \in Range(Update(change)) : f.type = "update" /\ FileBelow(f.update, e)
      /\ \A i \in e.ins : i \in syDoc.ins \/ \E f \in Range(Update(change)) : i \in f.update.ins
      /\ \A i \in e.del : i \in syDoc.del \/ \E f \in Range(Update(change)) : i \in f.update.del
  BY <1>1, <1>2, ChangeSent
<1> HIDE DEF change
<1>4. some \in Seq(FileFrames) /\ Range(some) = Range(syOutbox) \cup Range(Update(change))
  BY <1>1, <1>3, RangeConcat
<1> DEFINE frame == [type |-> "update", update |-> e]
<1>5. frame \in FileFrames /\ frame.type = "update" /\ frame.update = e
  BY <1>1, <1>2, FileFrameMade
<1>6. CatchUp(syDoc') = <<frame>>
  BY <1>2 DEF CatchUp
<1> HIDE DEF frame, some
<1>7. <<frame>> \in Seq(FileFrames) /\ Range(<<frame>>) = {frame}
  BY <1>5, RangeOne
<1>8. all \in Seq(FileFrames) /\ Range(all) = Range(some) \cup {frame}
  <2>1. PICK last : last = <<frame>>
    OBVIOUS
  <2>2. last \in Seq(FileFrames) /\ Range(last) = {frame}
    BY <1>7, <2>1
  <2>3. some \o last \in Seq(FileFrames) /\ Range(some \o last) = Range(some) \cup Range(last)
    BY <1>4, <2>2, RangeConcat
  <2> QED  BY <1>6, <2>1, <2>2, <2>3
<1> HIDE DEF all
<1>9. CASE FinishJoin
  <2>1. Flush(all)
    BY <1>9 DEF FinishJoin, all, some, change
  <2> QED  BY <1>2, <1>3, <1>4, <1>5, <1>8, <2>1 DEF FileBelow
<1>10. CASE FinishRead
  <2>1. Flush(some)
    BY <1>10 DEF FinishRead, some, change
  <2> QED  BY <1>2, <1>3, <1>4, <1>10, <2>1
<1> QED  BY <1>9, <1>10

LEMMA StepDocs ==
  ASSUME FileInv, SyncNext \/ UNCHANGED syVars
  PROVE  DocStep
<1>1. CASE FileConnect
  <2>1. syDoc' = syDoc
    BY <1>1 DEF FileConnect, syClient, syDisk, syAuthor
  <2> QED  BY <2>1, DocStays
<1>2. CASE FileReceiveState
  <2>1. /\ syInbox # <<>> /\ syDoc' = FileJoined(syDoc, Head(syInbox).update)
    BY <1>2 DEF FileReceiveState
  <2> QED  BY <2>1, ReceivedDocs
<1>3. CASE FileReceiveUpdate
  <2>1. /\ syInbox # <<>> /\ syDoc' = FileJoined(syDoc, Head(syInbox).update)
    BY <1>3 DEF FileReceiveUpdate
  <2> QED  BY <2>1, ReceivedDocs
<1>4. CASE FileWatched
  <2>1. syDoc' = syDoc
    BY <1>4 DEF FileWatched, syWire, syAuthor
  <2> QED  BY <2>1, DocStays
<1>5. CASE SettleDisk
  <2>1. syDoc' = syDoc
    BY <1>5 DEF SettleDisk, syWire, syAuthor
  <2> QED  BY <2>1, DocStays
<1>6. CASE FinishJoin
  BY <1>6, JoinMerges DEF FileMerges, DocStep
<1>7. CASE FinishRead
  BY <1>7, ReadMerges DEF FileMerges, DocStep
<1>8. CASE SettleSession
  <2>1. syDoc' = syDoc
    BY <1>8 DEF SettleSession, syWire, syAuthor
  <2> QED  BY <2>1, DocStays
<1>9. CASE FileRoomReceive
  <2>1. syDoc' = syDoc
    BY <1>9 DEF FileRoomReceive, syClient, syDisk, syAuthor
  <2> QED  BY <2>1, DocStays
<1>10. CASE FilePeerEdits
  <2>1. syDoc' = syDoc
    BY <1>10 DEF FilePeerEdits, syClient, syDisk
  <2> QED  BY <2>1, DocStays
<1>11. CASE FileDisconnected
  <2>1. syDoc' = syDoc
    BY <1>11 DEF FileDisconnected, syClient, syDisk, syAuthor
  <2> QED  BY <2>1, DocStays
<1>12. CASE FileLoad
  <2>1. syDoc' = syDoc
    BY <1>12 DEF FileLoad, syWire, syClient, syDisk
  <2> QED  BY <2>1, DocStays
<1>13. CASE Save
  <2>1. syDoc' = syDoc
    BY <1>13 DEF Save, Saved, syWire, syClient
  <2> QED  BY <2>1, DocStays
<1>14. CASE Undo
  <2>1. syDoc' = syDoc
    BY <1>14 DEF Undo, Saved, syWire, syClient
  <2> QED  BY <2>1, DocStays
<1>15. CASE UNCHANGED syVars
  <2>1. syDoc' = syDoc
    BY <1>15 DEF syVars, syWire, syClient, syDisk, syAuthor
  <2> QED  BY <2>1, DocStays
<1> QED  BY <1>1, <1>2, <1>3, <1>4, <1>5, <1>6, <1>7, <1>8, <1>9, <1>10, <1>11,
         <1>12, <1>13, <1>14, <1>15 DEF SyncNext, SyncClientStep

LEMMA StepServer ==
  ASSUME FileInv, SyncNext \/ UNCHANGED syVars
  PROVE  ServerStep
<1>0. /\ FileTypes /\ syServer \in FileDocs /\ sySent \in Seq(FileFrames) /\ syOutbox \in Seq(FileFrames)
      /\ FileFramesBelow(sySent) /\ FileFramesBelow(syOutbox) /\ DocStep
  BY StepDocs DEF FileInv, FileTypes, FramesAreSound, FileFramesBelow, DocStep, FileBelow
<1>1. CASE FileConnect
  <2>1. OpenThenOutbox \in Seq(FileFrames) /\ FileFramesBelow(OpenThenOutbox)
    BY <1>0, OutboxIsSound
  <2>2. CASE FileLose(OpenThenOutbox)
    <3>1. FileGained(OpenThenOutbox)
      BY <1>0, <2>1, <2>2, LoseEffect
    <3> QED  BY <2>1, <3>1, GainedServer
  <2>3. CASE syServer' = syServer
    BY <1>0, <2>3 DEF ServerStep, FileBelow
  <2> QED  BY <1>1, <2>2, <2>3 DEF FileConnect, OpenThenOutbox, OpenFrame
<1>2. CASE FileReceiveState
  <2>1. syServer' = syServer
    BY <1>2 DEF FileReceiveState, syAuthor
  <2> QED  BY <1>0, <2>1 DEF ServerStep, FileBelow
<1>3. CASE FileReceiveUpdate
  <2>1. syServer' = syServer
    BY <1>3 DEF FileReceiveUpdate, syDisk, syAuthor
  <2> QED  BY <1>0, <2>1 DEF ServerStep, FileBelow
<1>4. CASE FileWatched
  <2>1. syServer' = syServer
    BY <1>4 DEF FileWatched, syWire, syAuthor
  <2> QED  BY <1>0, <2>1 DEF ServerStep, FileBelow
<1>5. CASE SettleDisk
  <2>1. syServer' = syServer
    BY <1>5 DEF SettleDisk, syWire, syAuthor
  <2> QED  BY <1>0, <2>1 DEF ServerStep, FileBelow
<1>6. CASE FinishJoin
  <2>1. PICK frames \in Seq(FileFrames) :
           /\ Flush(frames)
           /\ \A f \in Range(frames) : \/ f \in Range(syOutbox)
                                       \/ f.type = "update" /\ FileBelow(f.update, syDoc')
    BY <1>6, <1>0, FinishSends
  <2>2. FileGained(sySent \o frames) /\ Range(sySent \o frames) = Range(sySent) \cup Range(frames)
    BY <1>0, <2>1, FlushEffect, RangeConcat DEF FileTypes
  <2>3. FileFramesBelow(sySent \o frames)
    BY <1>0, <2>1, <2>2 DEF FileFramesBelow
  <2> QED  BY <2>2, <2>3, GainedServer
<1>7. CASE FinishRead
  <2>1. PICK frames \in Seq(FileFrames) :
           /\ Flush(frames)
           /\ \A f \in Range(frames) : \/ f \in Range(syOutbox)
                                       \/ f.type = "update" /\ FileBelow(f.update, syDoc')
    BY <1>7, <1>0, FinishSends
  <2>2. FileGained(sySent \o frames) /\ Range(sySent \o frames) = Range(sySent) \cup Range(frames)
    BY <1>0, <2>1, FlushEffect, RangeConcat DEF FileTypes
  <2>3. FileFramesBelow(sySent \o frames)
    BY <1>0, <2>1, <2>2 DEF FileFramesBelow
  <2> QED  BY <2>2, <2>3, GainedServer
<1>8. CASE SettleSession
  <2>1. syServer' = syServer
    BY <1>8 DEF SettleSession, syWire, syAuthor
  <2> QED  BY <1>0, <2>1 DEF ServerStep, FileBelow
<1>9. CASE FileRoomReceive
  <2>1. sySent # <<>> /\ syServer' = Handled(<<Head(sySent)>>)
    BY <1>9 DEF FileRoomReceive
  <2>2. Head(sySent) \in FileFrames /\ Head(sySent) \in Range(sySent)
    BY <1>0, <2>1, RangeTail
  <2>3. <<Head(sySent)>> \in Seq(FileFrames) /\ Range(<<Head(sySent)>>) = {Head(sySent)}
    BY <2>2, RangeOne
  <2>4. FileFramesBelow(<<Head(sySent)>>)
    BY <1>0, <2>2, <2>3 DEF FileFramesBelow
  <2>5. FileGained(<<Head(sySent)>>)
    BY <1>0, <2>1, <2>3, HandledDocs DEF FileGained
  <2> QED  BY <2>3, <2>4, <2>5, GainedServer
<1>10. CASE FilePeerEdits
  BY <1>10, <1>0, PeerServer
<1>11. CASE FileDisconnected
  <2>1. sySent \in Seq(FileFrames) /\ FileFramesBelow(sySent)
    BY <1>0, OutboxIsSound
  <2>2. FileGained(sySent)
    BY <1>11, <1>0, <2>1, LoseEffect DEF FileDisconnected
  <2> QED  BY <2>1, <2>2, GainedServer
<1>12. CASE FileLoad
  <2>1. syServer' = syServer
    BY <1>12 DEF FileLoad, syWire, syClient, syDisk
  <2> QED  BY <1>0, <2>1 DEF ServerStep, FileBelow
<1>13. CASE Save
  <2>1. syServer' = syServer
    BY <1>13 DEF Save, Saved, syWire, syClient
  <2> QED  BY <1>0, <2>1 DEF ServerStep, FileBelow
<1>14. CASE Undo
  <2>1. syServer' = syServer
    BY <1>14 DEF Undo, Saved, syWire, syClient
  <2> QED  BY <1>0, <2>1 DEF ServerStep, FileBelow
<1>15. CASE UNCHANGED syVars
  <2>1. syServer' = syServer
    BY <1>15 DEF syVars, syWire, syClient, syDisk, syAuthor
  <2> QED  BY <1>0, <2>1 DEF ServerStep, FileBelow
<1> QED  BY <1>1, <1>2, <1>3, <1>4, <1>5, <1>6, <1>7, <1>8, <1>9, <1>10, <1>11,
         <1>12, <1>13, <1>14, <1>15 DEF SyncNext, SyncClientStep

-----------------------------------------------------------------------------
(* FileSync: the frames.                                                   *)

\* What is on its way after a step was on its way before, or brings what its
\* sender has; a state brings the text the session began with.
FramesStep ==
  /\ sySent' \in Seq(FileFrames) /\ syOutbox' \in Seq(FileFrames) /\ syInbox' \in Seq(FileNews)
  /\ syConn' \in {"up", "down"} /\ syDropped' \in Nat
  /\ \A f \in Range(sySent') \cup Range(syOutbox') :
        \/ f \in Range(sySent) \cup Range(syOutbox)
        \/ f.type = "update" => FileBelow(f.update, syDoc')
  /\ \A f \in Range(syInbox') :
        \/ f \in Range(syInbox)
        \/ /\ FileBelow(f.update, syServer')
           /\ f.type = "state" => \A p \in SyncPlace : <<p, 0, 0>> \in f.update.ins

LEMMA StepFrames ==
  ASSUME FileInv, SyncNext \/ UNCHANGED syVars
  PROVE  FramesStep
<1>0. /\ FileTypes /\ syServer \in FileDocs /\ sySent \in Seq(FileFrames) /\ syOutbox \in Seq(FileFrames)
      /\ syInbox \in Seq(FileNews) /\ syConn \in {"up", "down"} /\ syDropped \in Nat
      /\ FileFramesBelow(syOutbox) /\ DocStep /\ ServerStep
      /\ <<>> \in Seq(FileFrames) /\ <<>> \in Seq(FileNews) /\ Range(<<>>) = {}
  BY StepDocs, StepServer, RangeEmpty
     DEF FileInv, FileTypes, FramesAreSound, FileFramesBelow, DocStep, FileBelow
<1>1. CASE FileConnect
  <2>1. /\ OpenThenOutbox \in Seq(FileFrames)
        /\ Range(OpenThenOutbox) = {OpenFrame} \cup Range(syOutbox)
    BY <1>0, OutboxIsSound
  <2>2. OpenFrame.type = "open"
    BY DEF OpenFrame
  <2>3. CASE FileLose(OpenThenOutbox) /\ syOutbox' = OpenThenOutbox
    <3>1. /\ syDropped' \in Nat /\ syConn' = "down" /\ sySent' = <<>> /\ syInbox' = <<>>
      BY <1>0, <2>1, <2>3, LoseEffect
    <3> QED  BY <1>0, <2>1, <2>2, <2>3, <3>1 DEF FramesStep
  <2>4. CASE /\ syConn' = "up" /\ sySent' = OpenThenOutbox /\ syOutbox' = <<>>
             /\ syInbox' = syInbox /\ syDropped' = syDropped
    BY <1>0, <2>1, <2>2, <2>4 DEF FramesStep
  <2> QED  BY <1>1, <2>3, <2>4 DEF FileConnect, OpenThenOutbox, OpenFrame
<1>2. CASE FileReceiveState
  <2>1. /\ syInbox # <<>> /\ syInbox' = Tail(syInbox)
        /\ sySent' = sySent /\ syOutbox' = syOutbox /\ syConn' = syConn /\ syDropped' = syDropped
    BY <1>2 DEF FileReceiveState, syAuthor
  <2>2. syInbox' \in Seq(FileNews) /\ Range(syInbox) = {Head(syInbox)} \cup Range(syInbox')
    BY <1>0, <2>1, RangeTail
  <2> QED  BY <1>0, <2>1, <2>2 DEF FramesStep
<1>3. CASE FileReceiveUpdate
  <2>1. /\ syInbox # <<>> /\ syInbox' = Tail(syInbox)
        /\ sySent' = sySent /\ syOutbox' = syOutbox /\ syConn' = syConn /\ syDropped' = syDropped
    BY <1>3 DEF FileReceiveUpdate, syDisk, syAuthor
  <2>2. syInbox' \in Seq(FileNews) /\ Range(syInbox) = {Head(syInbox)} \cup Range(syInbox')
    BY <1>0, <2>1, RangeTail
  <2> QED  BY <1>0, <2>1, <2>2 DEF FramesStep
<1>4. CASE FileWatched
  <2>1. /\ sySent' = sySent /\ syOutbox' = syOutbox /\ syInbox' = syInbox
        /\ syConn' = syConn /\ syDropped' = syDropped
    BY <1>4 DEF FileWatched, syWire, syAuthor
  <2> QED  BY <1>0, <2>1 DEF FramesStep
<1>5. CASE SettleDisk
  <2>1. /\ sySent' = sySent /\ syOutbox' = syOutbox /\ syInbox' = syInbox
        /\ syConn' = syConn /\ syDropped' = syDropped
    BY <1>5 DEF SettleDisk, syWire, syAuthor
  <2> QED  BY <1>0, <2>1 DEF FramesStep
<1>6. CASE FinishJoin
  <2>1. PICK frames \in Seq(FileFrames) :
           /\ Flush(frames)
           /\ \A f \in Range(frames) : \/ f \in Range(syOutbox)
                                       \/ f.type = "update" /\ FileBelow(f.update, syDoc')
    BY <1>6, <1>0, FinishSends
  <2>2. /\ sySent' \in Seq(FileFrames) /\ syOutbox' \in Seq(FileFrames) /\ syInbox' \in Seq(FileNews)
        /\ Range(sySent') \in SUBSET (Range(sySent) \cup Range(frames))
        /\ Range(syOutbox') \in SUBSET Range(frames)
        /\ Range(syInbox') \in SUBSET Range(syInbox)
        /\ syConn' \in {"up", "down"} /\ syDropped' \in Nat
    BY <1>0, <2>1, FlushEffect
  <2> QED  BY <2>1, <2>2 DEF FramesStep
<1>7. CASE FinishRead
  <2>1. PICK frames \in Seq(FileFrames) :
           /\ Flush(frames)
           /\ \A f \in Range(frames) : \/ f \in Range(syOutbox)
                                       \/ f.type = "update" /\ FileBelow(f.update, syDoc')
    BY <1>7, <1>0, FinishSends
  <2>2. /\ sySent' \in Seq(FileFrames) /\ syOutbox' \in Seq(FileFrames) /\ syInbox' \in Seq(FileNews)
        /\ Range(sySent') \in SUBSET (Range(sySent) \cup Range(frames))
        /\ Range(syOutbox') \in SUBSET Range(frames)
        /\ Range(syInbox') \in SUBSET Range(syInbox)
        /\ syConn' \in {"up", "down"} /\ syDropped' \in Nat
    BY <1>0, <2>1, FlushEffect
  <2> QED  BY <2>1, <2>2 DEF FramesStep
<1>8. CASE SettleSession
  <2>1. /\ sySent' = sySent /\ syOutbox' = syOutbox /\ syInbox' = syInbox
        /\ syConn' = syConn /\ syDropped' = syDropped
    BY <1>8 DEF SettleSession, syWire, syAuthor
  <2> QED  BY <1>0, <2>1 DEF FramesStep
<1>9. CASE FileRoomReceive
  <2>1. /\ sySent # <<>> /\ sySent' = Tail(sySent) /\ syOutbox' = syOutbox
        /\ syConn' = syConn /\ syDropped' = syDropped
        /\ \/ syInbox' = syInbox
           \/ syInbox' = Append(syInbox, [type |-> "state", update |-> syServer])
    BY <1>9 DEF FileRoomReceive, syClient, syDisk, syAuthor
  <2>2. sySent' \in Seq(FileFrames) /\ Range(sySent) = {Head(sySent)} \cup Range(sySent')
    BY <1>0, <2>1, RangeTail
  <2>3. PICK news : news = [type |-> "state", update |-> syServer]
    OBVIOUS
  <2>4. /\ news \in FileNews /\ FileBelow(news.update, syServer')
        /\ \A p \in SyncPlace : <<p, 0, 0>> \in news.update.ins
    <3>1. news \in FileNews /\ news.update = syServer
      BY <1>0, <2>3, FileFrameMade
    <3> QED  BY <1>0, <3>1 DEF ServerStep, FileInv, ItemsAreSound
  <2>5. syInbox' \in Seq(FileNews) /\ Range(syInbox') \in SUBSET (Range(syInbox) \cup {news})
    <3>1. Append(syInbox, news) \in Seq(FileNews) /\ Range(Append(syInbox, news)) = Range(syInbox) \cup {news}
      BY <1>0, <2>4, RangeAppend
    <3> QED  BY <1>0, <2>1, <2>3, <3>1
  <2> QED  BY <1>0, <2>1, <2>2, <2>4, <2>5 DEF FramesStep
<1>10. CASE FilePeerEdits
  <2>1. sySent' = sySent /\ syOutbox' = syOutbox /\ syConn' = syConn /\ syDropped' = syDropped
    BY <1>10 DEF FilePeerEdits, syClient, syDisk
  <2>2. PICK update \in FileDocs :
           /\ FileBelow(update, syServer')
           /\ syInbox' = IF syConn = "up"
                         THEN Append(syInbox, [type |-> "update", update |-> update])
                         ELSE syInbox
    BY <1>10, PeerServer
  <2>3. PICK news : news = [type |-> "update", update |-> update]
    OBVIOUS
  <2>4. news \in FileNews /\ news.type = "update" /\ news.update = update
    BY <2>3, FileFrameMade
  <2>5. syInbox' \in Seq(FileNews) /\ Range(syInbox') \in SUBSET (Range(syInbox) \cup {news})
    BY <1>0, <2>2, <2>3, <2>4, RangeAppend
  <2> QED  BY <1>0, <2>1, <2>2, <2>4, <2>5 DEF FramesStep
<1>11. CASE FileDisconnected
  <2>1. FileLose(sySent) /\ syOutbox' = syOutbox
    BY <1>11 DEF FileDisconnected, syClient, syDisk, syAuthor
  <2>2. /\ syDropped' \in Nat /\ syConn' = "down" /\ sySent' = <<>> /\ syInbox' = <<>>
    BY <1>0, <2>1, LoseEffect
  <2> QED  BY <1>0, <2>1, <2>2 DEF FramesStep
<1>12. CASE FileLoad
  <2>1. /\ sySent' = sySent /\ syOutbox' = syOutbox /\ syInbox' = syInbox
        /\ syConn' = syConn /\ syDropped' = syDropped
    BY <1>12 DEF FileLoad, syWire, syClient, syDisk
  <2> QED  BY <1>0, <2>1 DEF FramesStep
<1>13. CASE Save
  <2>1. /\ sySent' = sySent /\ syOutbox' = syOutbox /\ syInbox' = syInbox
        /\ syConn' = syConn /\ syDropped' = syDropped
    BY <1>13 DEF Save, Saved, syWire, syClient
  <2> QED  BY <1>0, <2>1 DEF FramesStep
<1>14. CASE Undo
  <2>1. /\ sySent' = sySent /\ syOutbox' = syOutbox /\ syInbox' = syInbox
        /\ syConn' = syConn /\ syDropped' = syDropped
    BY <1>14 DEF Undo, Saved, syWire, syClient
  <2> QED  BY <1>0, <2>1 DEF FramesStep
<1>15. CASE UNCHANGED syVars
  <2>1. /\ sySent' = sySent /\ syOutbox' = syOutbox /\ syInbox' = syInbox
        /\ syConn' = syConn /\ syDropped' = syDropped
    BY <1>15 DEF syVars, syWire, syClient, syDisk, syAuthor
  <2> QED  BY <1>0, <2>1 DEF FramesStep
<1> QED  BY <1>1, <1>2, <1>3, <1>4, <1>5, <1>6, <1>7, <1>8, <1>9, <1>10, <1>11,
         <1>12, <1>13, <1>14, <1>15 DEF SyncNext, SyncClientStep

LEMMA FramesInv ==
  ASSUME FileInv, SyncNext \/ UNCHANGED syVars
  PROVE  FramesAreSound'
<1>1. DocStep /\ ServerStep /\ FramesStep
  BY StepDocs, StepServer, StepFrames
<1> QED  BY <1>1 DEF FileInv, FramesAreSound, DocStep, ServerStep, FramesStep, FileBelow

-----------------------------------------------------------------------------
(* FileSync: the words and the items.                                      *)

\* A word comes to the file or the buffer from the document, or is typed.
NamedStep ==
  /\ syWord' \in 0..SyncWords /\ syWord <= syWord'
  /\ syKnown' \in SUBSET FileWord /\ syInFile' \in SUBSET FileWord
  /\ \A w \in FileNamed' :
       \/ w \in FileNamed \/ w \in Text(syDoc)
       \/ w[2] = syWord + 1 /\ syWord' = syWord + 1

LEMMA StepNamed ==
  ASSUME FileInv, SyncNext \/ UNCHANGED syVars
  PROVE  NamedStep
<1>0. /\ syWord \in 0..SyncWords /\ syKnown \in SUBSET FileWord /\ syInFile \in SUBSET FileWord
      /\ SyncWords \in Nat /\ Text(syDoc) \in SUBSET FileWord
  BY SyncAssumption, TextWords DEF FileInv, FileTypes
<1>1. CASE FileConnect
  <2>1. syWord' = syWord /\ syKnown' = syKnown /\ syInFile' = syInFile
    BY <1>1 DEF FileConnect, syClient, syDisk, syAuthor
  <2> QED  BY <1>0, <2>1 DEF NamedStep, FileNamed
<1>2. CASE FileReceiveState
  <2>1. syWord' = syWord /\ syKnown' = syKnown /\ syInFile' = syInFile
    BY <1>2 DEF FileReceiveState, syAuthor
  <2> QED  BY <1>0, <2>1 DEF NamedStep, FileNamed
<1>3. CASE FileReceiveUpdate
  <2>1. syWord' = syWord /\ syKnown' = syKnown /\ syInFile' = syInFile
    BY <1>3 DEF FileReceiveUpdate, syDisk, syAuthor
  <2> QED  BY <1>0, <2>1 DEF NamedStep, FileNamed
<1>4. CASE FileWatched
  <2>1. syWord' = syWord /\ syKnown' = syKnown /\ syInFile' = syInFile
    BY <1>4 DEF FileWatched, syWire, syAuthor
  <2> QED  BY <1>0, <2>1 DEF NamedStep, FileNamed
<1>5. CASE SettleDisk
  <2>1. syWord' = syWord /\ syKnown' = syKnown /\ syInFile' = syInFile
    BY <1>5 DEF SettleDisk, syWire, syAuthor
  <2> QED  BY <1>0, <2>1 DEF NamedStep, FileNamed
<1>6. CASE FinishJoin
  <2>1. /\ syWord' = syWord /\ syKnown' = syKnown
        /\ syInFile' \in SUBSET (syInFile \cup Text(syDoc))
    BY <1>6, JoinMerges DEF FileMerges, FinishJoin, syAuthor
  <2> QED  BY <1>0, <2>1 DEF NamedStep, FileNamed
<1>7. CASE FinishRead
  <2>1. /\ syWord' = syWord /\ syKnown' = syKnown
        /\ syInFile' \in SUBSET (syInFile \cup Text(syDoc))
    BY <1>7, ReadMerges DEF FileMerges, FinishRead, syAuthor
  <2> QED  BY <1>0, <2>1 DEF NamedStep, FileNamed
<1>8. CASE SettleSession
  <2>1. /\ syWord' = syWord /\ syKnown' = syKnown
        /\ syInFile' \in SUBSET (syInFile \cup Text(syDoc))
    BY <1>8 DEF SettleSession, syWire, syAuthor, WriteFile, LeaveFile
  <2> QED  BY <1>0, <2>1 DEF NamedStep, FileNamed
<1>9. CASE FileRoomReceive
  <2>1. syWord' = syWord /\ syKnown' = syKnown /\ syInFile' = syInFile
    BY <1>9 DEF FileRoomReceive, syClient, syDisk, syAuthor
  <2> QED  BY <1>0, <2>1 DEF NamedStep, FileNamed
<1>10. CASE FilePeerEdits
  <2>1. /\ syWord' = syWord + 1 /\ syWord < SyncWords /\ syKnown' = syKnown /\ syInFile' = syInFile
    BY <1>10 DEF FilePeerEdits, syClient, syDisk
  <2> QED  BY <1>0, <2>1 DEF NamedStep, FileNamed
<1>11. CASE FileDisconnected
  <2>1. syWord' = syWord /\ syKnown' = syKnown /\ syInFile' = syInFile
    BY <1>11 DEF FileDisconnected, syClient, syDisk, syAuthor
  <2> QED  BY <1>0, <2>1 DEF NamedStep, FileNamed
<1>12. CASE FileLoad
  <2>1. /\ syWord' = syWord /\ syInFile' = syInFile /\ syKnown' = syKnown \cup syFile
        /\ syFile \in SUBSET syInFile
    BY <1>12 DEF FileLoad, syWire, syClient, syDisk, FileInv, TextsAreSound
  <2> QED  BY <1>0, <2>1 DEF NamedStep, FileNamed
<1>13. CASE Save
  <2>1. PICK p \in SyncPlace : \E new \in SUBSET {<<p, syWord + 1>>} :
           Saved((syBuffer.now \ FileAt(syBuffer.now, p)) \cup new)
    BY <1>13 DEF Save
  <2>2. PICK new \in SUBSET {<<p, syWord + 1>>} :
           Saved((syBuffer.now \ FileAt(syBuffer.now, p)) \cup new)
    BY <2>1
  <2>3. PICK text : text = (syBuffer.now \ FileAt(syBuffer.now, p)) \cup new
    OBVIOUS
  <2>4. /\ syWord' = syWord + 1 /\ syWord < SyncWords
        /\ syInFile' = syInFile \cup text /\ syKnown' = syKnown \cup text
    BY <1>13, <2>2, <2>3 DEF Save, Saved
  <2>5. text \in SUBSET (syKnown \cup {<<p, syWord + 1>>})
    BY <2>3 DEF FileInv, TextsAreSound
  <2>6. <<p, syWord + 1>> \in FileWord /\ <<p, syWord + 1>>[2] = syWord + 1
    BY <1>0, <2>4 DEF FileWord
  <2> HIDE DEF FileWord
  <2>7. syKnown' \in SUBSET FileWord /\ syInFile' \in SUBSET FileWord
    BY <1>0, <2>4, <2>5, <2>6
  <2>8. \A w \in FileNamed' : w \in FileNamed \/ w = <<p, syWord + 1>>
    BY <2>4, <2>5 DEF FileNamed
  <2>9. syWord' \in 0..SyncWords /\ syWord <= syWord'
    BY <1>0, <2>4
  <2> QED  BY <2>4, <2>6, <2>7, <2>8, <2>9 DEF NamedStep
<1>14. CASE Undo
  <2>1. /\ syWord' = syWord + 1 /\ syWord < SyncWords /\ syKnown' = syKnown
        /\ syInFile' = syInFile \cup syBuffer.before /\ syBuffer.before \in SUBSET syKnown
    BY <1>14 DEF Undo, Saved, syWire, syClient, FileInv, TextsAreSound
  <2> QED  BY <1>0, <2>1 DEF NamedStep, FileNamed
<1>15. CASE UNCHANGED syVars
  <2>1. syWord' = syWord /\ syKnown' = syKnown /\ syInFile' = syInFile
    BY <1>15 DEF syVars, syWire, syClient, syDisk, syAuthor
  <2> QED  BY <1>0, <2>1 DEF NamedStep, FileNamed
<1> QED  BY <1>1, <1>2, <1>3, <1>4, <1>5, <1>6, <1>7, <1>8, <1>9, <1>10, <1>11,
         <1>12, <1>13, <1>14, <1>15 DEF SyncNext, SyncClientStep

LEMMA StepJoins ==
  ASSUME FileInv, SyncNext \/ UNCHANGED syVars
  PROVE  /\ syMerge' # <<>> \/ syEstablished' =>
               \A p \in SyncPlace : <<p, 0, 0>> \in syDoc'.ins
         /\ syReady' => syEstablished'
<1>0. /\ DocStep
      /\ syReady => syEstablished
      /\ syMerge # <<>> \/ syEstablished => \A p \in SyncPlace : <<p, 0, 0>> \in syDoc'.ins
  <2>1. DocStep
    BY StepDocs
  <2> QED  BY <2>1 DEF FileInv, ItemsAreSound, TextsAreSound, DocStep, FileBelow
<1>1. CASE FileConnect
  <2>1. syMerge' = syMerge /\ syEstablished' = syEstablished /\ syReady' = FALSE
    BY <1>1 DEF FileConnect, syClient, syDisk, syAuthor
  <2> QED  BY <1>0, <2>1
<1>2. CASE FileReceiveState
  <2>1. /\ syInbox # <<>> /\ Head(syInbox).type = "state"
        /\ syDoc' = FileJoined(syDoc, Head(syInbox).update)
    BY <1>2 DEF FileReceiveState
  <2>2. Head(syInbox) \in FileNews /\ Head(syInbox) \in Range(syInbox)
    BY <2>1, RangeTail DEF FileInv, FileTypes
  <2>3. \A p \in SyncPlace : <<p, 0, 0>> \in Head(syInbox).update.ins
    BY <2>1, <2>2 DEF FileInv, ItemsAreSound
  <2>4. syDoc'.ins = syDoc.ins \cup Head(syInbox).update.ins
    BY <2>1, <2>2, FileNewsFields, JoinedDocs DEF FileInv, FileTypes
  <2>5. syReady' = syReady /\ syEstablished' = syEstablished
    BY <1>2 DEF FileReceiveState
  <2> QED  BY <1>0, <2>3, <2>4, <2>5
<1>3. CASE FileReceiveUpdate
  <2>1. syMerge' = syMerge /\ syEstablished' = syEstablished /\ syReady' = syReady
    BY <1>3 DEF FileReceiveUpdate, syDisk, syAuthor
  <2> QED  BY <1>0, <2>1
<1>4. CASE FileWatched
  <2>1. syMerge' = syMerge /\ syEstablished' = syEstablished /\ syReady' = syReady
    BY <1>4 DEF FileWatched, syWire, syAuthor
  <2> QED  BY <1>0, <2>1
<1>5. CASE SettleDisk
  <2>1. syReady /\ syReady' = syReady /\ syEstablished' = syEstablished
    BY <1>5 DEF SettleDisk, syWire, syAuthor
  <2> QED  BY <1>0, <2>1
<1>6. CASE FinishJoin
  <2>1. syMerge # <<>> /\ syEstablished' = TRUE
    BY <1>6 DEF FinishJoin, syAuthor
  <2> QED  BY <1>0, <2>1
<1>7. CASE FinishRead
  <2>1. syMerge # <<>> /\ syEstablished' = syEstablished /\ syReady' = syReady
    BY <1>7 DEF FinishRead, syAuthor
  <2> QED  BY <1>0, <2>1
<1>8. CASE SettleSession
  <2>1. syMerge' = syMerge /\ syEstablished' = syEstablished /\ syReady' = syReady
    BY <1>8 DEF SettleSession, syWire, syAuthor
  <2> QED  BY <1>0, <2>1
<1>9. CASE FileRoomReceive
  <2>1. syMerge' = syMerge /\ syEstablished' = syEstablished /\ syReady' = syReady
    BY <1>9 DEF FileRoomReceive, syClient, syDisk, syAuthor
  <2> QED  BY <1>0, <2>1
<1>10. CASE FilePeerEdits
  <2>1. syMerge' = syMerge /\ syEstablished' = syEstablished /\ syReady' = syReady
    BY <1>10 DEF FilePeerEdits, syClient, syDisk
  <2> QED  BY <1>0, <2>1
<1>11. CASE FileDisconnected
  <2>1. syMerge' = syMerge /\ syEstablished' = syEstablished /\ syReady' = syReady
    BY <1>11 DEF FileDisconnected, syClient, syDisk, syAuthor
  <2> QED  BY <1>0, <2>1
<1>12. CASE FileLoad
  <2>1. syMerge' = syMerge /\ syEstablished' = syEstablished /\ syReady' = syReady
    BY <1>12 DEF FileLoad, syWire, syClient, syDisk
  <2> QED  BY <1>0, <2>1
<1>13. CASE Save
  <2>1. syMerge' = syMerge /\ syEstablished' = syEstablished /\ syReady' = syReady
    BY <1>13 DEF Save, Saved, syWire, syClient
  <2> QED  BY <1>0, <2>1
<1>14. CASE Undo
  <2>1. syMerge' = syMerge /\ syEstablished' = syEstablished /\ syReady' = syReady
    BY <1>14 DEF Undo, Saved, syWire, syClient
  <2> QED  BY <1>0, <2>1
<1>15. CASE UNCHANGED syVars
  <2>1. syMerge' = syMerge /\ syEstablished' = syEstablished /\ syReady' = syReady
    BY <1>15 DEF syVars, syWire, syClient, syDisk, syAuthor
  <2> QED  BY <1>0, <2>1
<1> QED  BY <1>1, <1>2, <1>3, <1>4, <1>5, <1>6, <1>7, <1>8, <1>9, <1>10, <1>11,
         <1>12, <1>13, <1>14, <1>15 DEF SyncNext, SyncClientStep

\* Every item after the step was there before, is the client's own of a word of
\* the file, or is a peer's first of a word nobody named.
LEMMA ItemsInv ==
  ASSUME FileInv, SyncNext \/ UNCHANGED syVars
  PROVE  ItemsAreSound'
<1>1. DocStep /\ ServerStep /\ FramesStep /\ NamedStep
  BY StepDocs, StepServer, StepFrames, StepNamed
<1>2. /\ syDoc \in FileDocs /\ syServer \in FileDocs /\ FileDense(syDoc) /\ syWord \in Nat /\ syWord' \in Nat
      /\ syInFile \in SUBSET FileWord /\ syKnown \in SUBSET FileWord
  BY <1>1, SyncAssumption DEF FileInv, FileTypes, ItemsAreSound, NamedStep
<1>3. /\ syDoc.ins \in SUBSET FileItem /\ syDoc.del \in SUBSET FileItem
      /\ syServer.ins \in SUBSET FileItem /\ syServer.del \in SUBSET FileItem
      /\ syDoc'.ins \in SUBSET FileItem /\ syDoc'.del \in SUBSET FileItem
      /\ syServer'.ins \in SUBSET FileItem /\ syServer'.del \in SUBSET FileItem
  <2>1. PICK d, s : d = syDoc' /\ s = syServer'
    OBVIOUS
  <2>2. d \in FileDocs /\ s \in FileDocs
    BY <1>1, <2>1 DEF DocStep, ServerStep
  <2> QED  BY <1>2, <2>1, <2>2, DocsFields
<1>4. \A w \in Text(syDoc) : w[2] <= syWord /\ <<w[1], w[2], 0>> \in syDoc.ins
  <2> SUFFICES ASSUME NEW w \in Text(syDoc)
               PROVE  w[2] <= syWord /\ <<w[1], w[2], 0>> \in syDoc.ins
    OBVIOUS
  <2>1. PICK i \in syDoc.ins : WordOf(i) = w
    BY <1>2, TextWords
  <2>2. i \in FileItems /\ i \in FileItem
    BY <1>3 DEF FileItems
  <2>3. w[1] = i[1] /\ w[2] = i[2] /\ 0 \in 0..i[3]
    BY <2>1, <2>2, ItemFields
  <2> QED  BY <1>2, <2>2, <2>3 DEF FileInv, ItemsAreSound, FileDense
<1>5. \A i \in FileItems : /\ i \in FileItem /\ i[2] <= syWord
                           /\ i[3] # 0 \/ (WordOf(i) \in FileNamed /\ i[2] # 0) => i \in syDoc.ins
  BY <1>3 DEF FileInv, ItemsAreSound, FileItems
<1>6. \A w \in FileNamed : w[2] <= syWord
  BY DEF FileInv, ItemsAreSound
<1>7. /\ \A i \in syDoc'.ins : i \in FileItems \/ WordOf(i) \in syInFile
      /\ \A i \in syServer'.ins :
           \/ i \in FileItems \/ i \in syDoc'.ins
           \/ i[3] = 0 /\ i[2] = syWord + 1 /\ syWord' = syWord + 1 /\ FileNamed' = FileNamed
      /\ syDoc'.del \cup syServer'.del \in SUBSET FileItems
      /\ syDoc.ins \in SUBSET syDoc'.ins
  BY <1>1 DEF DocStep, ServerStep, FileItems, FileBelow
<1>8. \A i \in FileItems' :
        /\ i \in FileItem
        /\ \/ i \in FileItems
           \/ i \in syDoc'.ins /\ WordOf(i) \in FileNamed
           \/ i[3] = 0 /\ i[2] = syWord + 1 /\ syWord' = syWord + 1 /\ FileNamed' = FileNamed
  BY <1>3, <1>7 DEF FileItems, FileNamed
<1>9. \A i \in FileItems' : i[2] <= syWord'
  <2> SUFFICES ASSUME NEW i \in FileItems'  PROVE i[2] <= syWord'
    OBVIOUS
  <2>1. i \in FileItem /\ i[2] \in Nat /\ WordOf(i)[2] = i[2] /\ syWord <= syWord'
    BY <1>1, <1>8, ItemFields DEF NamedStep
  <2>2. CASE i \in FileItems
    BY <1>2, <1>5, <2>1, <2>2
  <2>3. CASE WordOf(i) \in FileNamed
    BY <1>2, <1>6, <2>1, <2>3
  <2>4. CASE i[2] = syWord + 1 /\ syWord' = syWord + 1
    BY <1>2, <2>1, <2>4
  <2> QED  BY <1>8, <2>2, <2>3, <2>4
<1>10. \A w \in FileNamed' : w[2] <= syWord'
  <2> SUFFICES ASSUME NEW w \in FileNamed'  PROVE w[2] <= syWord'
    OBVIOUS
  <2>1. w \in FileWord /\ w[2] \in Nat /\ syWord <= syWord'
    BY <1>1, WordFields DEF NamedStep, FileNamed
  <2>2. w[2] <= syWord \/ (w[2] = syWord + 1 /\ syWord' = syWord + 1)
    BY <1>1, <1>4, <1>6 DEF NamedStep
  <2> QED  BY <1>2, <2>1, <2>2
<1>11. ASSUME NEW i \in FileItems', i[3] # 0 \/ (WordOf(i) \in FileNamed' /\ i[2] # 0)
       PROVE  i \in syDoc'.ins
  <2>1. /\ i \in FileItem /\ i[2] \in Nat /\ WordOf(i)[1] = i[1] /\ WordOf(i)[2] = i[2]
        /\ i = <<i[1], i[2], i[3]>>
    BY <1>8, ItemFields
  <2>2. CASE i \in FileItems
    <3>1. CASE i[3] # 0 \/ (WordOf(i) \in FileNamed /\ i[2] # 0)
      BY <1>5, <1>7, <2>2, <3>1
    <3>2. CASE i[3] = 0 /\ WordOf(i) \in Text(syDoc)
      <4>1. <<i[1], i[2], 0>> \in syDoc.ins
        BY <1>4, <2>1, <3>2
      <4> QED  BY <1>7, <2>1, <3>2, <4>1
    <3>3. CASE WordOf(i)[2] = syWord + 1
      BY <1>2, <1>5, <2>1, <2>2, <3>3
    <3> QED  BY <1>1, <1>11, <3>1, <3>2, <3>3 DEF NamedStep
  <2>3. CASE i[3] = 0 /\ i[2] = syWord + 1 /\ syWord' = syWord + 1 /\ FileNamed' = FileNamed
    <3>1. WordOf(i) \in FileNamed
      BY <1>11, <2>3
    <3>2. i[2] <= syWord
      BY <1>6, <2>1, <3>1
    <3> QED  BY <1>2, <2>3, <3>2
  <2> QED  BY <1>8, <2>2, <2>3
<1>12. \A p \in SyncPlace : <<p, 0, 0>> \in syServer'.ins
  BY <1>1 DEF FileInv, ItemsAreSound, ServerStep, FileBelow
<1>13. syMerge' # <<>> \/ syEstablished' => \A p \in SyncPlace : <<p, 0, 0>> \in syDoc'.ins
  BY StepJoins
<1>14. \A f \in Range(syInbox') : f.type = "state" => \A p \in SyncPlace : <<p, 0, 0>> \in f.update.ins
  BY <1>1 DEF FileInv, ItemsAreSound, FramesStep
<1>15. FileDense(syDoc')
  BY <1>1 DEF DocStep
<1> QED  BY <1>9, <1>10, <1>11, <1>12, <1>13, <1>14, <1>15 DEF ItemsAreSound

-----------------------------------------------------------------------------
(* FileSync: the texts.                                                    *)

LEMMA TextsInv ==
  ASSUME FileInv, SyncNext \/ UNCHANGED syVars
  PROVE  TextsAreSound'
<1>0. TextsAreSound
  BY DEF FileInv
<1>01. syReady' => syEstablished'
  BY StepJoins
<1>1. CASE FileConnect
  <2>1. /\ syBuffer' = syBuffer /\ syKnown' = syKnown /\ syInFile' = syInFile /\ syFile' = syFile
        /\ syMerge' = syMerge /\ syBase' = syBase /\ syEstablished' = syEstablished /\ syErased' = syErased
    BY <1>1 DEF FileConnect, syClient, syDisk, syAuthor
  <2> QED  BY <1>0, <1>01, <2>1 DEF TextsAreSound
<1>2. CASE FileReceiveState
  <2>1. /\ syMerge' = <<[why |-> "joined", local |-> syFile]>>
        /\ syBuffer' = syBuffer /\ syKnown' = syKnown /\ syInFile' = syInFile /\ syFile' = syFile
        /\ syBase' = syBase /\ syEstablished' = syEstablished /\ syErased' = syErased
    BY <1>2 DEF FileReceiveState, syAuthor
  <2>2. /\ syMerge' # <<>> /\ syMerge'[1].why = "joined" /\ syMerge'[1].local = syFile
    BY <2>1
  <2>3. /\ syMerge'[1].why \in {"joined", "disk"}
        /\ \/ syMerge'[1].local = SyncNone
           \/ syMerge'[1].local \in SUBSET syInFile' /\ syFile' # SyncNone
    BY <1>0, <2>1, <2>2 DEF TextsAreSound
  <2> HIDE DEF TextsAreSound
  <2> QED  BY <1>0, <1>01, <2>1, <2>3 DEF TextsAreSound
<1>3. CASE FileReceiveUpdate
  <2>1. /\ syBuffer' = syBuffer /\ syKnown' = syKnown /\ syInFile' = syInFile /\ syFile' = syFile
        /\ syMerge' = syMerge /\ syBase' = syBase /\ syEstablished' = syEstablished /\ syErased' = syErased
    BY <1>3 DEF FileReceiveUpdate, syDisk, syAuthor
  <2> QED  BY <1>0, <1>01, <2>1 DEF TextsAreSound
<1>4. CASE FileWatched
  <2>1. /\ syBuffer' = syBuffer /\ syKnown' = syKnown /\ syInFile' = syInFile /\ syFile' = syFile
        /\ syMerge' = syMerge /\ syBase' = syBase /\ syEstablished' = syEstablished /\ syErased' = syErased
    BY <1>4 DEF FileWatched, syWire, syAuthor
  <2> QED  BY <1>0, <1>01, <2>1 DEF TextsAreSound
<1>5. CASE SettleDisk
  <2>1. /\ syMerge' = <<[why |-> "disk", local |-> syFile]>>
        /\ syBuffer' = syBuffer /\ syKnown' = syKnown /\ syInFile' = syInFile /\ syFile' = syFile
        /\ syBase' = syBase /\ syEstablished' = syEstablished /\ syErased' = syErased
    BY <1>5 DEF SettleDisk, syWire, syAuthor
  <2>2. /\ syMerge' # <<>> /\ syMerge'[1].why = "disk" /\ syMerge'[1].local = syFile
    BY <2>1
  <2>3. /\ syMerge'[1].why \in {"joined", "disk"}
        /\ \/ syMerge'[1].local = SyncNone
           \/ syMerge'[1].local \in SUBSET syInFile' /\ syFile' # SyncNone
    BY <1>0, <2>1, <2>2 DEF TextsAreSound
  <2> HIDE DEF TextsAreSound
  <2> QED  BY <1>0, <1>01, <2>1, <2>3 DEF TextsAreSound
<1>6. CASE FinishJoin
  <2>1. /\ FileMerges
        /\ syEstablished' => syBase' \in SUBSET syInFile' /\ syFile' # SyncNone
        /\ syBuffer' = syBuffer /\ syKnown' = syKnown /\ syMerge' = <<>>
    BY <1>6, JoinMerges DEF FinishJoin, syAuthor
  <2> QED  BY <1>0, <1>01, <2>1 DEF FileMerges, TextsAreSound
<1>7. CASE FinishRead
  <2>1. /\ FileMerges
        /\ syEstablished' => syBase' \in SUBSET syInFile' /\ syFile' # SyncNone
        /\ syBuffer' = syBuffer /\ syKnown' = syKnown /\ syMerge' = <<>>
    BY <1>7, ReadMerges DEF FinishRead, syAuthor
  <2> QED  BY <1>0, <1>01, <2>1 DEF FileMerges, TextsAreSound
<1>8. CASE SettleSession
  <2>0. Text(syDoc) \in SUBSET FileWord /\ Text(syDoc) # SyncNone
    BY TextWords, WordsAreFinite DEF FileInv, FileTypes
  <2>1. /\ syBuffer' = syBuffer /\ syKnown' = syKnown /\ syMerge' = syMerge
        /\ syEstablished' = syEstablished /\ syErased' = syErased /\ syMerge = <<>>
        /\ \/ /\ syFile' = Text(syDoc) /\ syBase' = Text(syDoc) /\ syInFile' = syInFile \cup Text(syDoc)
           \/ syFile' = syFile /\ syBase' = syBase /\ syInFile' = syInFile
    BY <1>8 DEF SettleSession, syWire, syAuthor, WriteFile, LeaveFile, Idling
  <2> QED  BY <1>0, <1>01, <2>0, <2>1 DEF TextsAreSound
<1>9. CASE FileRoomReceive
  <2>1. /\ syBuffer' = syBuffer /\ syKnown' = syKnown /\ syInFile' = syInFile /\ syFile' = syFile
        /\ syMerge' = syMerge /\ syBase' = syBase /\ syEstablished' = syEstablished /\ syErased' = syErased
    BY <1>9 DEF FileRoomReceive, syClient, syDisk, syAuthor
  <2> QED  BY <1>0, <1>01, <2>1 DEF TextsAreSound
<1>10. CASE FilePeerEdits
  <2>1. /\ syBuffer' = syBuffer /\ syKnown' = syKnown /\ syInFile' = syInFile /\ syFile' = syFile
        /\ syMerge' = syMerge /\ syBase' = syBase /\ syEstablished' = syEstablished /\ syErased' = syErased
    BY <1>10 DEF FilePeerEdits, syClient, syDisk
  <2> QED  BY <1>0, <1>01, <2>1 DEF TextsAreSound
<1>11. CASE FileDisconnected
  <2>1. /\ syBuffer' = syBuffer /\ syKnown' = syKnown /\ syInFile' = syInFile /\ syFile' = syFile
        /\ syMerge' = syMerge /\ syBase' = syBase /\ syEstablished' = syEstablished /\ syErased' = syErased
    BY <1>11 DEF FileDisconnected, syClient, syDisk, syAuthor
  <2> QED  BY <1>0, <1>01, <2>1 DEF TextsAreSound
<1>12. CASE FileLoad
  <2>1. /\ syFile # SyncNone /\ syBuffer' = [now |-> syFile, before |-> syBuffer.now]
        /\ syKnown' = syKnown \cup syFile /\ syMerge' = syMerge /\ syInFile' = syInFile /\ syFile' = syFile
        /\ syBase' = syBase /\ syEstablished' = syEstablished /\ syErased' = syErased
    BY <1>12 DEF FileLoad, syWire, syClient, syDisk
  <2>2. syBuffer'.now = syFile /\ syBuffer'.before = syBuffer.now
    BY <2>1
  <2> QED  BY <1>0, <1>01, <2>1, <2>2 DEF TextsAreSound
<1>13. CASE Save
  <2>1. PICK p \in SyncPlace : \E new \in SUBSET {<<p, syWord + 1>>} :
           Saved((syBuffer.now \ FileAt(syBuffer.now, p)) \cup new)
    BY <1>13 DEF Save
  <2>2. PICK text : Saved(text)
    BY <2>1
  <2>3. /\ syFile' = text /\ syInFile' = syInFile \cup text
        /\ syBuffer' = [now |-> text, before |-> syBuffer.now]
        /\ syMerge' = syMerge /\ syBase' = syBase /\ syEstablished' = syEstablished /\ syErased' = syErased
        /\ syKnown' = syKnown \cup syBuffer'.now
    BY <1>13, <2>2 DEF Save, Saved, syWire, syClient
  <2>4. syBuffer'.now = text /\ syBuffer'.before = syBuffer.now
    BY <2>3
  <2>5. syInFile' \in SUBSET FileWord
    BY StepNamed DEF NamedStep
  <2>6. text # SyncNone
    BY <2>3, <2>5, WordsAreFinite
  <2> QED  BY <1>0, <1>01, <2>3, <2>4, <2>6 DEF TextsAreSound
<1>14. CASE Undo
  <2>1. /\ syFile' = syBuffer.before /\ syInFile' = syInFile \cup syBuffer.before
        /\ syBuffer' = [now |-> syBuffer.before, before |-> syBuffer.now]
        /\ syMerge' = syMerge /\ syBase' = syBase /\ syEstablished' = syEstablished /\ syErased' = syErased
        /\ syKnown' = syKnown
    BY <1>14 DEF Undo, Saved, syWire, syClient
  <2>2. syBuffer'.now = syBuffer.before /\ syBuffer'.before = syBuffer.now
    BY <2>1
  <2>3. syInFile' \in SUBSET FileWord
    BY StepNamed DEF NamedStep
  <2>4. syBuffer.before # SyncNone
    BY <2>1, <2>3, WordsAreFinite
  <2> QED  BY <1>0, <1>01, <2>1, <2>2, <2>4 DEF TextsAreSound
<1>15. CASE UNCHANGED syVars
  <2>1. /\ syBuffer' = syBuffer /\ syKnown' = syKnown /\ syInFile' = syInFile /\ syFile' = syFile
        /\ syMerge' = syMerge /\ syBase' = syBase /\ syEstablished' = syEstablished /\ syErased' = syErased
    BY <1>15 DEF syVars, syWire, syClient, syDisk, syAuthor
  <2> QED  BY <1>0, <1>01, <2>1 DEF TextsAreSound
<1> QED  BY <1>1, <1>2, <1>3, <1>4, <1>5, <1>6, <1>7, <1>8, <1>9, <1>10, <1>11,
         <1>12, <1>13, <1>14, <1>15 DEF SyncNext, SyncClientStep

-----------------------------------------------------------------------------
(* FileSync: what was sent.                                                *)

LEMMA SentInv ==
  ASSUME FileInv, SyncNext \/ UNCHANGED syVars
  PROVE  SentIsSound'
<1>0. /\ FileTypes /\ SentIsSound /\ DocStep /\ ServerStep
      /\ syServer \in FileDocs /\ syDoc \in FileDocs
      /\ sySent \in Seq(FileFrames) /\ syInbox \in Seq(FileNews)
  BY StepDocs, StepServer DEF FileInv, FileTypes
<1>1. CASE FileConnect
  <2>1. syReady' = FALSE
    BY <1>1 DEF FileConnect, syClient, syDisk, syAuthor
  <2> QED  BY <2>1 DEF SentIsSound
<1>2. CASE FileReceiveState
  <2>1. /\ syInbox # <<>> /\ syDoc' = FileJoined(syDoc, Head(syInbox).update)
        /\ syServer' = syServer /\ sySent' = sySent /\ syConn' = syConn /\ syReady' = syReady
    BY <1>2 DEF FileReceiveState, syAuthor
  <2>2. Head(syInbox) \in FileNews /\ Head(syInbox) \in Range(syInbox)
    BY <1>0, <2>1, RangeTail
  <2>3. FileBelow(Head(syInbox).update, syServer)
    BY <2>2 DEF FileInv, FramesAreSound
  <2>4. /\ syDoc'.ins = syDoc.ins \cup Head(syInbox).update.ins
        /\ syDoc'.del = syDoc.del \cup Head(syInbox).update.del
    BY <1>0, <2>1, <2>2, FileNewsFields, JoinedDocs
  <2> QED  BY <1>0, <2>1, <2>3, <2>4 DEF SentIsSound, FileBelow
<1>3. CASE FileReceiveUpdate
  <2>1. /\ syInbox # <<>> /\ syDoc' = FileJoined(syDoc, Head(syInbox).update)
        /\ syServer' = syServer /\ sySent' = sySent /\ syConn' = syConn /\ syReady' = syReady
    BY <1>3 DEF FileReceiveUpdate, syDisk, syAuthor
  <2>2. Head(syInbox) \in FileNews /\ Head(syInbox) \in Range(syInbox)
    BY <1>0, <2>1, RangeTail
  <2>3. FileBelow(Head(syInbox).update, syServer)
    BY <2>2 DEF FileInv, FramesAreSound
  <2>4. /\ syDoc'.ins = syDoc.ins \cup Head(syInbox).update.ins
        /\ syDoc'.del = syDoc.del \cup Head(syInbox).update.del
    BY <1>0, <2>1, <2>2, FileNewsFields, JoinedDocs
  <2> QED  BY <1>0, <2>1, <2>3, <2>4 DEF SentIsSound, FileBelow
<1>4. CASE FileWatched
  <2>1. /\ syServer' = syServer /\ sySent' = sySent /\ syDoc' = syDoc
        /\ syConn' = syConn /\ syReady' = syReady
    BY <1>4 DEF FileWatched, syWire, syAuthor
  <2> QED  BY <1>0, <2>1 DEF SentIsSound
<1>5. CASE SettleDisk
  <2>1. /\ syServer' = syServer /\ sySent' = sySent /\ syDoc' = syDoc
        /\ syConn' = syConn /\ syReady' = syReady
    BY <1>5 DEF SettleDisk, syWire, syAuthor
  <2> QED  BY <1>0, <2>1 DEF SentIsSound
<1>6. CASE FinishJoin
  <2>1. PICK frames \in Seq(FileFrames) :
           /\ Flush(frames)
           /\ \A i \in syDoc'.ins : \/ FinishRead /\ i \in syDoc.ins
                \/ \E f \in Range(frames) : f.type = "update" /\ i \in f.update.ins
           /\ \A i \in syDoc'.del : \/ FinishRead /\ i \in syDoc.del
                \/ \E f \in Range(frames) : f.type = "update" /\ i \in f.update.del
    BY <1>6, <1>0, FinishSends
  <2>2. \/ sySent' = sySent \o frames /\ syServer' = syServer /\ syConn' = syConn
        \/ syConn' = "down"
    BY <1>0, <2>1, FlushEffect
  <2>3. Range(sySent \o frames) = Range(sySent) \cup Range(frames)
    BY <1>0, <2>1, RangeConcat
  <2>4. ~FinishRead
    BY <1>6 DEF FinishJoin, FinishRead
  <2> QED  BY <2>1, <2>2, <2>3, <2>4 DEF SentIsSound
<1>7. CASE FinishRead
  <2>1. PICK frames \in Seq(FileFrames) :
           /\ Flush(frames)
           /\ \A i \in syDoc'.ins : \/ FinishRead /\ i \in syDoc.ins
                \/ \E f \in Range(frames) : f.type = "update" /\ i \in f.update.ins
           /\ \A i \in syDoc'.del : \/ FinishRead /\ i \in syDoc.del
                \/ \E f \in Range(frames) : f.type = "update" /\ i \in f.update.del
    BY <1>7, <1>0, FinishSends
  <2>2. \/ sySent' = sySent \o frames /\ syServer' = syServer /\ syConn' = syConn
        \/ syConn' = "down"
    BY <1>0, <2>1, FlushEffect
  <2>3. Range(sySent \o frames) = Range(sySent) \cup Range(frames)
    BY <1>0, <2>1, RangeConcat
  <2>4. syReady' = syReady
    BY <1>7 DEF FinishRead
  <2> QED  BY <1>0, <2>1, <2>2, <2>3, <2>4 DEF SentIsSound
<1>8. CASE SettleSession
  <2>1. /\ syServer' = syServer /\ sySent' = sySent /\ syDoc' = syDoc
        /\ syConn' = syConn /\ syReady' = syReady
    BY <1>8 DEF SettleSession, syWire, syAuthor
  <2> QED  BY <1>0, <2>1 DEF SentIsSound
<1>9. CASE FileRoomReceive
  <2>1. /\ sySent # <<>> /\ sySent' = Tail(sySent) /\ syServer' = Handled(<<Head(sySent)>>)
        /\ syDoc' = syDoc /\ syConn' = syConn /\ syReady' = syReady
    BY <1>9 DEF FileRoomReceive, syClient, syDisk, syAuthor
  <2>2. Head(sySent) \in FileFrames /\ Range(sySent) = {Head(sySent)} \cup Range(sySent')
    BY <1>0, <2>1, RangeTail
  <2>3. <<Head(sySent)>> \in Seq(FileFrames) /\ Range(<<Head(sySent)>>) = {Head(sySent)}
    BY <2>2, RangeOne
  <2>4. /\ FileBelow(syServer, syServer')
        /\ Head(sySent).type = "update" => FileBelow(Head(sySent).update, syServer')
    BY <1>0, <2>1, <2>3, HandledDocs
  <2> QED  BY <1>0, <2>1, <2>2, <2>4 DEF SentIsSound, FileBelow
<1>10. CASE FilePeerEdits
  <2>1. sySent' = sySent /\ syDoc' = syDoc /\ syConn' = syConn /\ syReady' = syReady
    BY <1>10 DEF FilePeerEdits, syClient, syDisk
  <2> QED  BY <1>0, <2>1 DEF SentIsSound, ServerStep, FileBelow
<1>11. CASE FileDisconnected
  <2>1. syConn' = "down"
    BY <1>11 DEF FileDisconnected, syClient, syDisk, syAuthor, FileLose
  <2> QED  BY <2>1 DEF SentIsSound
<1>12. CASE FileLoad
  <2>1. /\ syServer' = syServer /\ sySent' = sySent /\ syDoc' = syDoc
        /\ syConn' = syConn /\ syReady' = syReady
    BY <1>12 DEF FileLoad, syWire, syClient, syDisk
  <2> QED  BY <1>0, <2>1 DEF SentIsSound
<1>13. CASE Save
  <2>1. /\ syServer' = syServer /\ sySent' = sySent /\ syDoc' = syDoc
        /\ syConn' = syConn /\ syReady' = syReady
    BY <1>13 DEF Save, Saved, syWire, syClient
  <2> QED  BY <1>0, <2>1 DEF SentIsSound
<1>14. CASE Undo
  <2>1. /\ syServer' = syServer /\ sySent' = sySent /\ syDoc' = syDoc
        /\ syConn' = syConn /\ syReady' = syReady
    BY <1>14 DEF Undo, Saved, syWire, syClient
  <2> QED  BY <1>0, <2>1 DEF SentIsSound
<1>15. CASE UNCHANGED syVars
  <2>1. /\ syServer' = syServer /\ sySent' = sySent /\ syDoc' = syDoc
        /\ syConn' = syConn /\ syReady' = syReady
    BY <1>15 DEF syVars, syWire, syClient, syDisk, syAuthor
  <2> QED  BY <1>0, <2>1 DEF SentIsSound
<1> QED  BY <1>1, <1>2, <1>3, <1>4, <1>5, <1>6, <1>7, <1>8, <1>9, <1>10, <1>11,
         <1>12, <1>13, <1>14, <1>15 DEF SyncNext, SyncClientStep

-----------------------------------------------------------------------------
(* FileSync: the types.                                                    *)

LEMMA StepTypes ==
  ASSUME FileInv, SyncNext \/ UNCHANGED syVars
  PROVE  syReady' \in BOOLEAN /\ syEstablished' \in BOOLEAN /\ syBase' \in SUBSET FileWord
<1>0. syReady \in BOOLEAN /\ syEstablished \in BOOLEAN /\ syBase \in SUBSET FileWord
  BY DEF FileInv, FileTypes
<1>1. CASE FileConnect
  <2>1. syReady' = FALSE /\ syEstablished' = syEstablished /\ syBase' = syBase
    BY <1>1 DEF FileConnect, syClient, syDisk, syAuthor
  <2> QED  BY <1>0, <2>1
<1>2. CASE FileReceiveState
  <2>1. syReady' = syReady /\ syEstablished' = syEstablished /\ syBase' = syBase
    BY <1>2 DEF FileReceiveState, syAuthor
  <2> QED  BY <1>0, <2>1
<1>3. CASE FileReceiveUpdate
  <2>1. syReady' = syReady /\ syEstablished' = syEstablished /\ syBase' = syBase
    BY <1>3 DEF FileReceiveUpdate, syDisk, syAuthor
  <2> QED  BY <1>0, <2>1
<1>4. CASE FileWatched
  <2>1. syReady' = syReady /\ syEstablished' = syEstablished /\ syBase' = syBase
    BY <1>4 DEF FileWatched, syWire, syAuthor
  <2> QED  BY <1>0, <2>1
<1>5. CASE SettleDisk
  <2>1. syReady' = syReady /\ syEstablished' = syEstablished /\ syBase' = syBase
    BY <1>5 DEF SettleDisk, syWire, syAuthor
  <2> QED  BY <1>0, <2>1
<1>6. CASE FinishJoin
  <2>1. syReady' = TRUE /\ syEstablished' = TRUE
    BY <1>6 DEF FinishJoin
  <2> QED  BY <1>6, <2>1, JoinMerges DEF FileMerges
<1>7. CASE FinishRead
  <2>1. syReady' = syReady /\ syEstablished' = syEstablished
    BY <1>7 DEF FinishRead
  <2> QED  BY <1>7, <1>0, <2>1, ReadMerges DEF FileMerges
<1>8. CASE SettleSession
  <2>1. /\ syReady' = syReady /\ syEstablished' = syEstablished
        /\ syBase' = syBase \/ syBase' = Text(syDoc)
    BY <1>8 DEF SettleSession, syWire, syAuthor
  <2>2. Text(syDoc) \in SUBSET FileWord
    BY TextWords DEF FileInv, FileTypes
  <2> QED  BY <1>0, <2>1, <2>2
<1>9. CASE FileRoomReceive
  <2>1. syReady' = syReady /\ syEstablished' = syEstablished /\ syBase' = syBase
    BY <1>9 DEF FileRoomReceive, syClient, syDisk, syAuthor
  <2> QED  BY <1>0, <2>1
<1>10. CASE FilePeerEdits
  <2>1. syReady' = syReady /\ syEstablished' = syEstablished /\ syBase' = syBase
    BY <1>10 DEF FilePeerEdits, syClient, syDisk
  <2> QED  BY <1>0, <2>1
<1>11. CASE FileDisconnected
  <2>1. syReady' = syReady /\ syEstablished' = syEstablished /\ syBase' = syBase
    BY <1>11 DEF FileDisconnected, syClient, syDisk, syAuthor
  <2> QED  BY <1>0, <2>1
<1>12. CASE FileLoad
  <2>1. syReady' = syReady /\ syEstablished' = syEstablished /\ syBase' = syBase
    BY <1>12 DEF FileLoad, syWire, syClient, syDisk
  <2> QED  BY <1>0, <2>1
<1>13. CASE Save
  <2>1. syReady' = syReady /\ syEstablished' = syEstablished /\ syBase' = syBase
    BY <1>13 DEF Save, Saved, syWire, syClient
  <2> QED  BY <1>0, <2>1
<1>14. CASE Undo
  <2>1. syReady' = syReady /\ syEstablished' = syEstablished /\ syBase' = syBase
    BY <1>14 DEF Undo, Saved, syWire, syClient
  <2> QED  BY <1>0, <2>1
<1>15. CASE UNCHANGED syVars
  <2>1. syReady' = syReady /\ syEstablished' = syEstablished /\ syBase' = syBase
    BY <1>15 DEF syVars, syWire, syClient, syDisk, syAuthor
  <2> QED  BY <1>0, <2>1
<1> QED  BY <1>1, <1>2, <1>3, <1>4, <1>5, <1>6, <1>7, <1>8, <1>9, <1>10, <1>11,
         <1>12, <1>13, <1>14, <1>15 DEF SyncNext, SyncClientStep

LEMMA TypesInv ==
  ASSUME FileInv, SyncNext \/ UNCHANGED syVars
  PROVE  FileTypes'
<1>1. DocStep /\ ServerStep /\ FramesStep /\ NamedStep
  BY StepDocs, StepServer, StepFrames, StepNamed
<1>2. syReady' \in BOOLEAN /\ syEstablished' \in BOOLEAN /\ syBase' \in SUBSET FileWord
  BY StepTypes
<1> QED  BY <1>1, <1>2 DEF FileTypes, DocStep, ServerStep, FramesStep, NamedStep

-----------------------------------------------------------------------------
(* FileSync: the first connection.                                         *)

LEMMA OneStateTail ==
  ASSUME NEW s \in Seq(FileNews), s # <<>>, OneState(s)
  PROVE  OneState(Tail(s)) /\ (Head(s).type = "state" => NoState(Tail(s)))
<1>1. /\ Len(s) \in Nat /\ Len(s) # 0 /\ DOMAIN s = 1..Len(s)
      /\ DOMAIN Tail(s) = 1..(Len(s) - 1) /\ Head(s) = s[1]
      /\ \A k \in 1..(Len(s) - 1) : Tail(s)[k] = s[k + 1]
  OBVIOUS
<1>2. \A k \in 1..(Len(s) - 1) : k + 1 \in 1..Len(s) /\ k + 1 # 1
  BY <1>1
<1>3. 1 \in 1..Len(s)
  BY <1>1
<1>4. OneState(Tail(s))
  <2> SUFFICES ASSUME NEW m \in 1..(Len(s) - 1), NEW n \in 1..(Len(s) - 1),
                      Tail(s)[m].type = "state", Tail(s)[n].type = "state"
               PROVE  m = n
    BY <1>1 DEF OneState
  <2>1. m + 1 = n + 1
    BY <1>1, <1>2 DEF OneState
  <2> QED  BY <1>1, <2>1
<1>5. ASSUME Head(s).type = "state", NEW f \in Range(Tail(s)), f.type = "state"  PROVE FALSE
  <2>1. PICK k \in 1..(Len(s) - 1) : f = Tail(s)[k]
    BY <1>1, <1>5 DEF Range
  <2> QED  BY <1>1, <1>2, <1>3, <1>5, <2>1 DEF OneState
<1> QED  BY <1>4, <1>5 DEF NoState

LEMMA OneStateAppend ==
  ASSUME NEW s \in Seq(FileNews), NEW e \in FileNews
  PROVE  /\ NoState(s) => OneState(Append(s, e))
         /\ OneState(s) /\ e.type = "update" => OneState(Append(s, e))
         /\ NoState(s) /\ e.type = "update" => NoState(Append(s, e))
<1>1. /\ Len(s) \in Nat /\ Len(Append(s, e)) = Len(s) + 1
      /\ \A k \in 1..Len(s) : Append(s, e)[k] = s[k]
      /\ Append(s, e)[Len(s) + 1] = e
      /\ DOMAIN s = 1..Len(s) /\ DOMAIN Append(s, e) = 1..(Len(s) + 1)
  OBVIOUS
<1>2. \A k \in 1..(Len(s) + 1) : k \in 1..Len(s) \/ k = Len(s) + 1
  BY <1>1
<1>3. Range(Append(s, e)) = Range(s) \cup {e}
  BY RangeAppend
<1>4. NoState(s) => OneState(Append(s, e))
  BY <1>1, <1>2 DEF NoState, OneState, Range
<1>5. OneState(s) /\ e.type = "update" => OneState(Append(s, e))
  BY <1>1, <1>2 DEF OneState
<1> QED  BY <1>3, <1>4, <1>5 DEF NoState

LEMMA FirstBefore ==
  ASSUME FileInv, SyncNext \/ UNCHANGED syVars, syDropped' = 0
  PROVE  /\ syDropped = 0
         /\ FirstIdle \/ FirstOpens \/ FirstWaits \/ FirstReads \/ FirstJoined
<1>0. FileTypes /\ syDropped \in Nat /\ DocStep /\ syDropped' = 0
  BY StepDocs DEF FileInv, FileTypes
<1>1. syDropped = 0
  <2>1. CASE FileConnect
    <3>1. syDropped' = syDropped \/ syDropped' = syDropped + 1
      BY <2>1 DEF FileConnect, FileLose
    <3> QED  BY <1>0, <3>1
  <2>2. CASE FileReceiveState
    <3>1. syDropped' = syDropped
      BY <2>2 DEF FileReceiveState, syAuthor
    <3> QED  BY <1>0, <3>1
  <2>3. CASE FileReceiveUpdate
    <3>1. syDropped' = syDropped
      BY <2>3 DEF FileReceiveUpdate, syDisk, syAuthor
    <3> QED  BY <1>0, <3>1
  <2>4. CASE FileWatched
    <3>1. syDropped' = syDropped
      BY <2>4 DEF FileWatched, syWire, syAuthor
    <3> QED  BY <1>0, <3>1
  <2>5. CASE SettleDisk
    <3>1. syDropped' = syDropped
      BY <2>5 DEF SettleDisk, syWire, syAuthor
    <3> QED  BY <1>0, <3>1
  <2>6. CASE FinishJoin
    <3>1. PICK frames \in Seq(FileFrames) : Flush(frames)
      BY <2>6, <1>0, FinishSends
    <3> QED  BY <1>0, <3>1, FlushEffect
  <2>7. CASE FinishRead
    <3>1. PICK frames \in Seq(FileFrames) : Flush(frames)
      BY <2>7, <1>0, FinishSends
    <3> QED  BY <1>0, <3>1, FlushEffect
  <2>8. CASE SettleSession
    <3>1. syDropped' = syDropped
      BY <2>8 DEF SettleSession, syWire, syAuthor
    <3> QED  BY <1>0, <3>1
  <2>9. CASE FileRoomReceive
    <3>1. syDropped' = syDropped
      BY <2>9 DEF FileRoomReceive, syClient, syDisk, syAuthor
    <3> QED  BY <1>0, <3>1
  <2>10. CASE FilePeerEdits
    <3>1. syDropped' = syDropped
      BY <2>10 DEF FilePeerEdits, syClient, syDisk
    <3> QED  BY <1>0, <3>1
  <2>11. CASE FileDisconnected
    <3>1. syDropped' = syDropped + 1
      BY <2>11 DEF FileDisconnected, FileLose
    <3> QED  BY <1>0, <3>1
  <2>12. CASE FileLoad
    <3>1. syDropped' = syDropped
      BY <2>12 DEF FileLoad, syWire, syClient, syDisk
    <3> QED  BY <1>0, <3>1
  <2>13. CASE Save
    <3>1. syDropped' = syDropped
      BY <2>13 DEF Save, Saved, syWire, syClient
    <3> QED  BY <1>0, <3>1
  <2>14. CASE Undo
    <3>1. syDropped' = syDropped
      BY <2>14 DEF Undo, Saved, syWire, syClient
    <3> QED  BY <1>0, <3>1
  <2>15. CASE UNCHANGED syVars
    <3>1. syDropped' = syDropped
      BY <2>15 DEF syVars, syWire, syClient, syDisk, syAuthor
    <3> QED  BY <1>0, <3>1
  <2> QED  BY <2>1, <2>2, <2>3, <2>4, <2>5, <2>6, <2>7, <2>8, <2>9, <2>10, <2>11,
           <2>12, <2>13, <2>14, <2>15 DEF SyncNext, SyncClientStep
<1> QED  BY <1>1 DEF FileInv, FirstIsSound

LEMMA FirstStep ==
  ASSUME FileInv, SyncNext \/ UNCHANGED syVars, syDropped' = 0
  PROVE  FirstIdle' \/ FirstOpens' \/ FirstWaits' \/ FirstReads' \/ FirstJoined'
<1>0. /\ FileTypes /\ syServer \in FileDocs /\ DocStep /\ syDropped' = 0
      /\ sySent \in Seq(FileFrames) /\ syInbox \in Seq(FileNews) /\ syOutbox \in Seq(FileFrames)
      /\ FileFramesBelow(syOutbox)
  BY StepDocs DEF FileInv, FileTypes, FramesAreSound, FileFramesBelow, DocStep, FileBelow
<1>01. syDropped = 0 /\ (FirstIdle \/ FirstOpens \/ FirstWaits \/ FirstReads \/ FirstJoined)
  BY FirstBefore
<1>1. CASE FileConnect
  <2>1. /\ syConn = "down" /\ syMerge = <<>> /\ syReady' = FALSE
        /\ \/ /\ syConn' = "up" /\ sySent' = OpenThenOutbox /\ syOutbox' = <<>> /\ syInbox' = syInbox
           \/ FileLose(OpenThenOutbox)
        /\ syWrote' = syWrote /\ syEstablished' = syEstablished /\ syMerge' = syMerge
    BY <1>1 DEF FileConnect, syClient, syDisk, syAuthor, Idling, OpenThenOutbox, OpenFrame
  <2>2. FirstIdle
    BY <1>01, <2>1 DEF FirstOpens, FirstWaits, FirstReads, FirstJoined
  <2>3. syInbox = <<>> /\ syOutbox = <<>> /\ NotJoined
    BY <2>2 DEF FirstIdle, NotJoined
  <2>4. OpenThenOutbox \in Seq(FileFrames)
    BY <1>0, OutboxIsSound DEF FileFramesBelow
  <2>5. ~FileLose(OpenThenOutbox)
    BY <1>0, <2>4, LoseEffect
  <2>6. OpenThenOutbox = <<OpenFrame>>
    BY <2>3 DEF OpenThenOutbox
  <2>7. Range(<<>>) = {}
    BY RangeEmpty
  <2> QED  BY <2>1, <2>3, <2>5, <2>6, <2>7 DEF FirstOpens, NotJoined, NoState
<1>2. CASE FileReceiveState
  <2>1. /\ syConn = "up" /\ syMerge = <<>> /\ syInbox # <<>> /\ syInbox' = Tail(syInbox)
        /\ Head(syInbox).type = "state"
        /\ sySent' = sySent /\ syConn' = syConn /\ syReady' = syReady /\ syOutbox' = syOutbox
        /\ syBase' = syBase /\ syWrote' = syWrote /\ syEstablished' = syEstablished
        /\ syFile' = syFile /\ syEvent' = syEvent /\ syFromDisk' = syFromDisk
    BY <1>2 DEF FileReceiveState, syAuthor, Idling
  <2>2. Range(syInbox) = {Head(syInbox)} \cup Range(syInbox')
    BY <1>0, <2>1, RangeTail
  <2>3. NoState(syInbox) => NoState(syInbox') /\ Head(syInbox).type # "state"
    BY <2>2 DEF NoState
  <2>4. OneState(syInbox) => OneState(syInbox') /\ (Head(syInbox).type = "state" => NoState(syInbox'))
    BY <1>0, <2>1, OneStateTail
  <2>5. NoOpen => NoOpen'
    BY <2>1 DEF NoOpen
  <2>6. NotJoined => NotJoined'
    BY <2>1 DEF NotJoined
  <2>7. syMerge' = <<[why |-> "joined", local |-> syFile]>>
    BY <1>2 DEF FileReceiveState, syAuthor
  <2>8. syMerge' # <<>> /\ syMerge'[1].why = "joined" /\ syMerge'[1].local = syFile
    BY <2>7
  <2>9. FirstWaits
    BY <1>01, <2>1, <2>3 DEF FirstIdle, FirstOpens, FirstReads, FirstJoined
  <2> QED  BY <2>1, <2>4, <2>5, <2>6, <2>8, <2>9 DEF FirstWaits, FirstReads
<1>3. CASE FileReceiveUpdate
  <2>1. /\ syConn = "up" /\ syMerge = <<>> /\ syInbox # <<>> /\ syInbox' = Tail(syInbox)
        /\ Head(syInbox).type = "update"
        /\ sySent' = sySent /\ syConn' = syConn /\ syReady' = syReady /\ syOutbox' = syOutbox
        /\ syBase' = syBase /\ syWrote' = syWrote /\ syEstablished' = syEstablished
        /\ syFile' = syFile /\ syEvent' = syEvent /\ syFromDisk' = syFromDisk
    BY <1>3 DEF FileReceiveUpdate, syDisk, syAuthor, Idling
  <2>2. Range(syInbox) = {Head(syInbox)} \cup Range(syInbox')
    BY <1>0, <2>1, RangeTail
  <2>3. NoState(syInbox) => NoState(syInbox') /\ Head(syInbox).type # "state"
    BY <2>2 DEF NoState
  <2>4. OneState(syInbox) => OneState(syInbox') /\ (Head(syInbox).type = "state" => NoState(syInbox'))
    BY <1>0, <2>1, OneStateTail
  <2>5. NoOpen => NoOpen'
    BY <2>1 DEF NoOpen
  <2>6. NotJoined => NotJoined'
    BY <2>1 DEF NotJoined
  <2>7. syMerge' = syMerge /\ syFromSession' = TRUE
    BY <1>3 DEF FileReceiveUpdate, syDisk, syAuthor
  <2>8. FirstOpens => FirstOpens'
    BY <2>1, <2>3, <2>6, <2>7 DEF FirstOpens
  <2>9. FirstWaits => FirstWaits'
    BY <2>1, <2>4, <2>5, <2>6, <2>7 DEF FirstWaits
  <2>10. FirstJoined => FirstJoined'
    BY <2>1, <2>3, <2>5, <2>7 DEF FirstJoined
  <2> QED  BY <1>01, <2>1, <2>8, <2>9, <2>10 DEF FirstIdle, FirstReads
<1>4. CASE FileWatched
  <2>1. /\ syConn = "up" /\ syMerge = <<>> /\ syFromDisk' = TRUE
        /\ syServer' = syServer /\ sySent' = sySent /\ syInbox' = syInbox
        /\ syConn' = syConn /\ syReady' = syReady /\ syDoc' = syDoc /\ syBase' = syBase
        /\ syWrote' = syWrote /\ syEstablished' = syEstablished /\ syOutbox' = syOutbox
        /\ syFromSession' = syFromSession /\ syMerge' = syMerge /\ syFile' = syFile
    BY <1>4 DEF FileWatched, syWire, syAuthor, Idling
  <2> QED  BY <1>01, <2>1 DEF NoOpen, NoState, OneState, NotJoined, FirstIdle, FirstOpens, FirstWaits, FirstReads, FirstJoined
<1>5. CASE SettleDisk
  <2>1. /\ syConn = "up" /\ syMerge = <<>> /\ syReady
        /\ syMerge' = <<[why |-> "disk", local |-> syFile]>>
        /\ syServer' = syServer /\ sySent' = sySent /\ syInbox' = syInbox
        /\ syConn' = syConn /\ syReady' = syReady /\ syDoc' = syDoc /\ syBase' = syBase
        /\ syWrote' = syWrote /\ syEstablished' = syEstablished /\ syOutbox' = syOutbox
        /\ syFromSession' = syFromSession /\ syFile' = syFile /\ syEvent' = syEvent
    BY <1>5 DEF SettleDisk, syWire, syAuthor, Idling
  <2>2. FirstJoined
    BY <1>01, <2>1 DEF FirstIdle, FirstOpens, FirstWaits, FirstReads, NotJoined
  <2>3. syFile # SyncNone
    BY <2>2 DEF FirstJoined, FileInv, TextsAreSound
  <2>4. syMerge' # <<>> /\ syMerge'[1].why = "disk" /\ syMerge'[1].local = syFile
    BY <2>1
  <2> QED  BY <2>1, <2>2, <2>3, <2>4 DEF FirstJoined, NoOpen, NoState
<1>6. CASE FinishJoin
  <2>1. PICK frames \in Seq(FileFrames) :
           /\ Flush(frames)
           /\ \A f \in Range(frames) : \/ f \in Range(syOutbox)
                                       \/ f.type = "update" /\ FileBelow(f.update, syDoc')
    BY <1>6, <1>0, FinishSends
  <2>2. /\ sySent' = sySent \o frames /\ syOutbox' = <<>> /\ syConn' = syConn /\ syInbox' = syInbox
    BY <1>0, <1>01, <2>1, FlushEffect
  <2>3. Range(sySent \o frames) = Range(sySent) \cup Range(frames) /\ Range(<<>>) = {}
    BY <1>0, <2>1, RangeConcat, RangeEmpty
  <2>4. syMerge # <<>> /\ syMerge[1].why = "joined"
    BY <1>6 DEF FinishJoin
  <2>5. FirstReads
    BY <1>01, <2>4 DEF FirstIdle, FirstOpens, FirstWaits, FirstJoined
  <2>6. NoOpen'
    BY <2>1, <2>2, <2>3, <2>5 DEF FirstReads, NotJoined, NoOpen
  <2>7. NoState(syInbox')
    BY <2>2, <2>5 DEF FirstReads, NoState
  <2>8. syReady' = TRUE /\ syEstablished' = TRUE /\ syMerge' = <<>>
    BY <1>6 DEF FinishJoin
  <2>9. /\ syBase' = Text(syDoc')
        /\ \/ syFile' = syBase' /\ syWrote' = syBase' /\ syEvent'
           \/ /\ syBase' = syMerge[1].local
              /\ syFile' = syFile /\ syWrote' = syWrote /\ syEvent' = syEvent
    BY <1>6, JoinMerges
  <2>10. syWrote' \in {SyncNone, syBase'} /\ (syFile' = syBase' \/ syEvent')
    BY <2>5, <2>9 DEF FirstReads, NotJoined
  <2> QED  BY <2>2, <2>5, <2>6, <2>7, <2>8, <2>9, <2>10 DEF FirstReads, FirstJoined
<1>7. CASE FinishRead
  <2>1. PICK frames \in Seq(FileFrames) :
           /\ Flush(frames)
           /\ \A f \in Range(frames) : \/ f \in Range(syOutbox)
                                       \/ f.type = "update" /\ FileBelow(f.update, syDoc')
    BY <1>7, <1>0, FinishSends
  <2>2. /\ sySent' = sySent \o frames /\ syOutbox' = <<>> /\ syConn' = syConn /\ syInbox' = syInbox
    BY <1>0, <1>01, <2>1, FlushEffect
  <2>3. Range(sySent \o frames) = Range(sySent) \cup Range(frames) /\ Range(<<>>) = {}
    BY <1>0, <2>1, RangeConcat, RangeEmpty
  <2>4. syMerge # <<>> /\ syMerge[1].why = "disk"
    BY <1>7 DEF FinishRead
  <2>5. FirstJoined
    BY <1>01, <2>4 DEF FirstIdle, FirstOpens, FirstWaits, FirstReads
  <2>6. NoOpen'
    BY <2>1, <2>2, <2>3, <2>5 DEF FirstJoined, NoOpen
  <2>7. NoState(syInbox')
    BY <2>2, <2>5 DEF FirstJoined, NoState
  <2>8. /\ syReady' = syReady /\ syEstablished' = syEstablished /\ syMerge' = <<>>
        /\ syFromSession' = syFromSession
    BY <1>7 DEF FinishRead
  <2>9. /\ \/ syMerge[1].local = SyncNone
           \/ /\ syMerge[1].local = syWrote /\ syDoc' = syDoc /\ syBase' = syBase
              /\ syFile' = syFile /\ syWrote' = SyncNone /\ syEvent' = syEvent
           \/ /\ syBase' = Text(syDoc')
              /\ \/ syFile' = syBase' /\ syWrote' = syBase' /\ syEvent'
                 \/ /\ syBase' = syMerge[1].local
                    /\ syFile' = syFile /\ syWrote' = SyncNone /\ syEvent' = syEvent
    BY <1>7, ReadMerges
  <2>10. syMerge[1].local # SyncNone /\ (syFile = syMerge[1].local \/ syEvent)
         /\ syWrote \in {SyncNone, syBase} /\ (syBase = Text(syDoc) \/ syFromSession)
    BY <2>4, <2>5 DEF FirstJoined
  <2>11. /\ syWrote' \in {SyncNone, syBase'} /\ (syFile' = syBase' \/ syEvent')
         /\ syBase' = Text(syDoc') \/ syFromSession'
    BY <2>8, <2>9, <2>10
  <2> QED  BY <2>2, <2>5, <2>6, <2>7, <2>8, <2>11 DEF FirstJoined
<1>8. CASE SettleSession
  <2>1. /\ syConn = "up" /\ syMerge = <<>> /\ syReady /\ ~syFromDisk
        /\ syServer' = syServer /\ sySent' = sySent /\ syInbox' = syInbox
        /\ syConn' = syConn /\ syReady' = syReady /\ syDoc' = syDoc
        /\ syEstablished' = syEstablished /\ syOutbox' = syOutbox
        /\ syFromDisk' = syFromDisk /\ syMerge' = syMerge
        /\ \/ /\ syFile' = Text(syDoc) /\ syWrote' = Text(syDoc) /\ syBase' = Text(syDoc) /\ syEvent'
           \/ /\ syBase = Text(syDoc) /\ syFile' = syFile /\ syWrote' = syWrote
              /\ syBase' = syBase /\ syEvent' = syEvent
    BY <1>8 DEF SettleSession, syWire, syAuthor, Idling, WriteFile, LeaveFile
  <2>2. FirstJoined
    BY <1>01, <2>1 DEF FirstIdle, FirstOpens, FirstWaits, FirstReads, NotJoined
  <2> QED  BY <2>1, <2>2 DEF FirstJoined, NoOpen, NoState
<1>9. CASE FileRoomReceive
  <2>1. /\ syConn = "up" /\ sySent # <<>> /\ sySent' = Tail(sySent)
        /\ \/ /\ Head(sySent).type = "open"
              /\ syInbox' = Append(syInbox, [type |-> "state", update |-> syServer])
           \/ Head(sySent).type # "open" /\ syInbox' = syInbox
        /\ syConn' = syConn /\ syReady' = syReady /\ syDoc' = syDoc /\ syBase' = syBase
        /\ syWrote' = syWrote /\ syEstablished' = syEstablished /\ syOutbox' = syOutbox
        /\ syFromDisk' = syFromDisk /\ syFromSession' = syFromSession
        /\ syMerge' = syMerge /\ syFile' = syFile /\ syEvent' = syEvent
    BY <1>9 DEF FileRoomReceive, syClient, syDisk, syAuthor
  <2>2. Range(sySent) = {Head(sySent)} \cup Range(sySent')
    BY <1>0, <2>1, RangeTail
  <2>3. NoOpen => NoOpen' /\ syInbox' = syInbox
    BY <2>1, <2>2 DEF NoOpen
  <2>4. NotJoined => NotJoined'
    BY <2>1 DEF NotJoined
  <2>5. CASE FirstOpens
    <3>1. sySent = <<OpenFrame>> /\ Head(sySent) = OpenFrame /\ sySent' = <<>> /\ OpenFrame.type = "open"
      BY <2>1, <2>5 DEF FirstOpens, OpenFrame
    <3>2. PICK news : news = [type |-> "state", update |-> syServer]
      OBVIOUS
    <3>3. news \in FileNews
      BY <1>0, <3>2, FileFrameMade
    <3>4. syInbox' = Append(syInbox, news)
      BY <2>1, <3>1, <3>2
    <3>5. OneState(syInbox')
      BY <1>0, <2>5, <3>3, <3>4, OneStateAppend DEF FirstOpens
    <3>6. NoOpen'
      BY <3>1, RangeEmpty DEF NoOpen
    <3> QED  BY <2>1, <2>4, <2>5, <3>5, <3>6 DEF FirstOpens, FirstWaits
  <2>6. FirstWaits => FirstWaits'
    BY <2>1, <2>3, <2>4 DEF FirstWaits, OneState
  <2>7. FirstReads => FirstReads'
    BY <2>1, <2>3, <2>4 DEF FirstReads, NoState
  <2>8. FirstJoined => FirstJoined'
    BY <2>1, <2>3 DEF FirstJoined, NoState
  <2> QED  BY <1>01, <2>1, <2>5, <2>6, <2>7, <2>8 DEF FirstIdle
<1>10. CASE FilePeerEdits
  <2>1. /\ TRUE
        /\ sySent' = sySent /\ syConn' = syConn /\ syReady' = syReady /\ syDoc' = syDoc
        /\ syBase' = syBase /\ syWrote' = syWrote /\ syEstablished' = syEstablished
        /\ syOutbox' = syOutbox /\ syFromDisk' = syFromDisk
        /\ syFromSession' = syFromSession /\ syMerge' = syMerge /\ syFile' = syFile
        /\ syEvent' = syEvent
    BY <1>10 DEF FilePeerEdits, syClient, syDisk
  <2>2. PICK update \in FileDocs :
           syInbox' = IF syConn = "up"
                      THEN Append(syInbox, [type |-> "update", update |-> update])
                      ELSE syInbox
    BY <1>10, PeerServer
  <2>3. PICK news : news = [type |-> "update", update |-> update]
    OBVIOUS
  <2>4. news \in FileNews /\ news.type = "update"
    BY <2>3, FileFrameMade
  <2>5. /\ NoState(syInbox) => NoState(syInbox')
        /\ OneState(syInbox) => OneState(syInbox')
        /\ syConn = "down" => syInbox' = syInbox
    <3>1. CASE syInbox' = syInbox
      BY <3>1, <2>2 DEF NoState, OneState
    <3>2. CASE syConn = "up" /\ syInbox' = Append(syInbox, news)
      BY <1>0, <2>4, <3>2, OneStateAppend
    <3> QED  BY <2>2, <2>3, <3>1, <3>2
  <2>6. (NoOpen => NoOpen') /\ (NotJoined => NotJoined')
    BY <2>1 DEF NoOpen, NotJoined
  <2> QED  BY <1>01, <2>1, <2>5, <2>6 DEF FirstIdle, FirstOpens, FirstWaits, FirstReads, FirstJoined
<1>11. CASE FileDisconnected
  <2>1. FileLose(sySent)
    BY <1>11 DEF FileDisconnected, syClient, syDisk, syAuthor
  <2> QED  BY <1>0, <2>1, LoseEffect
<1>12. CASE FileLoad
  <2>1. /\ TRUE
        /\ syServer' = syServer /\ sySent' = sySent /\ syInbox' = syInbox
        /\ syConn' = syConn /\ syReady' = syReady /\ syDoc' = syDoc /\ syBase' = syBase
        /\ syWrote' = syWrote /\ syEstablished' = syEstablished /\ syOutbox' = syOutbox
        /\ syFromDisk' = syFromDisk /\ syFromSession' = syFromSession
        /\ syMerge' = syMerge /\ syFile' = syFile /\ syEvent' = syEvent
    BY <1>12 DEF FileLoad, syWire, syClient, syDisk
  <2> QED  BY <1>01, <2>1 DEF NoOpen, NoState, OneState, NotJoined, FirstIdle, FirstOpens, FirstWaits, FirstReads, FirstJoined
<1>13. CASE Save
  <2>1. /\ syEvent' = TRUE
        /\ syServer' = syServer /\ sySent' = sySent /\ syInbox' = syInbox
        /\ syConn' = syConn /\ syReady' = syReady /\ syDoc' = syDoc /\ syBase' = syBase
        /\ syWrote' = syWrote /\ syEstablished' = syEstablished /\ syOutbox' = syOutbox
        /\ syFromDisk' = syFromDisk /\ syFromSession' = syFromSession
        /\ syMerge' = syMerge
    BY <1>13 DEF Save, Saved, syWire, syClient
  <2> QED  BY <1>01, <2>1 DEF NoOpen, NoState, OneState, NotJoined, FirstIdle, FirstOpens, FirstWaits, FirstReads, FirstJoined
<1>14. CASE Undo
  <2>1. /\ syEvent' = TRUE
        /\ syServer' = syServer /\ sySent' = sySent /\ syInbox' = syInbox
        /\ syConn' = syConn /\ syReady' = syReady /\ syDoc' = syDoc /\ syBase' = syBase
        /\ syWrote' = syWrote /\ syEstablished' = syEstablished /\ syOutbox' = syOutbox
        /\ syFromDisk' = syFromDisk /\ syFromSession' = syFromSession
        /\ syMerge' = syMerge
    BY <1>14 DEF Undo, Saved, syWire, syClient
  <2> QED  BY <1>01, <2>1 DEF NoOpen, NoState, OneState, NotJoined, FirstIdle, FirstOpens, FirstWaits, FirstReads, FirstJoined
<1>15. CASE UNCHANGED syVars
  <2>1. /\ TRUE
        /\ syServer' = syServer /\ sySent' = sySent /\ syInbox' = syInbox
        /\ syConn' = syConn /\ syReady' = syReady /\ syDoc' = syDoc /\ syBase' = syBase
        /\ syWrote' = syWrote /\ syEstablished' = syEstablished /\ syOutbox' = syOutbox
        /\ syFromDisk' = syFromDisk /\ syFromSession' = syFromSession
        /\ syMerge' = syMerge /\ syFile' = syFile /\ syEvent' = syEvent
    BY <1>15 DEF syVars, syWire, syClient, syDisk, syAuthor
  <2> QED  BY <1>01, <2>1 DEF NoOpen, NoState, OneState, NotJoined, FirstIdle, FirstOpens, FirstWaits, FirstReads, FirstJoined
<1> QED  BY <1>1, <1>2, <1>3, <1>4, <1>5, <1>6, <1>7, <1>8, <1>9, <1>10, <1>11,
         <1>12, <1>13, <1>14, <1>15 DEF SyncNext, SyncClientStep

LEMMA FirstInv ==
  ASSUME FileInv, SyncNext \/ UNCHANGED syVars
  PROVE  FirstIsSound'
<1>1. CASE syDropped' = 0
  BY <1>1, FirstStep DEF FirstIsSound
<1> QED  BY <1>1 DEF FirstIsSound

-----------------------------------------------------------------------------
(* FileSync: the theorem.                                                  *)

LEMMA FileInit == SyncInit => FileInv
<1> SUFFICES ASSUME SyncInit  PROVE FileInv
  OBVIOUS
<1> DEFINE start == {<<p, 0>> : p \in SyncPlace}
<1>1. /\ syServer = Edits(Empty, start) /\ syFile \in {start, SyncNone}
      /\ syBuffer = [now |-> start, before |-> start] /\ syKnown = start
      /\ syInFile = (IF syFile = SyncNone THEN {} ELSE syFile)
      /\ sySent = <<>> /\ syInbox = <<>> /\ syConn = "down" /\ syReady = FALSE
      /\ syDoc = Empty /\ syBase = {} /\ syWrote = SyncNone
      /\ syEstablished = FALSE /\ syOutbox = <<>>
      /\ syFromDisk = FALSE /\ syFromSession = FALSE /\ syMerge = <<>>
      /\ syEvent = FALSE /\ syWord = 0 /\ syDropped = 0 /\ syErased = {}
  BY DEF SyncInit, SyncTexts
<1>2. SyncWords \in Nat
  BY SyncAssumption
<1>3. start \in SUBSET FileWord /\ \A w \in start : w[1] \in SyncPlace /\ w[2] = 0
  BY <1>2 DEF FileWord
<1>4. Empty \in FileDocs /\ Empty.ins = {} /\ Empty.del = {} /\ FileDense(Empty)
  BY FS_EmptySet, DocsMade DEF Empty, FileDense
<1>5. Text(Empty) = {}
  BY <1>4 DEF Text
<1>6. \A w : FileCount(Empty, w) = 0
  <2>1. \A w : {i \in Empty.ins : WordOf(i) = w} = {}
    BY <1>4
  <2> QED  BY <2>1, FS_EmptySet DEF FileCount
<1>7. /\ syServer \in FileDocs
      /\ syServer.ins = {<<w[1], w[2], FileCount(Empty, w)>> : w \in start \ Text(Empty)}
      /\ syServer.del = {i \in Empty.ins \ Empty.del : WordOf(i) \notin start}
  BY <1>1, <1>3, <1>4, WordsAreFinite, EditItems
<1>8. syServer.ins = {<<p, 0, 0>> : p \in SyncPlace} /\ syServer.del = {}
  <2>1. \A w \in start : \E p \in SyncPlace : w = <<p, 0>> /\ w[1] = p /\ w[2] = 0
    OBVIOUS
  <2>2. \A p \in SyncPlace : <<p, 0>> \in start /\ <<p, 0>>[1] = p /\ <<p, 0>>[2] = 0
    OBVIOUS
  <2> HIDE DEF start
  <2>3. start \ Text(Empty) = start /\ Empty.ins \ Empty.del = {}
    BY <1>4, <1>5
  <2>4. syServer.ins = {<<w[1], w[2], 0>> : w \in start}
    BY <1>6, <1>7, <2>3
  <2>5. syServer.del = {}
    BY <1>7, <2>3
  <2>6. ASSUME NEW i \in syServer.ins  PROVE \E p \in SyncPlace : i = <<p, 0, 0>>
    BY <2>1, <2>4
  <2>7. ASSUME NEW p \in SyncPlace  PROVE <<p, 0, 0>> \in syServer.ins
    BY <2>2, <2>4
  <2> QED  BY <2>5, <2>6, <2>7
<1>9. /\ <<>> \in Seq(FileFrames) /\ <<>> \in Seq(FileNews) /\ Range(<<>>) = {}
  BY RangeEmpty
<1>10. FileItems = {<<p, 0, 0>> : p \in SyncPlace} /\ syDoc.ins = {}
  BY <1>1, <1>4, <1>8 DEF FileItems
<1>11. \A i \in FileItems : i[2] = 0 /\ i[3] = 0
  BY <1>10
<1>12. FileNamed \in SUBSET start
  BY <1>1 DEF FileNamed
<1> HIDE DEF start
<1>13. FileTypes
  <2>1. syInFile \in SUBSET FileWord /\ syKnown \in SUBSET FileWord /\ syBase \in SUBSET FileWord
    BY <1>1, <1>3
  <2>2. syWord \in 0..SyncWords /\ syDropped \in Nat
    BY <1>1, <1>2
  <2> QED  BY <1>1, <1>4, <1>7, <1>9, <2>1, <2>2 DEF FileTypes
<1>14. FramesAreSound
  BY <1>1, <1>9 DEF FramesAreSound
<1>15. ItemsAreSound
  BY <1>1, <1>3, <1>4, <1>8, <1>9, <1>10, <1>11, <1>12 DEF ItemsAreSound
<1>16. TextsAreSound
  <2>1. syBuffer.now = start /\ syBuffer.before = start
    BY <1>1
  <2> QED  BY <1>1, <2>1 DEF TextsAreSound
<1>17. SentIsSound
  BY <1>1 DEF SentIsSound
<1>18. FirstIsSound
  BY <1>1 DEF FirstIsSound, FirstIdle, NotJoined
<1> QED  BY <1>13, <1>14, <1>15, <1>16, <1>17, <1>18 DEF FileInv

LEMMA FileStep == FileInv /\ [SyncNext]_syVars => FileInv'
<1> SUFFICES ASSUME FileInv, SyncNext \/ UNCHANGED syVars  PROVE FileInv'
  OBVIOUS
<1>1. FileTypes' /\ FramesAreSound' /\ ItemsAreSound'
  BY TypesInv, FramesInv, ItemsInv
<1>2. TextsAreSound' /\ SentIsSound' /\ FirstIsSound'
  BY TextsInv, SentInv, FirstInv
<1> QED  BY <1>1, <1>2 DEF FileInv

\* The inductive invariant of a file kept in step with its session.
THEOREM FileInvariant == SyncSpec => []FileInv
<1>1. SyncInit => FileInv
  BY FileInit
<1>2. FileInv /\ [SyncNext]_syVars => FileInv'
  BY FileStep
<1> QED  BY <1>1, <1>2, PTL DEF SyncSpec

\* librepaper sync never takes for a deletion what the session gained behind its
\* back, and what it changed reaches the room over any number of connections
\* lost (cli/sync.rs): for any number of places, words and losses.
THEOREM SyncWordsKept == SyncSpec => []SyncWordsSurvive
<1>1. FileInv => SyncWordsSurvive
  <2> SUFFICES ASSUME FileInv  PROVE SyncWordsSurvive
    OBVIOUS
  <2>1. syErased \subseteq syInFile
    BY DEF FileInv, TextsAreSound
  <2>2. ASSUME syConn = "up", syReady, syOutbox = <<>>, sySent = <<>>
        PROVE  FileJoined(syServer, syDoc) = syServer
    <3>1. /\ syServer \in FileDocs /\ syServer = [ins |-> syServer.ins, del |-> syServer.del]
      BY DocsFields DEF FileInv, FileTypes
    <3>2. Range(sySent) = {}
      BY <2>2, RangeEmpty
    <3>3. syDoc.ins \subseteq syServer.ins /\ syDoc.del \subseteq syServer.del
      BY <2>2, <3>2 DEF FileInv, SentIsSound
    <3>4. syServer.ins \cup syDoc.ins = syServer.ins /\ syServer.del \cup syDoc.del = syServer.del
      BY <3>3
    <3> QED  BY <3>1, <3>4 DEF FileJoined
  <2>3. ASSUME syConn = "up", syReady, Idling, ~syEvent, ~syFromDisk, ~syFromSession, syDropped = 0
        PROVE  syBase = Text(syDoc) /\ syFile = syBase
    <3>1. FirstJoined /\ syMerge = <<>>
      BY <2>3 DEF FileInv, FirstIsSound, FirstIdle, FirstOpens, FirstWaits, FirstReads, NotJoined, Idling
    <3> QED  BY <2>3, <3>1 DEF FirstJoined
  <2> QED  BY <2>1, <2>2, <2>3 DEF SyncWordsSurvive, SyncSessionWordsSurvive, SyncSettles
<1> QED  BY <1>1, FileInvariant, PTL
=============================================================================
