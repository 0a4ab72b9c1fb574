---------- MODULE DocumentProofs ----------
(***************************************************************************)
(* What is stored of documents outside the catalogue: the shared index of  *)
(* a deployment without one, rendered publications, backups, the life of a *)
(* document from its upload to the deletion of its last object, and the    *)
(* objects its history is made of.                                         *)
(***************************************************************************)
EXTENDS DocumentIndex, Publication, Backup, DocumentLifecycle, HistoryObjects,
        FiniteSetTheorems, TLAPS

---------------------------------------------------------------------------
(***************************************************************************)
(* For every number of servers, calls and documents and every quota: what  *)
(* the index promises (IdxAckedSurvives), as long as no document is        *)
(* created twice.                                                          *)
(***************************************************************************)

\* The identifier of a document is new when it is created.  (A put over a
\* document that is there writes an entry read before the other server's.)
CreatedOnce ==
  \A c, d \in IdxChange :
    IdxKind[c] = "put" /\ IdxKind[d] = "put" /\ IdxSlug[c] = IdxSlug[d] => c = d

Calls == [at : {"save", "reload"}, change : IdxChange, previous : SUBSET IdxChange,
          retried : BOOLEAN]
Busy(i) == ixCall[i] # NoCall

IdxTypeOK ==
  /\ ixStored \in IdxValue
  /\ ixMemory \in [IdxServer -> IdxValue]
  /\ ixCall \in [IdxServer -> Calls \union {NoCall}]
  /\ ixAnswer \in [IdxChange -> {"none", "done", "refused", "failed"}]
  /\ ixGone \in SUBSET IdxChange
  /\ ixFailed \in Nat

\* A call runs at one server and has no answer yet; what is gone was done.
OneServerPerCall ==
  /\ \A i \in IdxServer : Busy(i) => ixAnswer[ixCall[i].change] = "none"
  /\ \A i, j \in IdxServer :
       Busy(i) /\ Busy(j) /\ ixCall[i].change = ixCall[j].change => i = j
  /\ \A c \in ixGone : ixAnswer[c] = "done"

\* The quota holds of an index.
WithinQuota(entries) ==
  IsFiniteSet(IdxNamed(entries)) /\ Cardinality(IdxNamed(entries)) <= IdxLimit

\* An entry that has what was answered, unless its document is being removed,
\* and nothing that went with the document.
Honest(slug, entry) ==
  /\ \A c \in IdxChange :
       ixAnswer[c] = "done" /\ IdxKind[c] # "remove" /\ IdxSlug[c] = slug =>
         c \in entry \/ RemovalAsked(slug)
  /\ \A c \in ixGone : IdxSlug[c] = slug => c \notin entry

\* The call that creates a document has no answer yet.
Uncreated(c) == IdxKind[c] = "put" /\ ixAnswer[c] = "none"

\* What is stored is honest, within the quota, and without the documents that
\* were not created yet.
StoredIsSound ==
  /\ WithinQuota(ixStored.entries)
  /\ \A slug \in IdxSlugs : Honest(slug, ixStored.entries[slug])
  /\ \A c \in IdxChange : Uncreated(c) => ixStored.entries[IdxSlug[c]] = IdxAbsent

\* What a call has made of its entry in memory, and what it would put back.
InHand(i) ==
  LET c == ixCall[i].change
      entry == ixMemory[i].entries[IdxSlug[c]] IN
  /\ ixCall[i].at = "save" => entry = Changed(c, ixCall[i].previous)
  /\ ixCall[i].at = "reload" /\ IdxKind[c] # "remove" => entry = ixCall[i].previous
  /\ IdxKind[c] = "modify" => ixCall[i].previous # IdxAbsent
  /\ IdxKind[c] = "put" => ixCall[i].previous = IdxAbsent

\* The copy of a server is not ahead of storage, and behind it while a call
\* that lost waits; it is within the quota; it has no document that was not
\* created yet but the one its own call creates; and while it can still be
\* written it is honest, with its call and without it.
CopyIsSound(i) ==
  /\ ixMemory[i].version <= ixStored.version
  /\ ixCall[i].at = "reload" => ~Current(i)
  /\ Busy(i) => InHand(i)
  /\ WithinQuota(ixMemory[i].entries)
  /\ \A c \in IdxChange : Uncreated(c) =>
       (Busy(i) /\ ixCall[i].change = c) \/ ixMemory[i].entries[IdxSlug[c]] = IdxAbsent
  /\ Current(i) => \A slug \in IdxSlugs : Honest(slug, ixMemory[i].entries[slug])
  /\ Current(i) /\ Busy(i) => Honest(IdxSlug[ixCall[i].change], ixCall[i].previous)

\* The inductive invariant.
IdxInv ==
  IdxTypeOK /\ OneServerPerCall /\ StoredIsSound /\ \A i \in IdxServer : CopyIsSound(i)

---------------------------------------------------------------------------
\* Every call is about a document.
LEMMA SlugType == \A c \in IdxChange : IdxSlug[c] \in IdxSlugs
BY IdxAssumption DEF IdxSlugs, Range

\* What each type of call leaves in an entry is a set of changes.
LEMMA IdxTypes ==
  ASSUME IdxTypeOK, NEW i \in IdxServer, NEW c \in IdxChange
  PROVE  /\ IdxSlug[c] \in IdxSlugs
         /\ ixMemory[i].entries \in [IdxSlugs -> SUBSET IdxChange]
         /\ ixStored.entries \in [IdxSlugs -> SUBSET IdxChange]
         /\ ixMemory[i].version \in Nat /\ ixStored.version \in Nat
         /\ \A entry \in SUBSET IdxChange : Changed(c, entry) \in SUBSET IdxChange
         /\ Busy(i) => ixCall[i] \in Calls
         /\ ixCall[i].at \in {"save", "reload"} => Busy(i)
         /\ ixCall[i].at \in {"idle", "save", "reload"}
<1>1. IdxSlug[c] \in IdxSlugs
  BY IdxAssumption DEF IdxSlugs, Range
<1>2. /\ ixMemory[i].entries \in [IdxSlugs -> SUBSET IdxChange]
      /\ ixStored.entries \in [IdxSlugs -> SUBSET IdxChange]
      /\ ixMemory[i].version \in Nat /\ ixStored.version \in Nat
  BY DEF IdxTypeOK, IdxValue
<1>3. \A entry \in SUBSET IdxChange : Changed(c, entry) \in SUBSET IdxChange
  BY DEF Changed, IdxAbsent
<1>4. /\ Busy(i) => ixCall[i] \in Calls
      /\ ixCall[i].at \in {"save", "reload"} => Busy(i)
      /\ ixCall[i].at \in {"idle", "save", "reload"}
  BY DEF IdxTypeOK, Calls, Busy, NoCall
<1> QED BY <1>1, <1>2, <1>3, <1>4

\* The call a server has in hand.
LEMMA BusyCall ==
  ASSUME IdxTypeOK, NEW i \in IdxServer, Busy(i)
  PROVE  /\ ixCall[i] \in Calls
         /\ ixCall[i].change \in IdxChange /\ IdxSlug[ixCall[i].change] \in IdxSlugs
         /\ ixCall[i].previous \in SUBSET IdxChange
<1>1. ixCall[i] \in Calls /\ ixCall[i].change \in IdxChange /\ ixCall[i].previous \in SUBSET IdxChange
  BY DEF IdxTypeOK, Busy, Calls
<1> QED BY <1>1, IdxTypes

\* A copy in which one entry is written.
LEMMA HoldingOne ==
  ASSUME IdxTypeOK, NEW i \in IdxServer, NEW slug \in IdxSlugs, NEW entry \in SUBSET IdxChange,
         ixMemory' = Holding(i, slug, entry)
  PROVE  /\ ixMemory' \in [IdxServer -> IdxValue]
         /\ \A j \in IdxServer : ixMemory'[j].version = ixMemory[j].version
         /\ \A j \in IdxServer \ {i} : ixMemory'[j] = ixMemory[j]
         /\ ixMemory'[i].entries = [ixMemory[i].entries EXCEPT ![slug] = entry]
         /\ ixMemory'[i].entries[slug] = entry
         /\ \A u \in IdxSlugs \ {slug} : ixMemory'[i].entries[u] = ixMemory[i].entries[u]
BY DEF Holding, IdxTypeOK, IdxValue

\* One call moves; the others do not.
LEMMA CallMoves ==
  ASSUME IdxTypeOK, NEW i \in IdxServer, NEW call \in Calls \union {NoCall},
         ixCall' = [ixCall EXCEPT ![i] = call]
  PROVE  /\ ixCall' \in [IdxServer -> Calls \union {NoCall}]
         /\ ixCall'[i] = call
         /\ \A j \in IdxServer \ {i} : ixCall'[j] = ixCall[j]
BY DEF IdxTypeOK

\* A quota that an index is within admits one document more, or a change of
\* one it has, and holds when an entry is taken away.
LEMMA QuotaKept ==
  ASSUME NEW e \in [IdxSlugs -> SUBSET IdxChange], NEW slug \in IdxSlugs,
         NEW entry \in SUBSET IdxChange,
         WithinQuota(e), entry = IdxAbsent \/ Admits(e, slug)
  PROVE  WithinQuota([e EXCEPT ![slug] = entry])
<1> DEFINE f == [e EXCEPT ![slug] = entry]
<1>1. IsFiniteSet(IdxNamed(e)) /\ Cardinality(IdxNamed(e)) \in Nat
  BY FS_CardinalityType DEF WithinQuota
<1>2. CASE entry = IdxAbsent \/ e[slug] # IdxAbsent
  <2>1. IdxNamed(f) \in SUBSET IdxNamed(e)
    BY <1>2 DEF IdxNamed
  <2>2. IsFiniteSet(IdxNamed(f)) /\ Cardinality(IdxNamed(f)) <= Cardinality(IdxNamed(e))
    BY <1>1, <2>1, FS_Subset
  <2>3. Cardinality(IdxNamed(f)) \in Nat
    BY <2>2, FS_CardinalityType
  <2> QED BY <1>1, <2>2, <2>3, IdxAssumption DEF WithinQuota
<1>3. CASE ~(entry = IdxAbsent \/ e[slug] # IdxAbsent)
  <2>1. IdxNamed(f) = IdxNamed(e) \cup {slug} /\ slug \notin IdxNamed(e)
    BY <1>3 DEF IdxNamed
  <2>2. /\ IsFiniteSet(IdxNamed(f))
        /\ Cardinality(IdxNamed(f)) = Cardinality(IdxNamed(e)) + 1
    <3> DEFINE before == IdxNamed(e)
               after == IdxNamed(f)
    <3>1. IsFiniteSet(before) /\ after = before \cup {slug} /\ slug \notin before
      BY <1>1, <2>1
    <3> HIDE DEF before, after
    <3>2. IsFiniteSet(after) /\ Cardinality(after) = Cardinality(before) + 1
      BY <3>1, FS_AddElement
    <3> QED BY <3>2 DEF before, after
  <2>3. Cardinality(IdxNamed(e)) < IdxLimit
    BY <1>3 DEF Admits
  <2> QED BY <1>1, <2>2, <2>3, IdxAssumption DEF WithinQuota
<1> QED BY <1>2, <1>3
\* A removal that was asked for stays so when one server moves on.
LEMMA AskedStays ==
  ASSUME IdxTypeOK, NEW i \in IdxServer, NEW slug,
         \A c \in IdxChange : ixAnswer[c] # "none" => ixAnswer'[c] # "none",
         \A j \in IdxServer \ {i} : ixCall'[j] = ixCall[j],
         Busy(i) => \/ ixAnswer'[ixCall[i].change] # "none"
                    \/ ixCall'[i] # NoCall /\ ixCall'[i].change = ixCall[i].change
  PROVE  RemovalAsked(slug) => RemovalAsked(slug)'
BY DEF RemovalAsked, IdxRunning, Busy

\* A step of one server that answers nothing "done" and writes nothing leaves
\* what is stored, and the copies of the others, as sound as they were.
LEMMA OthersStaySound ==
  ASSUME IdxInv, NEW i \in IdxServer,
         \A j \in IdxServer \ {i} : ixMemory'[j] = ixMemory[j] /\ ixCall'[j] = ixCall[j],
         \A c \in IdxChange : ixAnswer'[c] \in {"none", "done"} => ixAnswer'[c] = ixAnswer[c],
         \A slug \in IdxSlugs : RemovalAsked(slug) => RemovalAsked(slug)',
         UNCHANGED <<ixStored, ixGone>>
  PROVE  StoredIsSound' /\ \A j \in IdxServer \ {i} : CopyIsSound(j)'
<1> USE DEF IdxInv
<1>1. \A c \in IdxChange : Uncreated(c)' => Uncreated(c)
  BY DEF Uncreated
<1>2. StoredIsSound'
  BY <1>1 DEF StoredIsSound, Honest
<1>3. ASSUME NEW j \in IdxServer \ {i} PROVE CopyIsSound(j)'
  <2>1. ixMemory'[j] = ixMemory[j] /\ ixCall'[j] = ixCall[j] /\ CopyIsSound(j)
    BY <1>3
  <2>2. Current(j)' = Current(j) /\ Busy(j)' = Busy(j) /\ InHand(j)' = InHand(j)
    BY <2>1 DEF Current, Busy, InHand
  <2>3. Current(j) => \A slug \in IdxSlugs : Honest(slug, ixMemory[j].entries[slug])'
    BY <2>1 DEF CopyIsSound, Honest
  <2>4. Current(j) /\ Busy(j) => Honest(IdxSlug[ixCall[j].change], ixCall[j].previous)'
    <3>1. Busy(j) => IdxSlug[ixCall[j].change] \in IdxSlugs
      BY BusyCall
    <3> QED BY <2>1, <3>1 DEF CopyIsSound, Honest
  <2> QED BY <2>1, <2>2, <2>3, <2>4, <1>1 DEF CopyIsSound, Busy
<1> QED BY <1>2, <1>3

\* A copy that was read again and carries nothing yet is as sound as what is
\* stored.
LEMMA FreshCopyIsSound ==
  ASSUME IdxTypeOK, StoredIsSound, NEW i \in IdxServer, ixMemory[i] = ixStored, ~Busy(i)
  PROVE  CopyIsSound(i)
BY DEF StoredIsSound, CopyIsSound, Current, Busy, NoCall, IdxTypeOK, IdxValue

\* The server that answers its call is free, and no other server has the call.
LEMMA Answered ==
  ASSUME IdxInv, NEW i \in IdxServer, Busy(i), NEW what \in {"done", "refused", "failed"},
         IdxAnswers(i, ixCall[i].change, what), ixGone' \in SUBSET IdxChange,
         \A c \in ixGone' : ixAnswer'[c] = "done"
  PROVE  /\ ixAnswer' \in [IdxChange -> {"none", "done", "refused", "failed"}]
         /\ ixAnswer'[ixCall[i].change] = what
         /\ \A c \in IdxChange \ {ixCall[i].change} : ixAnswer'[c] = ixAnswer[c]
         /\ ixCall' \in [IdxServer -> Calls \union {NoCall}] /\ ~Busy(i)'
         /\ \A j \in IdxServer \ {i} : ixCall'[j] = ixCall[j]
         /\ OneServerPerCall'
         /\ \A slug \in IdxSlugs : RemovalAsked(slug) => RemovalAsked(slug)'
<1> USE DEF IdxInv
<1>0. ixCall[i].change \in IdxChange
  BY BusyCall
<1>1. /\ ixCall' \in [IdxServer -> Calls \union {NoCall}] /\ ~Busy(i)'
      /\ \A j \in IdxServer \ {i} : ixCall'[j] = ixCall[j]
  BY CallMoves DEF IdxAnswers, Busy
<1>2. /\ ixAnswer' \in [IdxChange -> {"none", "done", "refused", "failed"}]
      /\ ixAnswer'[ixCall[i].change] = what
      /\ \A c \in IdxChange \ {ixCall[i].change} : ixAnswer'[c] = ixAnswer[c]
  BY <1>0 DEF IdxAnswers, IdxTypeOK
<1>3. OneServerPerCall'
  BY <1>0, <1>1, <1>2, BusyCall DEF OneServerPerCall, Busy
<1>4. \A slug \in IdxSlugs : RemovalAsked(slug) => RemovalAsked(slug)'
  BY <1>0, <1>1, <1>2, AskedStays
<1> QED BY <1>1, <1>2, <1>3, <1>4

\* A call takes its place in memory.
LEMMA BeginInv ==
  ASSUME CreatedOnce, IdxInv, NEW i \in IdxServer, NEW c \in IdxChange, IdxBegin(i, c)
  PROVE  IdxInv'
<1> USE DEF IdxInv
<1> DEFINE entries == ixMemory[i].entries
           slug == IdxSlug[c]
           call == [at |-> "save", change |-> c, previous |-> entries[slug], retried |-> FALSE]
<1>0. /\ slug \in IdxSlugs /\ entries \in [IdxSlugs -> SUBSET IdxChange]
      /\ entries[slug] \in SUBSET IdxChange
      /\ Changed(c, entries[slug]) \in SUBSET IdxChange
      /\ ixCall[i] = NoCall /\ ~Busy(i)
  BY IdxTypes DEF IdxBegin, Busy
<1>1. CASE ~Applies(c, entries)
  <2>1. /\ ixAnswer' = [ixAnswer EXCEPT ![c] = "refused"] /\ ixCall' = [ixCall EXCEPT ![i] = NoCall]
        /\ UNCHANGED <<ixStored, ixMemory, ixGone, ixFailed>>
    BY <1>1 DEF IdxBegin, IdxAnswers, IdxWorks
  <2>2. ixCall' = ixCall
    BY <1>0, <2>1 DEF IdxTypeOK
  <2>3. IdxTypeOK'
    BY <2>1, <2>2 DEF IdxTypeOK
  <2>4. OneServerPerCall'
    BY <2>1, <2>2 DEF IdxTypeOK, OneServerPerCall, Busy, IdxBegin, IdxRunning
  <2>5. \A u \in IdxSlugs : RemovalAsked(u) => RemovalAsked(u)'
    BY <2>1, <2>2, AskedStays DEF IdxTypeOK, Busy
  <2>6. \A d \in IdxChange : ixAnswer'[d] \in {"none", "done"} => ixAnswer'[d] = ixAnswer[d]
    BY <2>1 DEF IdxTypeOK
  <2>7. StoredIsSound' /\ \A j \in IdxServer \ {i} : CopyIsSound(j)'
    BY <2>1, <2>2, <2>5, <2>6, OthersStaySound
  <2>8. CopyIsSound(i)'
    <3>1. Current(i) => \A u \in IdxSlugs : Honest(u, ixMemory[i].entries[u])'
      BY <2>1, <2>5, <2>6 DEF CopyIsSound, Honest
    <3> QED BY <1>0, <2>1, <2>2, <2>6, <3>1 DEF CopyIsSound, Current, Busy, Uncreated
  <2> QED BY <2>3, <2>4, <2>7, <2>8
<1>2. CASE Applies(c, entries)
  <2>1. /\ ixMemory' = Holding(i, slug, Changed(c, entries[slug]))
        /\ ixCall' = [ixCall EXCEPT ![i] = call]
        /\ UNCHANGED <<ixAnswer, ixStored, ixGone, ixFailed>>
        /\ ixAnswer[c] = "none" /\ ~IdxRunning(c)
    BY <1>2 DEF IdxBegin, IdxGoes, IdxWorks
  <2>2. call \in Calls
    BY <1>0 DEF Calls
  <2>3. /\ ixMemory' \in [IdxServer -> IdxValue]
        /\ \A j \in IdxServer : ixMemory'[j].version = ixMemory[j].version
        /\ \A j \in IdxServer \ {i} : ixMemory'[j] = ixMemory[j]
        /\ ixMemory'[i].entries = [entries EXCEPT ![slug] = Changed(c, entries[slug])]
        /\ ixMemory'[i].entries[slug] = Changed(c, entries[slug])
        /\ \A u \in IdxSlugs \ {slug} : ixMemory'[i].entries[u] = entries[u]
    BY <1>0, <2>1, HoldingOne
  <2>4. /\ ixCall' \in [IdxServer -> Calls \union {NoCall}] /\ ixCall'[i] = call
        /\ \A j \in IdxServer \ {i} : ixCall'[j] = ixCall[j]
    BY <2>1, <2>2, CallMoves
  <2>5. IdxTypeOK' /\ OneServerPerCall'
    <3>1. IdxTypeOK'
      BY <2>1, <2>3, <2>4 DEF IdxTypeOK
    <3>2. \A j \in IdxServer \ {i} : /\ Busy(j)' = Busy(j) /\ ixCall'[j].change = ixCall[j].change
                                     /\ Busy(j) => ixCall[j].change # c
      BY <2>1, <2>4 DEF Busy, IdxRunning
    <3>3. ixCall'[i].change = c /\ ixAnswer'[c] = "none"
      BY <2>1, <2>4
    <3> QED BY <3>1, <3>2, <3>3, <2>1 DEF OneServerPerCall
  <2>6. IdxKind[c] = "put" => entries[slug] = IdxAbsent
    BY <2>1, <1>0 DEF CopyIsSound, Uncreated
  <2>7. \A u \in IdxSlugs : RemovalAsked(u) => RemovalAsked(u)'
    BY <2>1, <2>4, <1>0, AskedStays
  <2>8. StoredIsSound' /\ \A j \in IdxServer \ {i} : CopyIsSound(j)'
    BY <2>1, <2>3, <2>4, <2>7, OthersStaySound
  <2>9. CopyIsSound(i)'
    <3>1. InHand(i)'
      BY <2>3, <2>4, <2>6, <1>2, <1>0 DEF InHand, Applies
    <3>2. WithinQuota(ixMemory'[i].entries)
      <4>1. Changed(c, entries[slug]) = IdxAbsent \/ Admits(entries, slug)
        BY <1>2, IdxAssumption DEF Applies, Admits, Changed
      <4>2. WithinQuota(entries)
        BY DEF CopyIsSound
      <4>3. WithinQuota([entries EXCEPT ![slug] = Changed(c, entries[slug])])
        BY <1>0, <4>1, <4>2, QuotaKept
      <4> QED BY <4>3, <2>3
    <3>3. ASSUME NEW d \in IdxChange, Uncreated(d)'
          PROVE  (Busy(i) /\ ixCall[i].change = d)' \/ ixMemory'[i].entries[IdxSlug[d]] = IdxAbsent
      <4>1. IdxSlug[d] \in IdxSlugs /\ Uncreated(d)
        BY <3>3, <2>1, IdxTypes DEF Uncreated
      <4>2. entries[IdxSlug[d]] = IdxAbsent
        BY <4>1, <1>0 DEF CopyIsSound
      <4>3. IdxSlug[d] = slug /\ c # d => IdxKind[c] = "remove"
        BY <4>1, <4>2, <1>2, IdxAssumption DEF CreatedOnce, Applies, Uncreated
      <4> QED BY <4>1, <4>2, <4>3, <2>3, <2>4 DEF Busy, NoCall, Changed
    <3>4. ASSUME Current(i), NEW u \in IdxSlugs PROVE Honest(u, ixMemory[i].entries[u])'
      <4>1. Honest(u, entries[u]) /\ c \notin ixGone
        BY <3>4, <2>1 DEF CopyIsSound, OneServerPerCall
      <4>2. IdxKind[c] = "remove" => RemovalAsked(slug)'
        BY <2>4 DEF RemovalAsked, IdxRunning, NoCall
      <4>3. CASE u = slug
        BY <4>1, <4>2, <4>3, <2>1, <2>3, <2>7 DEF Honest, Changed, IdxAbsent
      <4>4. CASE u # slug
        BY <4>1, <4>4, <2>1, <2>3, <2>7 DEF Honest
      <4> QED BY <4>3, <4>4
    <3>5. ASSUME Current(i) PROVE Honest(IdxSlug[ixCall[i].change], ixCall[i].previous)'
      <4>1. Honest(slug, entries[slug])
        BY <3>5, <1>0 DEF CopyIsSound
      <4>2. RemovalAsked(slug) => RemovalAsked(slug)'
        BY <2>7, <1>0
      <4> QED BY <4>1, <4>2, <2>1, <2>4 DEF Honest
    <3>6. Current(i)' = Current(i) /\ Busy(i)' /\ ixMemory'[i].version <= ixStored'.version
          /\ ixCall'[i].at # "reload"
      BY <2>1, <2>3, <2>4 DEF Current, Busy, NoCall, CopyIsSound
    <3> QED BY <3>1, <3>2, <3>3, <3>4, <3>5, <3>6 DEF CopyIsSound
  <2> QED BY <2>5, <2>8, <2>9
<1> QED BY <1>1, <1>2

\* What a refused write leaves in memory.
LEMMA UndoneCopy ==
  ASSUME IdxInv, NEW i \in IdxServer, ixCall[i].at = "save", ixMemory' = IdxUndone(i)
  PROVE  /\ ixMemory' \in [IdxServer -> IdxValue]
         /\ \A j \in IdxServer : ixMemory'[j].version = ixMemory[j].version
         /\ \A j \in IdxServer \ {i} : ixMemory'[j] = ixMemory[j]
         /\ IdxKind[ixCall[i].change] # "remove" =>
              ixMemory'[i].entries[IdxSlug[ixCall[i].change]] = ixCall[i].previous
         /\ WithinQuota(ixMemory'[i].entries)
         /\ \A c \in IdxChange : Uncreated(c) => ixMemory'[i].entries[IdxSlug[c]] = IdxAbsent
         /\ Current(i) => \A slug \in IdxSlugs : Honest(slug, ixMemory'[i].entries[slug])
<1> USE DEF IdxInv
<1> DEFINE c == ixCall[i].change
           slug == IdxSlug[c]
           entries == ixMemory[i].entries
           previous == ixCall[i].previous
<1>0. /\ Busy(i) /\ c \in IdxChange /\ slug \in IdxSlugs /\ previous \in SUBSET IdxChange
      /\ entries \in [IdxSlugs -> SUBSET IdxChange]
      /\ entries[slug] = Changed(c, previous) /\ InHand(i)
  <2>1. Busy(i)
    BY DEF Busy, NoCall
  <2> QED BY <2>1, BusyCall, IdxTypes DEF CopyIsSound, InHand
<1>1. CASE IdxKind[c] = "remove"
  <2>1. ixMemory' = ixMemory
    BY <1>1 DEF IdxUndone
  <2>2. \A d \in IdxChange : Uncreated(d) => ixMemory[i].entries[IdxSlug[d]] = IdxAbsent
    BY <1>0, <1>1 DEF CopyIsSound, Uncreated
  <2> QED BY <2>1, <2>2, <1>1 DEF CopyIsSound, IdxTypeOK
<1>2. CASE IdxKind[c] # "remove"
  <2>1. ixMemory' = Holding(i, slug, previous)
    BY <1>2 DEF IdxUndone
  <2>2. /\ ixMemory' \in [IdxServer -> IdxValue]
        /\ \A j \in IdxServer : ixMemory'[j].version = ixMemory[j].version
        /\ \A j \in IdxServer \ {i} : ixMemory'[j] = ixMemory[j]
        /\ ixMemory'[i].entries = [entries EXCEPT ![slug] = previous]
        /\ ixMemory'[i].entries[slug] = previous
        /\ \A u \in IdxSlugs \ {slug} : ixMemory'[i].entries[u] = entries[u]
    <3>1. slug \in IdxSlugs /\ previous \in SUBSET IdxChange
      BY <1>0
    <3> HIDE DEF slug, previous
    <3> QED BY <2>1, <3>1, HoldingOne DEF entries
  <2>3. WithinQuota(ixMemory'[i].entries)
    <3>1. entries[slug] # IdxAbsent
      BY <1>0, <1>2 DEF Changed, IdxAbsent
    <3>2. WithinQuota(entries) /\ Admits(entries, slug)
      BY <3>1 DEF CopyIsSound, Admits
    <3>3. WithinQuota([entries EXCEPT ![slug] = previous])
      BY <3>2, <1>0, QuotaKept
    <3> QED BY <3>3, <2>2
  <2>4. ASSUME NEW d \in IdxChange, Uncreated(d) PROVE ixMemory'[i].entries[IdxSlug[d]] = IdxAbsent
    <3>1. IdxSlug[d] \in IdxSlugs
      BY IdxTypes
    <3>2. CASE d = c
      BY <3>2, <2>4, <2>2, <1>0 DEF InHand, Uncreated
    <3>3. CASE d # c
      <4>1. entries[IdxSlug[d]] = IdxAbsent
        BY <3>3, <2>4 DEF CopyIsSound
      <4>2. IdxSlug[d] # slug
        BY <4>1, <1>0, <1>2 DEF Changed, IdxAbsent
      <4> QED BY <4>1, <4>2, <3>1, <2>2
    <3> QED BY <3>2, <3>3
  <2>5. ASSUME Current(i), NEW u \in IdxSlugs PROVE Honest(u, ixMemory'[i].entries[u])
    <3>1. Honest(u, entries[u]) /\ Honest(slug, previous)
      BY <2>5, <1>0 DEF CopyIsSound
    <3> QED BY <3>1, <2>2
  <2> QED BY <2>2, <2>3, <2>4, <2>5
<1> QED BY <1>1, <1>2

\* A write that is refused, or that fails before it is stored.
LEMMA UndoneInv ==
  ASSUME IdxInv, NEW i \in IdxServer, ixCall[i].at = "save", ixMemory' = IdxUndone(i),
         UNCHANGED <<ixStored, ixGone>>, ixFailed' \in Nat,
         \/ IdxAnswers(i, ixCall[i].change, "failed")
         \/ ~Current(i) /\ IdxGoes(i, [ixCall[i] EXCEPT !.at = "reload"])
  PROVE  IdxInv'
<1> USE DEF IdxInv
<1>0. Busy(i) /\ ixCall[i] \in Calls /\ IdxSlug[ixCall[i].change] \in IdxSlugs
  BY BusyCall DEF Busy, NoCall
<1>1. /\ ixMemory' \in [IdxServer -> IdxValue]
      /\ \A j \in IdxServer : ixMemory'[j].version = ixMemory[j].version
      /\ \A j \in IdxServer \ {i} : ixMemory'[j] = ixMemory[j]
      /\ IdxKind[ixCall[i].change] # "remove" =>
           ixMemory'[i].entries[IdxSlug[ixCall[i].change]] = ixCall[i].previous
      /\ WithinQuota(ixMemory'[i].entries)
      /\ \A c \in IdxChange : Uncreated(c) => ixMemory'[i].entries[IdxSlug[c]] = IdxAbsent
      /\ Current(i) => \A slug \in IdxSlugs : Honest(slug, ixMemory'[i].entries[slug])
  BY UndoneCopy
<1>2. CASE IdxAnswers(i, ixCall[i].change, "failed")
  <2>1. \A c \in ixGone : ixAnswer'[c] = "done"
    BY <1>0, <1>2 DEF IdxAnswers, OneServerPerCall, IdxTypeOK
  <2>2. /\ ixAnswer' \in [IdxChange -> {"none", "done", "refused", "failed"}]
        /\ ixAnswer'[ixCall[i].change] = "failed"
        /\ \A c \in IdxChange \ {ixCall[i].change} : ixAnswer'[c] = ixAnswer[c]
        /\ ixCall' \in [IdxServer -> Calls \union {NoCall}] /\ ~Busy(i)'
        /\ \A j \in IdxServer \ {i} : ixCall'[j] = ixCall[j]
        /\ OneServerPerCall'
        /\ \A slug \in IdxSlugs : RemovalAsked(slug) => RemovalAsked(slug)'
    BY <1>0, <1>2, <2>1, Answered DEF IdxTypeOK
  <2>3. IdxTypeOK'
    BY <1>1, <2>2 DEF IdxTypeOK
  <2>4. \A c \in IdxChange : ixAnswer'[c] \in {"none", "done"} => ixAnswer'[c] = ixAnswer[c]
    BY <2>2
  <2>5. StoredIsSound' /\ \A j \in IdxServer \ {i} : CopyIsSound(j)'
    BY <1>1, <2>2, <2>4, OthersStaySound
  <2>6. CopyIsSound(i)'
    <3>1. Current(i) => \A slug \in IdxSlugs : Honest(slug, ixMemory[i].entries[slug])'
      BY <1>1, <2>2, <2>4 DEF Honest
    <3>2. Current(i)' = Current(i) /\ ixCall'[i].at # "reload"
      BY <1>1, <2>2 DEF Current, Busy, NoCall
    <3>3. \A c \in IdxChange : Uncreated(c)' => ixMemory'[i].entries[IdxSlug[c]] = IdxAbsent
      BY <1>1, <2>4 DEF Uncreated
    <3> QED BY <1>1, <2>2, <3>1, <3>2, <3>3 DEF CopyIsSound
  <2> QED BY <2>2, <2>3, <2>5, <2>6
<1>3. CASE ~Current(i) /\ IdxGoes(i, [ixCall[i] EXCEPT !.at = "reload"])
  <2>1. /\ ixCall' \in [IdxServer -> Calls \union {NoCall}]
        /\ ixCall'[i] = [ixCall[i] EXCEPT !.at = "reload"]
        /\ \A j \in IdxServer \ {i} : ixCall'[j] = ixCall[j]
        /\ ixAnswer' = ixAnswer
    <3>1. [ixCall[i] EXCEPT !.at = "reload"] \in Calls
      BY <1>0 DEF Calls
    <3> QED BY <1>3, <3>1, CallMoves DEF IdxGoes
  <2>2. ixCall'[i].at = "reload" /\ Busy(i)' /\ ixCall'[i].change = ixCall[i].change
        /\ ixCall'[i].previous = ixCall[i].previous
    BY <2>1, <1>0 DEF Calls, Busy, NoCall
  <2>3. IdxTypeOK'
    BY <1>1, <2>1 DEF IdxTypeOK
  <2>7. OneServerPerCall'
    <3>1. \A j \in IdxServer : Busy(j)' = Busy(j) /\ ixCall'[j].change = ixCall[j].change
      BY <1>0, <2>1, <2>2 DEF Busy
    <3> QED BY <3>1, <2>1 DEF OneServerPerCall
  <2>4. \A slug \in IdxSlugs : RemovalAsked(slug) => RemovalAsked(slug)'
    BY <2>1, <2>2, AskedStays DEF Busy
  <2>5. StoredIsSound' /\ \A j \in IdxServer \ {i} : CopyIsSound(j)'
    BY <1>1, <2>1, <2>4, OthersStaySound
  <2>6. CopyIsSound(i)'
    <3>1. ~Current(i)'
      BY <1>1, <1>3 DEF Current
    <3>2. InHand(i)'
      BY <1>0, <1>1, <2>2 DEF InHand, CopyIsSound
    <3>3. \A c \in IdxChange : Uncreated(c)' => ixMemory'[i].entries[IdxSlug[c]] = IdxAbsent
      BY <1>1, <2>1 DEF Uncreated
    <3> QED BY <1>1, <3>1, <3>2, <3>3 DEF CopyIsSound
  <2> QED BY <2>3, <2>5, <2>6, <2>7
<1> QED BY <1>2, <1>3

\* The write that takes: what was in memory is stored, with the next version.
LEMMA SwapInv ==
  ASSUME IdxInv, NEW i \in IdxServer, ixCall[i].at = "save", Current(i), Swap(i),
         NEW what \in {"done", "failed"}, IdxAnswers(i, ixCall[i].change, what),
         \/ ixMemory' = [ixMemory EXCEPT ![i] = ixStored']
         \/ what = "failed" /\ ixMemory' = IdxUndone(i),
         ixFailed' \in Nat
  PROVE  IdxInv'
<1> USE DEF IdxInv
<1> DEFINE c == ixCall[i].change
           slug == IdxSlug[c]
           entries == ixMemory[i].entries
<1>0. /\ Busy(i) /\ c \in IdxChange /\ slug \in IdxSlugs
      /\ entries \in [IdxSlugs -> SUBSET IdxChange]
      /\ ixStored.version \in Nat /\ ixAnswer[c] = "none"
      /\ entries[slug] = Changed(c, ixCall[i].previous)
  <2>1. Busy(i)
    BY DEF Busy, NoCall
  <2> QED BY <2>1, BusyCall, IdxTypes DEF CopyIsSound, InHand, OneServerPerCall
<1>1. /\ ixStored' = [version |-> ixStored.version + 1, entries |-> entries]
      /\ ixGone' = IF IdxKind[c] # "remove" THEN ixGone
                   ELSE ixGone \union {d \in IdxChange : IdxSlug[d] = slug /\ ixAnswer[d] = "done"}
  BY DEF Swap
<1>2. ixStored' \in IdxValue /\ ixStored'.version = ixStored.version + 1 /\ ixStored'.entries = entries
  BY <1>0, <1>1 DEF IdxValue
<1>3. ixGone' \in SUBSET IdxChange /\ \A d \in ixGone' : ixAnswer'[d] = "done"
  <2>1. \A d \in ixGone' : ixAnswer[d] = "done" /\ d \in IdxChange
    BY <1>1 DEF OneServerPerCall, IdxTypeOK
  <2>2. \A d \in IdxChange : ixAnswer[d] = "done" => ixAnswer'[d] = "done"
    BY <1>0 DEF IdxAnswers, IdxTypeOK
  <2> QED BY <2>1, <2>2
<1>4. /\ ixAnswer' \in [IdxChange -> {"none", "done", "refused", "failed"}]
      /\ ixAnswer'[c] = what
      /\ \A d \in IdxChange \ {c} : ixAnswer'[d] = ixAnswer[d]
      /\ ixCall' \in [IdxServer -> Calls \union {NoCall}] /\ ~Busy(i)'
      /\ \A j \in IdxServer \ {i} : ixCall'[j] = ixCall[j]
      /\ OneServerPerCall'
      /\ \A u \in IdxSlugs : RemovalAsked(u) => RemovalAsked(u)'
  <2>1. what \in {"done", "refused", "failed"}
    OBVIOUS
  <2> QED BY <2>1, <1>0, <1>3, Answered
<1>5. /\ ixMemory' \in [IdxServer -> IdxValue]
      /\ \A j \in IdxServer \ {i} : ixMemory'[j] = ixMemory[j]
      /\ ixMemory'[i] = ixStored' \/ ixMemory'[i].version = ixMemory[i].version
  BY <1>2, UndoneCopy DEF IdxTypeOK
<1>6. IdxTypeOK'
  BY <1>2, <1>3, <1>4, <1>5 DEF IdxTypeOK
<1>7. \A d \in IdxChange : Uncreated(d)' => Uncreated(d) /\ d # c
  BY <1>4 DEF Uncreated
<1>8. StoredIsSound'
  <2>1. WithinQuota(entries)
    BY DEF CopyIsSound
  <2>2. \A d \in IdxChange : Uncreated(d)' => entries[IdxSlug[d]] = IdxAbsent
    BY <1>7 DEF CopyIsSound
  <2>3. ASSUME NEW u \in IdxSlugs PROVE Honest(u, ixStored.entries[u])'
    <3>1. Honest(u, entries[u])
      BY DEF CopyIsSound
    <3>2. ASSUME NEW d \in IdxChange, ixAnswer'[d] = "done", IdxKind[d] # "remove", IdxSlug[d] = u
          PROVE  d \in entries[u] \/ RemovalAsked(u)'
      <4>1. CASE d = c
        BY <4>1, <3>2, <1>0 DEF Changed
      <4>2. CASE d # c
        BY <4>2, <3>1, <3>2, <1>4 DEF Honest
      <4> QED BY <4>1, <4>2
    <3>3. ASSUME NEW d \in ixGone', IdxSlug[d] = u PROVE d \notin entries[u]
      <4>1. CASE d \in ixGone
        BY <4>1, <3>1, <3>3 DEF Honest
      <4>2. CASE d \notin ixGone
        BY <4>2, <3>3, <1>0, <1>1 DEF Changed, IdxAbsent
      <4> QED BY <4>1, <4>2
    <3> QED BY <3>2, <3>3, <1>2 DEF Honest
  <2> QED BY <2>1, <2>2, <2>3, <1>2 DEF StoredIsSound
<1>9. ASSUME NEW j \in IdxServer \ {i} PROVE CopyIsSound(j)'
  <2>1. ixMemory'[j] = ixMemory[j] /\ ixCall'[j] = ixCall[j] /\ CopyIsSound(j)
    BY <1>4, <1>5
  <2>2. ~Current(j)' /\ ixMemory'[j].version <= ixStored'.version
    <3>1. ixMemory[j].version \in Nat /\ ixMemory[j].version <= ixStored.version
      BY <2>1 DEF CopyIsSound, IdxTypeOK, IdxValue
    <3> QED BY <3>1, <2>1, <1>0, <1>2 DEF Current
  <2>3. Busy(j)' = Busy(j) /\ InHand(j)' = InHand(j)
    BY <2>1 DEF Busy, InHand
  <2> QED BY <2>1, <2>2, <2>3, <1>7 DEF CopyIsSound, Busy
<1>10. CopyIsSound(i)'
  <2>1. CASE ixMemory'[i] = ixStored'
    BY <2>1, <1>2, <1>4, <1>8, IdxTypes DEF StoredIsSound, CopyIsSound, Busy, NoCall, IdxValue
  <2>2. CASE ixMemory' = IdxUndone(i)
    <3>1. /\ ixMemory'[i].version = ixMemory[i].version
          /\ WithinQuota(ixMemory'[i].entries)
          /\ \A d \in IdxChange : Uncreated(d) => ixMemory'[i].entries[IdxSlug[d]] = IdxAbsent
      BY <2>2, UndoneCopy
    <3>2. ~Current(i)' /\ ixMemory'[i].version <= ixStored'.version
      BY <3>1, <1>0, <1>2 DEF Current
    <3> QED BY <3>1, <3>2, <1>4, <1>7 DEF CopyIsSound
  <2>3. ixMemory' = [ixMemory EXCEPT ![i] = ixStored'] => ixMemory'[i] = ixStored'
    BY DEF IdxTypeOK
  <2> QED BY <2>1, <2>2, <2>3
<1> QED BY <1>4, <1>6, <1>8, <1>9, <1>10

\* save_locked, with every outcome.
LEMMA SaveInv ==
  ASSUME IdxInv, NEW i \in IdxServer, IdxSave(i)
  PROVE  IdxInv'
<1>1. ixFailed' \in Nat
  BY DEF IdxInv, IdxTypeOK, IdxSave, IdxWorks, IdxFails
<1>2. CASE /\ Current(i) /\ Swap(i) /\ ixMemory' = [ixMemory EXCEPT ![i] = ixStored']
           /\ IdxAnswers(i, ixCall[i].change, "done")
  BY <1>1, <1>2, SwapInv DEF IdxSave
<1>3. CASE /\ Current(i) /\ Swap(i) /\ ixMemory' = IdxUndone(i)
           /\ IdxAnswers(i, ixCall[i].change, "failed")
  BY <1>1, <1>3, SwapInv DEF IdxSave
<1>4. CASE /\ ixMemory' = IdxUndone(i) /\ UNCHANGED <<ixStored, ixGone>>
           /\ \/ IdxAnswers(i, ixCall[i].change, "failed")
              \/ ~Current(i) /\ IdxGoes(i, [ixCall[i] EXCEPT !.at = "reload"])
  BY <1>1, <1>4, UndoneInv DEF IdxSave
<1> QED BY <1>2, <1>3, <1>4 DEF IdxSave

\* A server whose copy was read again while its call was answered, or while it
\* had none.
LEMMA ReadAgainInv ==
  ASSUME IdxInv, NEW i \in IdxServer, ixMemory' = [ixMemory EXCEPT ![i] = ixStored],
         UNCHANGED <<ixStored, ixGone>>, ixFailed' \in Nat,
         \/ Busy(i) /\ \E what \in {"refused", "failed"} : IdxAnswers(i, ixCall[i].change, what)
         \/ ~Busy(i) /\ UNCHANGED <<ixCall, ixAnswer>>
  PROVE  IdxInv'
<1> USE DEF IdxInv
<1>1. /\ ixMemory' \in [IdxServer -> IdxValue] /\ ixMemory'[i] = ixStored
      /\ \A j \in IdxServer \ {i} : ixMemory'[j] = ixMemory[j]
  BY DEF IdxTypeOK
<1>2. /\ ixAnswer' \in [IdxChange -> {"none", "done", "refused", "failed"}]
      /\ ixCall' \in [IdxServer -> Calls \union {NoCall}] /\ ~Busy(i)'
      /\ \A j \in IdxServer \ {i} : ixCall'[j] = ixCall[j]
      /\ OneServerPerCall'
      /\ \A c \in IdxChange : ixAnswer'[c] \in {"none", "done"} => ixAnswer'[c] = ixAnswer[c]
      /\ \A slug \in IdxSlugs : RemovalAsked(slug) => RemovalAsked(slug)'
  <2>1. CASE Busy(i) /\ \E what \in {"refused", "failed"} : IdxAnswers(i, ixCall[i].change, what)
    <3>1. PICK what \in {"refused", "failed"} : IdxAnswers(i, ixCall[i].change, what)
      BY <2>1
    <3>2. \A c \in ixGone' : ixAnswer'[c] = "done"
      BY <2>1, <3>1 DEF IdxAnswers, OneServerPerCall, IdxTypeOK
    <3>3. what \in {"done", "refused", "failed"} /\ ixGone' \in SUBSET IdxChange
      BY DEF IdxTypeOK
    <3> HIDE DEF IdxInv
    <3>4. /\ ixAnswer' \in [IdxChange -> {"none", "done", "refused", "failed"}]
          /\ ixAnswer'[ixCall[i].change] = what
          /\ \A c \in IdxChange \ {ixCall[i].change} : ixAnswer'[c] = ixAnswer[c]
          /\ ixCall' \in [IdxServer -> Calls \union {NoCall}] /\ ~Busy(i)'
          /\ \A j \in IdxServer \ {i} : ixCall'[j] = ixCall[j]
          /\ OneServerPerCall'
          /\ \A slug \in IdxSlugs : RemovalAsked(slug) => RemovalAsked(slug)'
      BY <2>1, <3>1, <3>2, <3>3, Answered
    <3> QED BY <3>4
  <2>2. CASE ~Busy(i) /\ UNCHANGED <<ixCall, ixAnswer>>
    BY <2>2 DEF IdxTypeOK, OneServerPerCall, Busy, RemovalAsked, IdxRunning
  <2> QED BY <2>1, <2>2
<1>3. IdxTypeOK'
  BY <1>1, <1>2 DEF IdxTypeOK
<1>4. StoredIsSound' /\ \A j \in IdxServer \ {i} : CopyIsSound(j)'
  BY <1>1, <1>2, OthersStaySound
<1>5. CopyIsSound(i)'
  BY <1>1, <1>2, <1>3, <1>4, IdxTypes DEF StoredIsSound, CopyIsSound, Busy, NoCall, IdxTypeOK, IdxValue
<1> QED BY <1>2, <1>3, <1>4, <1>5

\* get on a miss, a crash.
LEMMA RefreshInv ==
  ASSUME IdxInv, NEW i \in IdxServer, IdxRefresh(i)
  PROVE  IdxInv'
BY ReadAgainInv DEF IdxRefresh, IdxWorks, Busy, IdxInv, IdxTypeOK

\* A crash leaves a server nothing in hand and the stored index as it was.
LEMMA CrashInv ==
  ASSUME IdxInv, NEW i \in IdxServer, IdxCrash(i)
  PROVE  IdxInv'
<1>1. Busy(i) /\ ixFailed' \in Nat /\ IdxAnswers(i, ixCall[i].change, "failed")
  BY DEF IdxCrash, IdxFails, Busy, IdxInv, IdxTypeOK
<1>2. \E what \in {"refused", "failed"} : IdxAnswers(i, ixCall[i].change, what)
  BY <1>1
<1> QED BY <1>1, <1>2, ReadAgainInv DEF IdxCrash

\* The call that lost makes its change again over what is stored.
LEMMA ReloadInv ==
  ASSUME CreatedOnce, IdxInv, NEW i \in IdxServer, IdxReload(i)
  PROVE  IdxInv'
<1> USE DEF IdxInv
<1> DEFINE c == ixCall[i].change
           slug == IdxSlug[c]
           before == IF IdxKind[c] = "put" THEN ixCall[i].previous ELSE ixStored.entries[slug]
           call == [at |-> "save", change |-> c, retried |-> TRUE, previous |-> before]
<1>0. /\ Busy(i) /\ c \in IdxChange /\ slug \in IdxSlugs
      /\ ixStored.entries \in [IdxSlugs -> SUBSET IdxChange]
      /\ before \in SUBSET IdxChange /\ Changed(c, before) \in SUBSET IdxChange
      /\ ixAnswer[c] = "none" /\ InHand(i) /\ ~Current(i)
  <2>1. Busy(i) /\ ~Current(i)
    BY DEF IdxReload, Busy, NoCall, CopyIsSound
  <2> QED BY <2>1, BusyCall, IdxTypes DEF CopyIsSound, OneServerPerCall
<1>1. ixFailed' \in Nat
  BY DEF IdxReload, IdxWorks, IdxFails, IdxTypeOK
<1>2. CASE IdxAnswers(i, c, "failed") /\ UNCHANGED ixMemory
  <2>1. \A d \in ixGone : ixAnswer'[d] = "done"
    BY <1>0, <1>2 DEF IdxAnswers, OneServerPerCall, IdxTypeOK
  <2>2. UNCHANGED <<ixStored, ixGone>>
    BY DEF IdxReload
  <2>3. /\ ixAnswer' \in [IdxChange -> {"none", "done", "refused", "failed"}]
        /\ ixAnswer'[c] = "failed"
        /\ \A d \in IdxChange \ {c} : ixAnswer'[d] = ixAnswer[d]
        /\ ixCall' \in [IdxServer -> Calls \union {NoCall}] /\ ~Busy(i)'
        /\ \A j \in IdxServer \ {i} : ixCall'[j] = ixCall[j]
        /\ OneServerPerCall'
        /\ \A u \in IdxSlugs : RemovalAsked(u) => RemovalAsked(u)'
    BY <1>0, <1>2, <2>1, <2>2, Answered DEF IdxTypeOK
  <2>4. IdxTypeOK'
    BY <1>1, <1>2, <2>2, <2>3 DEF IdxTypeOK
  <2>5. StoredIsSound' /\ \A j \in IdxServer \ {i} : CopyIsSound(j)'
    BY <1>2, <2>2, <2>3, OthersStaySound
  <2>6. CopyIsSound(i)'
    <3>1. ~Current(i)' /\ ixCall'[i].at # "reload"
      BY <1>0, <1>2, <2>2, <2>3 DEF Current, Busy, NoCall
    <3>2. \A d \in IdxChange : Uncreated(d)' => Uncreated(d) /\ d # c
      BY <2>3 DEF Uncreated
    <3> QED BY <1>2, <2>2, <2>3, <3>1, <3>2 DEF CopyIsSound
  <2> QED BY <2>3, <2>4, <2>5, <2>6
<1>3. CASE ~Applies(c, ixStored.entries) /\ ixMemory' = [ixMemory EXCEPT ![i] = ixStored]
           /\ IdxAnswers(i, c, "refused")
  <2>1. \E what \in {"refused", "failed"} : IdxAnswers(i, ixCall[i].change, what)
    BY <1>3
  <2>2. UNCHANGED <<ixStored, ixGone>>
    BY DEF IdxReload
  <2> HIDE DEF c, IdxInv
  <2> QED BY <1>0, <1>1, <1>3, <2>1, <2>2, ReadAgainInv
<1>4. CASE /\ Applies(c, ixStored.entries) /\ IdxGoes(i, call)
           /\ ixMemory' = [ixMemory EXCEPT ![i] =
                             [ixStored EXCEPT !.entries[slug] = Changed(c, before)]]
  <2>1. UNCHANGED <<ixStored, ixGone, ixAnswer>>
    BY <1>4 DEF IdxReload, IdxGoes
  <2>2. call \in Calls
    BY <1>0 DEF Calls
  <2>3. /\ ixCall' \in [IdxServer -> Calls \union {NoCall}] /\ ixCall'[i] = call
        /\ \A j \in IdxServer \ {i} : ixCall'[j] = ixCall[j]
    BY <1>4, <2>2, CallMoves DEF IdxGoes
  <2>4. /\ ixMemory' \in [IdxServer -> IdxValue]
        /\ ixMemory'[i].version = ixStored.version
        /\ \A j \in IdxServer \ {i} : ixMemory'[j] = ixMemory[j]
        /\ ixMemory'[i].entries = [ixStored.entries EXCEPT ![slug] = Changed(c, before)]
    BY <1>0, <1>4 DEF IdxTypeOK, IdxValue
  <2>5. /\ ixMemory'[i].entries[slug] = Changed(c, before)
        /\ \A u \in IdxSlugs \ {slug} : ixMemory'[i].entries[u] = ixStored.entries[u]
    BY <1>0, <2>4
  <2>6. before = ixStored.entries[slug]
    BY <1>0 DEF StoredIsSound, Uncreated, InHand
  <2>7. Busy(i)' /\ ixCall'[i].change = c
    BY <2>3 DEF Busy, NoCall
  <2>8. IdxTypeOK'
    BY <1>1, <2>1, <2>3, <2>4 DEF IdxTypeOK
  <2>9. OneServerPerCall'
    <3>1. \A j \in IdxServer : Busy(j)' = Busy(j) /\ ixCall'[j].change = ixCall[j].change
      BY <1>0, <2>3, <2>7 DEF Busy
    <3> QED BY <3>1, <2>1 DEF OneServerPerCall
  <2>10. \A u \in IdxSlugs : RemovalAsked(u) => RemovalAsked(u)'
    BY <2>1, <2>3, <2>7, AskedStays DEF Busy
  <2>11. StoredIsSound' /\ \A j \in IdxServer \ {i} : CopyIsSound(j)'
    BY <2>1, <2>3, <2>4, <2>10, OthersStaySound
  <2>12. CopyIsSound(i)'
    <3>1. InHand(i)'
      <4>1. /\ ixCall'[i].at = "save" /\ ixCall'[i].change = c /\ ixCall'[i].previous = before
            /\ ixMemory'[i].entries[slug] = Changed(c, before)
        BY <2>3, <2>5
      <4>2. IdxKind[c] = "modify" => before # IdxAbsent
        BY <1>4, <2>6 DEF Applies
      <4>3. IdxKind[c] = "put" => before = IdxAbsent
        BY <1>0 DEF InHand
      <4> HIDE DEF c, before, slug
      <4> QED BY <4>1, <4>2, <4>3 DEF InHand, slug
    <3>2. WithinQuota(ixMemory'[i].entries)
      <4>1. Changed(c, before) = IdxAbsent \/ Admits(ixStored.entries, slug)
        BY <1>0, <1>4, <2>6, IdxAssumption DEF Applies, Admits, Changed
      <4>2. WithinQuota(ixStored.entries)
        BY DEF StoredIsSound
      <4>3. WithinQuota([ixStored.entries EXCEPT ![slug] = Changed(c, before)])
        <5> HIDE DEF slug, before, c
        <5> QED BY <1>0, <4>1, <4>2, QuotaKept
      <4> QED BY <4>3, <2>4
    <3>3. ASSUME NEW d \in IdxChange, Uncreated(d)'
          PROVE  (Busy(i) /\ ixCall[i].change = d)' \/ ixMemory'[i].entries[IdxSlug[d]] = IdxAbsent
      <4>1. IdxSlug[d] \in IdxSlugs /\ Uncreated(d)
        BY <3>3, <2>1, IdxTypes DEF Uncreated
      <4>2. ixStored.entries[IdxSlug[d]] = IdxAbsent
        BY <4>1 DEF StoredIsSound
      <4>3. IdxSlug[d] = slug /\ c # d => IdxKind[c] = "remove"
        BY <4>1, <4>2, <1>0, <1>4, IdxAssumption DEF CreatedOnce, Applies, Uncreated
      <4> QED BY <4>1, <4>2, <4>3, <2>5, <2>7 DEF Changed
    <3>4. ASSUME NEW u \in IdxSlugs PROVE Honest(u, ixMemory[i].entries[u])'
      <4>1. Honest(u, ixStored.entries[u]) /\ c \notin ixGone
        BY <1>0 DEF StoredIsSound, OneServerPerCall
      <4>2. IdxKind[c] = "remove" => RemovalAsked(slug)'
        BY <1>0, <2>3, <2>7 DEF RemovalAsked, IdxRunning, Busy
      <4>3. CASE u = slug
        <5>1. ixMemory'[i].entries[u] = Changed(c, ixStored.entries[u])
          BY <4>3, <2>5, <2>6
        <5>2. IdxKind[c] = "remove" => RemovalAsked(u)'
          BY <4>2, <4>3, <2>7
        <5> HIDE DEF c
        <5> QED BY <4>1, <5>1, <5>2, <2>1, <2>10 DEF Honest, Changed, IdxAbsent
      <4>4. CASE u # slug
        BY <4>1, <4>4, <2>1, <2>5, <2>10 DEF Honest
      <4> QED BY <4>3, <4>4
    <3>5. Honest(IdxSlug[ixCall[i].change], ixCall[i].previous)'
      <4>1. Honest(slug, ixStored.entries[slug])
        BY <1>0 DEF StoredIsSound
      <4>2. RemovalAsked(slug) => RemovalAsked(slug)'
        BY <2>7, <2>10, <1>0
      <4>3. ixCall'[i].change = c /\ ixCall'[i].previous = ixStored.entries[slug]
        BY <2>3, <2>6
      <4> QED BY <4>1, <4>2, <4>3, <2>1 DEF Honest
    <3>6. ixMemory'[i].version <= ixStored'.version /\ ixCall'[i].at # "reload"
      BY <1>0, <2>1, <2>3, <2>4 DEF IdxTypeOK, IdxValue
    <3> QED BY <3>1, <3>2, <3>3, <3>4, <3>5, <3>6 DEF CopyIsSound
  <2> QED BY <2>8, <2>9, <2>11, <2>12
<1> QED BY <1>2, <1>3, <1>4 DEF IdxReload

---------------------------------------------------------------------------
\* The index begins with every server and object as the invariant wants it.
LEMMA InitIdxInv == IdxInit => IdxInv
<1> SUFFICES ASSUME IdxInit PROVE IdxInv
  OBVIOUS
<1>1. IdxTypeOK
  BY IdxAssumption DEF IdxInit, IdxTypeOK, IdxValue, IdxAbsent
<1>2. OneServerPerCall /\ \A i \in IdxServer : ~Busy(i)
  BY DEF IdxInit, OneServerPerCall, Busy
<1>3. StoredIsSound
  <2>1. IdxNamed(ixStored.entries) = {}
    BY DEF IdxInit, IdxNamed
  <2>2. WithinQuota(ixStored.entries)
    BY <2>1, FS_EmptySet, IdxAssumption DEF WithinQuota
  <2>3. \A c \in IdxChange : ixStored.entries[IdxSlug[c]] = IdxAbsent
    BY SlugType DEF IdxInit
  <2>4. \A slug \in IdxSlugs : Honest(slug, ixStored.entries[slug])
    BY DEF IdxInit, Honest
  <2> QED BY <2>2, <2>3, <2>4 DEF StoredIsSound
<1>4. \A i \in IdxServer : CopyIsSound(i)
  BY <1>1, <1>2, <1>3, FreshCopyIsSound DEF IdxInit
<1> QED BY <1>1, <1>2, <1>3, <1>4 DEF IdxInv

\* Every step keeps the invariant, while no two puts create the same slug.
LEMMA NextIdxInv == ASSUME CreatedOnce PROVE IdxInv /\ [IdxNext]_ixVars => IdxInv'
<1> SUFFICES ASSUME IdxInv, [IdxNext]_ixVars PROVE IdxInv'
  OBVIOUS
<1>1. ASSUME NEW i \in IdxServer, NEW c \in IdxChange, IdxBegin(i, c) PROVE IdxInv'
  BY <1>1, BeginInv
<1>2. ASSUME NEW i \in IdxServer, IdxSave(i) PROVE IdxInv'
  BY <1>2, SaveInv
<1>3. ASSUME NEW i \in IdxServer, IdxReload(i) PROVE IdxInv'
  BY <1>3, ReloadInv
<1>4. ASSUME NEW i \in IdxServer, IdxRefresh(i) PROVE IdxInv'
  BY <1>4, RefreshInv
<1>5. ASSUME NEW i \in IdxServer, IdxCrash(i) PROVE IdxInv'
  BY <1>5, CrashInv
<1>6. CASE UNCHANGED ixVars
  BY <1>6 DEF ixVars, IdxInv, IdxTypeOK, OneServerPerCall, StoredIsSound, CopyIsSound, Honest, InHand,
    Busy, Current, Uncreated, RemovalAsked, IdxRunning
<1> QED BY <1>1, <1>2, <1>3, <1>4, <1>5, <1>6 DEF IdxNext

\* The quota holds of what is stored, an answered change is there until its
\* document is removed, and a removed document does not come back: for every
\* number of servers and calls, whichever writes fail or lose their answer.
THEOREM IndexKeepsItsPromises ==
  ASSUME CreatedOnce PROVE IdxSpec => []IdxAckedSurvives
<1>1. IdxInv => IdxAckedSurvives
  <2> SUFFICES ASSUME IdxInv PROVE IdxAckedSurvives
    OBVIOUS
  <2>1. \A slug \in IdxSlugs : Honest(slug, ixStored.entries[slug])
    BY DEF IdxInv, StoredIsSound
  <2>2. ixGone \in SUBSET IdxChange
    BY DEF IdxInv, IdxTypeOK
  <2> QED BY <2>1, <2>2, SlugType DEF IdxAckedSurvives, IdxInv, StoredIsSound, Honest, WithinQuota
<1> QED BY <1>1, InitIdxInv, NextIdxInv, PTL DEF IdxSpec

\* A copy is never ahead of what is stored, and no call is in hand at two
\* servers or after its answer.
THEOREM IndexInvariant ==
  ASSUME CreatedOnce PROVE IdxSpec => []IdxInv
BY InitIdxInv, NextIdxInv, PTL DEF IdxSpec

---------------------------------------------------------------------------
(***************************************************************************)
(* The published page can always be served and a preparation can always be *)
(* activated, for any requests, manifests, shared objects, clock and       *)
(* failures.  A call holds the document's lock, so what the janitor found  *)
(* unneeded when it began stays unneeded until it is done: time makes      *)
(* preparations expire but never makes one fresh.  A preparation it failed  *)
(* to read is one it does not know of, until its publisher asks again.     *)
(***************************************************************************)

PubRequests == PubRequest \cup {PubNone}
PubCalls ==
  {PubIdle} \cup [op : {"prepare"}, request : PubRequest]
    \cup [op : {"stage"}, request : PubRequest, hash : PubHash]
    \cup [op : {"activate"}, request : PubRequest, expected : PubRequests]
    \cup [op : {"clear"}, request : PubRequest]
    \cup [op : {"collect"}, left : SUBSET PubHash]

\* The preparations every collection since their answer has read.
Known == Active \ pubUnread
\* What the pointer and they name.
PubNeeded == PubLive(pubUnread)

PubTypeOK ==
  /\ pubNow \in Nat /\ pubCurrent \in [id : PubRequests, previous : PubRequests]
  /\ pubObjects \subseteq PubHash /\ pubDescriptor \subseteq PubRequest
  /\ pubMeta \in [PubRequest -> [at : Nat, expected : PubRequests]]
  /\ pubStaged \in [PubRequest -> SUBSET PubHash]
  /\ pubMissing \in [PubRequest -> SUBSET PubHash]
  /\ pubCall \in PubCalls

\* A fresh preparation needs no upload it was not told of.
PreparedIsWhole == \A r \in Known : Absent(r) \subseteq pubMissing[r]

\* What each call that holds the lock found, and relies on.
CallIsSound ==
  /\ Doing("clear") => pubCurrent.id = pubCall.request
  /\ Doing("collect") => pubCall.left \cap PubNeeded = {}

\* The inductive invariant.
PubInv == PubTypeOK /\ PubCurrentIsComplete /\ PreparedIsWhole /\ CallIsSound

---------------------------------------------------------------------------
\* No preparation becomes fresh, the pointer stays and nothing that is live or
\* staged for a fresh preparation goes.
Spares ==
  /\ pubDescriptor' \cap {r \in PubRequest : Fresh(r)'} \subseteq Active
  /\ pubUnread \subseteq pubUnread'
  /\ pubCurrent' = pubCurrent
  /\ pubObjects \cap PubNeeded \subseteq pubObjects'
  /\ \A r \in Known : Bundle(r) \cap pubStaged[r] \subseteq pubStaged'[r] \cup pubObjects'
  /\ pubMissing' = pubMissing

\* Such a step keeps both promises.
LEMMA SparesKeep ==
  ASSUME PubInv, Spares, PubTypeOK'
  PROVE  PubCurrentIsComplete' /\ PreparedIsWhole' /\ PubNeeded' \subseteq PubNeeded
<1>1. Known' \subseteq Known
  BY DEF Spares, Known, Active, PubInv, PubTypeOK
<1>2. PubNeeded' \subseteq PubNeeded
  BY <1>1 DEF PubNeeded, PubLive, Known, Spares
<1>3. PubCurrentIsComplete'
  BY DEF Spares, PubInv, PubCurrentIsComplete, PubNeeded, PubLive
<1>4. PreparedIsWhole'
  <2>1. SUFFICES ASSUME NEW r \in Known' PROVE Absent(r)' \subseteq pubMissing'[r]
    BY DEF PreparedIsWhole
  <2>2. r \in Known /\ Absent(r) \subseteq pubMissing[r]
    BY <1>1, <2>1 DEF PubInv, PreparedIsWhole
  <2>3. Bundle(r) \subseteq PubNeeded
    BY <2>2 DEF PubNeeded, PubLive, Known
  <2>. QED  BY <2>2, <2>3 DEF Absent, Spares
<1>. QED  BY <1>2, <1>3, <1>4

\* The types of a call's parts.
LEMMA CallTyped ==
  ASSUME PubTypeOK
  PROVE  /\ Doing("prepare") \/ Doing("stage") \/ Doing("activate") \/ Doing("clear")
              => pubCall.request \in PubRequest
         /\ Doing("stage") => pubCall.hash \in PubHash
         /\ Doing("activate") => pubCall.expected \in PubRequests
         /\ Doing("collect") => pubCall.left \subseteq PubHash /\ pubCall = [op |-> "collect", left |-> pubCall.left]
         /\ Unlocked => pubCall = PubIdle
BY DEF PubTypeOK, PubCalls, PubIdle, Doing, Unlocked

\* A call that ends: nothing is relied on any more.
LEMMA FinishIsSound == Finish => CallIsSound'
BY DEF Finish, CallIsSound, PubIdle, Doing

\* The time, a failure, a call that begins or ends, and what only grows.
LEMMA QuietSteps ==
  ASSUME PubInv,
         \/ PubTick \/ PubBreak \/ PubPutBytes \/ PubCollected
         \/ \E r \in PubRequest, expected \in PubRequests : PubActivate(r, expected)
         \/ \E r \in PubRequest, h \in PubHash : PubStage(r, h)
         \/ \E h \in PubHash : PubPlace(h) \/ PubMark(h)
  PROVE  PubInv'
<1>0. PubTypeOK /\ CallIsSound
  BY DEF PubInv
<1>1. PubTypeOK'
  <2>1. CASE PubTick
    BY <1>0, <2>1 DEF PubTypeOK, PubTick, pubStore
  <2>2. CASE PubBreak
    BY <1>0, <2>2 DEF PubTypeOK, PubBreak, pubStore, pubGhost, Finish, PubCalls
  <2>3. CASE PubPutBytes
    <3>1. pubStaged' \in [PubRequest -> SUBSET PubHash]
      BY <1>0, <2>3, CallTyped DEF PubTypeOK, PubPutBytes
    <3>. QED  BY <1>0, <2>3, <3>1 DEF PubTypeOK, PubPutBytes, pubGhost, Finish, PubCalls
  <2>4. CASE PubCollected
    BY <1>0, <2>4 DEF PubTypeOK, PubCollected, pubStore, pubGhost, Finish, PubCalls
  <2>5. ASSUME NEW r \in PubRequest, NEW expected \in PubRequests, PubActivate(r, expected)
        PROVE  PubTypeOK'
    BY <1>0, <2>5 DEF PubTypeOK, PubActivate, pubStore, pubGhost, PubCalls
  <2>6. ASSUME NEW r \in PubRequest, NEW h \in PubHash, PubStage(r, h) PROVE PubTypeOK'
    <3>1. pubMeta' \in [PubRequest -> [at : Nat, expected : PubRequests]]
      BY <1>0, <2>6 DEF PubTypeOK, PubStage
    <3>2. pubCall' \in PubCalls
      BY <2>6 DEF PubStage, PubCalls
    <3>. QED  BY <1>0, <2>6, <3>1, <3>2 DEF PubTypeOK, PubStage, pubGhost
  <2>7. ASSUME NEW h \in PubHash, PubPlace(h) PROVE PubTypeOK'
    BY <1>0, <2>7 DEF PubTypeOK, PubPlace, pubGhost, Finish, PubCalls
  <2>8. ASSUME NEW h \in PubHash, PubMark(h) PROVE PubTypeOK'
    <3>1. pubCall' = [op |-> "collect", left |-> pubCall.left \ {h}] /\ pubCall.left \subseteq PubHash
      BY <1>0, <2>8, CallTyped DEF PubMark
    <3>2. pubCall' \in PubCalls
      BY <3>1 DEF PubCalls
    <3>. QED  BY <1>0, <2>8, <3>2 DEF PubTypeOK, PubMark, pubGhost
  <2>. QED  BY <2>1, <2>2, <2>3, <2>4, <2>5, <2>6, <2>7, <2>8
<1>2. Spares
  <2>1. CASE PubTick
    <3>1. \A r \in PubRequest : Fresh(r)' => Fresh(r)
      BY <1>0, <2>1, PubAssumption DEF PubTypeOK, PubTick, pubStore, Fresh
    <3>. QED  BY <2>1, <3>1 DEF PubTick, pubStore, Spares, Active, Known
  <2>2. CASE PubBreak \/ PubCollected \/ \E r \in PubRequest, expected \in PubRequests : PubActivate(r, expected)
    BY <2>2 DEF PubBreak, PubCollected, PubActivate, pubStore, pubGhost, Spares, Active, Fresh, Known
  <2>3. CASE PubPutBytes
    BY <1>0, <2>3 DEF PubTypeOK, PubPutBytes, pubGhost, Spares, Active, Fresh, Known
  <2>4. ASSUME NEW r \in PubRequest, NEW h \in PubHash, PubStage(r, h) PROVE Spares
    <3>1. r \in Active /\ \A q \in PubRequest : q # r => (Fresh(q)' <=> Fresh(q))
      BY <1>0, <2>4 DEF PubTypeOK, PubStage, Active, Fresh
    <3>. QED  BY <1>0, <2>4, <3>1 DEF PubStage, pubGhost, Spares, Active, Known
  <2>5. ASSUME NEW h \in PubHash, PubPlace(h) \/ PubMark(h) PROVE Spares
    BY <2>5 DEF PubPlace, PubMark, pubGhost, Spares, Active, Fresh, Known
  <2>. QED  BY <2>1, <2>2, <2>3, <2>4, <2>5
<1>3. PubCurrentIsComplete' /\ PreparedIsWhole' /\ PubNeeded' \subseteq PubNeeded
  BY <1>1, <1>2, SparesKeep
<1>4. CallIsSound'
  <2>1. CASE Finish
    BY <2>1, FinishIsSound
  <2>2. CASE pubCall' = pubCall /\ pubDescriptor' = pubDescriptor
    BY <1>0, <1>2, <1>3, <2>2 DEF CallIsSound, Doing, Spares
  <2>3. ASSUME NEW r \in PubRequest, NEW expected \in PubRequests, PubActivate(r, expected)
        PROVE  CallIsSound'
    BY <2>3 DEF PubActivate, CallIsSound, Doing
  <2>4. ASSUME NEW r \in PubRequest, NEW h \in PubHash, PubStage(r, h) PROVE CallIsSound'
    BY <2>4 DEF PubStage, CallIsSound, Doing
  <2>5. ASSUME NEW h \in PubHash, PubMark(h) PROVE CallIsSound'
    <3>1. pubCall' = [op |-> "collect", left |-> pubCall.left \ {h}] /\ pubCall.left \cap PubNeeded = {}
      BY <1>0, <2>5, CallTyped DEF PubMark, CallIsSound
    <3>. QED  BY <1>3, <3>1 DEF CallIsSound, Doing
  <2>. QED  BY <2>1, <2>2, <2>3, <2>4, <2>5 DEF PubTick, PubBreak, PubPutBytes, PubCollected, PubPlace, pubStore
<1>. QED  BY <1>1, <1>3, <1>4 DEF PubInv

\* A prepare, or its retry, tells the publisher what is missing at that moment.
LEMMA PrepareKeeps ==
  ASSUME PubInv, NEW r \in PubRequest, NEW expected \in PubRequests,
         PubPrepareAgain(r, expected) \/ PubPrepare(r, expected)
  PROVE  PubInv'
<1>0. PubTypeOK /\ CallIsSound /\ PubCurrentIsComplete /\ PreparedIsWhole
  BY DEF PubInv
<1>1. CASE PubPrepareAgain(r, expected)
  <2>1. Absent(r) \subseteq PubHash
    BY <1>0, PubAssumption DEF Absent, Bundle
  <2>2. PubTypeOK'
    BY <1>0, <1>1, <2>1 DEF PubTypeOK, PubPrepareAgain, pubStore
  <2>3. Known' \subseteq Known \cup {r}
    BY <1>1 DEF PubPrepareAgain, pubStore, Known, Active, Fresh
  <2>4. PreparedIsWhole'
    BY <1>0, <1>1, <2>3 DEF PubPrepareAgain, pubStore, PreparedIsWhole, Absent, PubTypeOK
  <2>5. PubCurrentIsComplete' /\ CallIsSound'
    BY <1>0, <1>1 DEF PubPrepareAgain, pubStore, PubCurrentIsComplete, CallIsSound, Doing, Unlocked
  <2>. QED  BY <2>2, <2>4, <2>5 DEF PubInv
<1>2. CASE PubPrepare(r, expected)
  <2>1. PubTypeOK'
    <3>1. pubMeta' \in [PubRequest -> [at : Nat, expected : PubRequests]]
      BY <1>0, <1>2 DEF PubTypeOK, PubPrepare
    <3>2. pubCall' \in PubCalls
      BY <1>2 DEF PubPrepare, PubCalls
    <3>3. Bundle(r) \subseteq PubHash
      BY PubAssumption DEF Bundle
    <3>4. pubMissing' \in [PubRequest -> SUBSET PubHash]
      BY <1>0, <1>2, <3>3 DEF PubTypeOK, PubPrepare
    <3>. QED  BY <1>0, <1>2, <3>1, <3>2, <3>4 DEF PubTypeOK, PubPrepare
  <2>2. PreparedIsWhole'
    <3>1. SUFFICES ASSUME NEW q \in Known' PROVE Absent(q)' \subseteq pubMissing'[q]
      BY DEF PreparedIsWhole
    <3>2. Absent(q)' = Absent(q) /\ q \in PubRequest
      BY <1>2, <2>1, <3>1 DEF PubPrepare, Absent, Known, Active, PubTypeOK
    <3>3. CASE q = r /\ r \notin Active
      <4>1. pubMissing'[q] = Bundle(q)
        BY <1>0, <1>2, <3>3 DEF PubTypeOK, PubPrepare
      <4>. QED  BY <3>2, <4>1 DEF Absent
    <3>4. CASE q # r \/ r \in Active
      <4>1. q \in Known /\ pubMissing'[q] = pubMissing[q]
        BY <1>0, <1>2, <3>1, <3>2, <3>4 DEF PubTypeOK, PubPrepare, Known, Active, Fresh
      <4>. QED  BY <1>0, <3>2, <4>1 DEF PreparedIsWhole
    <3>. QED  BY <3>3, <3>4
  <2>3. PubCurrentIsComplete'
    BY <1>0, <1>2 DEF PubPrepare, PubCurrentIsComplete
  <2>4. CallIsSound'
    BY <1>2 DEF PubPrepare, CallIsSound, Doing
  <2>. QED  BY <2>1, <2>2, <2>3, <2>4 DEF PubInv
<1>. QED  BY <1>1, <1>2

\* The descriptor makes the preparation one the janitor spares.
LEMMA DescriptorKeeps ==
  ASSUME PubInv, PubPutDescriptor
  PROVE  PubInv'
<1>0. PubTypeOK /\ CallIsSound /\ PubCurrentIsComplete /\ PreparedIsWhole
  BY DEF PubInv
<1>1. PICK r \in PubRequest : r = pubCall.request
  BY <1>0, CallTyped DEF PubPutDescriptor
<1>2. /\ pubDescriptor' = pubDescriptor \cup {r} /\ Finish
      /\ pubMissing' = [pubMissing EXCEPT ![r] = Absent(r)] /\ pubUnread' = pubUnread \ {r}
      /\ UNCHANGED <<pubNow, pubCurrent, pubObjects, pubMeta, pubStaged>>
  BY <1>1 DEF PubPutDescriptor
<1>3. Absent(r) \subseteq PubHash
  BY <1>0, PubAssumption DEF Absent, Bundle
<1>4. PubTypeOK'
  BY <1>0, <1>2, <1>3 DEF PubTypeOK, Finish, PubCalls
<1>5. PubCurrentIsComplete'
  BY <1>0, <1>2 DEF PubCurrentIsComplete
<1>6. PreparedIsWhole'
  <2>1. SUFFICES ASSUME NEW q \in Known' PROVE Absent(q)' \subseteq pubMissing'[q]
    BY DEF PreparedIsWhole
  <2>2. Absent(q)' = Absent(q)
    BY <1>2 DEF Absent
  <2>3. CASE q = r
    BY <1>0, <1>2, <2>2, <2>3 DEF PubTypeOK
  <2>4. CASE q # r
    <3>1. q \in Known
      BY <1>2, <2>1, <2>4 DEF Known, Active, Fresh
    <3>. QED  BY <1>0, <1>2, <2>2, <2>4, <3>1 DEF PreparedIsWhole, PubTypeOK
  <2>. QED  BY <2>3, <2>4
<1>. QED  BY <1>2, <1>4, <1>5, <1>6, FinishIsSound DEF PubInv

\* The swap makes a manifest current only when every object of it is placed.
LEMMA SwapKeeps ==
  ASSUME PubInv, PubSwap
  PROVE  PubInv'
<1>0. PubTypeOK /\ CallIsSound /\ PreparedIsWhole
  BY DEF PubInv
<1>1. PICK r \in PubRequest, e \in PubRequests : r = pubCall.request /\ e = pubCall.expected
  BY <1>0, CallTyped DEF PubSwap
<1>2. /\ Bundle(r) \subseteq pubObjects /\ pubCurrent' = [id |-> r, previous |-> e]
      /\ pubCall' = [op |-> "clear", request |-> r]
      /\ UNCHANGED <<pubNow, pubObjects, pubMeta, pubDescriptor, pubStaged, pubMissing, pubUnread>>
  BY <1>1 DEF PubSwap, Unplaced
<1>3. PubTypeOK'
  <2>1. pubCurrent' \in [id : PubRequests, previous : PubRequests]
    BY <1>2 DEF PubRequests
  <2>2. pubCall' \in PubCalls
    BY <1>2 DEF PubCalls
  <2>. QED  BY <1>0, <1>2, <2>1, <2>2 DEF PubTypeOK
<1>4. PubCurrentIsComplete' /\ CallIsSound'
  BY <1>2 DEF PubCurrentIsComplete, CallIsSound, Doing
<1>5. PreparedIsWhole'
  BY <1>0, <1>2 DEF PreparedIsWhole, Known, Active, Fresh, Absent
<1>. QED  BY <1>3, <1>4, <1>5 DEF PubInv

\* Staging is cleared, as far as it gets, only for what is published or expired.
LEMMA ClearKeeps ==
  ASSUME PubInv, NEW r \in PubRequest, ClearStaging(r), pubCurrent.id = r \/ ~Fresh(r)
  PROVE  PubInv'
<1>0. PubTypeOK /\ PubCurrentIsComplete
  BY DEF PubInv
<1>1. /\ pubMeta' = pubMeta \/ pubMeta' = [pubMeta EXCEPT ![r] = NoMeta]
      /\ pubDescriptor' \subseteq pubDescriptor
      /\ \E bytes \in SUBSET pubStaged[r] : pubStaged' = [pubStaged EXCEPT ![r] = @ \ bytes]
      /\ Finish /\ UNCHANGED <<pubNow, pubCurrent, pubObjects, pubMissing, pubUnread>>
  BY DEF ClearStaging, pubGhost
<1>2. PubTypeOK'
  <2>1. pubMeta' \in [PubRequest -> [at : Nat, expected : PubRequests]]
    BY <1>0, <1>1 DEF PubTypeOK, NoMeta, PubRequests
  <2>2. pubStaged' \in [PubRequest -> SUBSET PubHash]
    BY <1>0, <1>1 DEF PubTypeOK
  <2>. QED  BY <1>0, <1>1, <2>1, <2>2 DEF PubTypeOK, Finish, PubCalls
<1>3. Spares
  <2>1. \A q \in PubRequest : Fresh(q)' => Fresh(q)
    BY <1>0, <1>1 DEF PubTypeOK, Fresh, NoMeta
  <2>2. \A q \in Known : Bundle(q) \cap pubStaged[q] \subseteq pubStaged'[q] \cup pubObjects'
    BY <1>0, <1>1 DEF PubTypeOK, Known, Active, PubCurrentIsComplete
  <2>. QED  BY <1>0, <1>1, <2>1, <2>2 DEF Spares, Known, Active
<1>. QED  BY <1>1, <1>2, <1>3, SparesKeep, FinishIsSound DEF PubInv

\* The janitor begins with what nothing names.
LEMMA CollectKeeps ==
  ASSUME PubInv, PubCollect
  PROVE  PubInv'
<1>0. PubTypeOK
  BY DEF PubInv
<1>1. PICK unread \in SUBSET Active :
        /\ pubCall' = [op |-> "collect", left |-> pubObjects \ PubLive(unread)]
        /\ pubUnread' = pubUnread \cup unread
        /\ UNCHANGED <<pubNow, pubCurrent, pubObjects, pubMeta, pubDescriptor, pubStaged, pubMissing>>
  BY DEF PubCollect
<1>2. PubTypeOK'
  <2>1. pubCall' \in PubCalls
    BY <1>0, <1>1 DEF PubCalls, PubTypeOK
  <2>. QED  BY <1>0, <1>1, <2>1 DEF PubTypeOK
<1>3. Spares
  BY <1>1 DEF Spares, Known, Active, Fresh
<1>4. PubCurrentIsComplete' /\ PreparedIsWhole'
  BY <1>2, <1>3, SparesKeep
<1>5. PubNeeded' \subseteq PubLive(unread)
  <2>1. Active' = Active
    BY <1>1 DEF Active, Fresh
  <2>. QED  BY <1>1, <2>1 DEF PubNeeded, PubLive
<1>6. CallIsSound'
  BY <1>1, <1>5 DEF CallIsSound, Doing
<1>. QED  BY <1>2, <1>4, <1>6 DEF PubInv

\* And reclaims of it.
LEMMA ReclaimKeeps ==
  ASSUME PubInv, NEW h \in PubHash, PubReclaim(h)
  PROVE  PubInv' /\ h \notin PubNeeded /\ pubObjects \ {h} \subseteq pubObjects'
<1>0. PubTypeOK /\ CallIsSound
  BY DEF PubInv
<1>1. PICK left \in SUBSET PubHash : pubCall = [op |-> "collect", left |-> left]
  BY <1>0, CallTyped DEF PubReclaim
<1>2. /\ h \in left /\ left \cap PubNeeded = {}
      /\ pubObjects' = pubObjects \ {h} \/ pubObjects' = pubObjects
      /\ Finish \/ pubCall' = [op |-> "collect", left |-> left \ {h}]
      /\ UNCHANGED <<pubNow, pubCurrent, pubMeta, pubDescriptor, pubStaged, pubMissing, pubUnread>>
  BY <1>0, <1>1 DEF PubReclaim, CallIsSound, pubGhost
<1>3. PubTypeOK'
  <2>1. pubCall' \in PubCalls
    BY <1>2 DEF Finish, PubCalls
  <2>. QED  BY <1>0, <1>2, <2>1 DEF PubTypeOK
<1>4. Spares
  BY <1>2 DEF Spares, Known, Active, Fresh
<1>5. PubCurrentIsComplete' /\ PreparedIsWhole' /\ PubNeeded' \subseteq PubNeeded
  BY <1>3, <1>4, SparesKeep
<1>6. CallIsSound'
  <2>1. CASE pubCall' = [op |-> "collect", left |-> left \ {h}]
    BY <1>2, <1>5, <2>1 DEF CallIsSound, Doing
  <2>. QED  BY <1>2, <2>1, FinishIsSound
<1>. QED  BY <1>2, <1>3, <1>5, <1>6 DEF PubInv

---------------------------------------------------------------------------
\* At the start there is nothing to serve and nothing prepared.
LEMMA PubInitSound == PubInit => PubInv
<1> SUFFICES ASSUME PubInit PROVE PubInv
  OBVIOUS
<1>1. PubTypeOK
  BY DEF PubInit, PubTypeOK, PubRequests, NoMeta, PubCalls
<1>2. PubCurrentIsComplete /\ PreparedIsWhole /\ CallIsSound
  BY DEF PubInit, PubCurrentIsComplete, Bundle, PreparedIsWhole, Known, Active, CallIsSound, PubIdle, Doing
<1>. QED  BY <1>1, <1>2 DEF PubInv

\* Every step keeps the invariant.
LEMMA PubNextSound == PubInv /\ [PubNext]_pubVars => PubInv'
<1> SUFFICES ASSUME PubInv, [PubNext]_pubVars PROVE PubInv'
  OBVIOUS
<1>1. CASE UNCHANGED pubVars
  <2>1. UNCHANGED <<pubNow, pubCurrent, pubObjects, pubMeta, pubDescriptor, pubStaged, pubCall, pubMissing, pubUnread>>
    BY <1>1 DEF pubVars, pubStore, pubGhost
  <2>2. PubTypeOK'
    BY <2>1 DEF PubInv, PubTypeOK
  <2>3. PubCurrentIsComplete' /\ PreparedIsWhole' /\ CallIsSound'
    BY <2>1 DEF PubInv, PubCurrentIsComplete, PreparedIsWhole, CallIsSound, Known, Active,
       Fresh, Absent, PubNeeded, PubLive, Doing
  <2>. QED  BY <2>2, <2>3 DEF PubInv
<1>2. CASE PubClear
  <2>1. pubCall.request \in PubRequest /\ pubCurrent.id = pubCall.request
    BY <1>2, CallTyped DEF PubClear, PubInv, CallIsSound
  <2>. QED  BY <1>2, <2>1, ClearKeeps DEF PubClear
<1>3. ASSUME NEW r \in PubRequest, PubCleanup(r) PROVE PubInv'
  BY <1>3, ClearKeeps DEF PubCleanup
<1>4. ASSUME PubNext, ~PubClear, \A r \in PubRequest : ~PubCleanup(r) PROVE PubInv'
  BY <1>4, QuietSteps, PrepareKeeps, DescriptorKeeps, SwapKeeps, CollectKeeps, ReclaimKeeps
     DEF PubNext, PubRequests
<1>. QED  BY <1>1, <1>2, <1>3, <1>4

\* The inductive invariant: besides the promises, what the call under the lock
\* found and relies on.
THEOREM PublicationInvariant == PubSpec => []PubInv
BY PubInitSound, PubNextSound, PTL DEF PubSpec

\* Every object the pointer's manifest names is stored, and a fresh preparation
\* that every collection since its answer could read lacks only what its
\* publisher was told to upload.
THEOREM NeededIsKept == PubSpec => []PubNeededIsStored
<1>1. PubInv => PubNeededIsStored
  BY DEF PubInv, PubNeededIsStored, PreparedIsWhole, Known
<1>. QED  BY <1>1, PublicationInvariant, PTL

\* What leaves the store is named neither by the pointer nor by a fresh
\* preparation that the collections since its answer could read.
OnlyUnneededGoes == [][(pubObjects \ pubObjects') \cap PubNeeded = {}]_pubVars

\* No step of the janitor, or of anything else, takes an object that is needed.
THEOREM JanitorSparesNeeded == PubSpec => OnlyUnneededGoes
<1>1. ASSUME PubInv, [PubNext]_pubVars
      PROVE  [(pubObjects \ pubObjects') \cap PubNeeded = {}]_pubVars
  <2>1. ASSUME NEW h \in PubHash, PubReclaim(h) PROVE (pubObjects \ pubObjects') \cap PubNeeded = {}
    <3>1. h \notin PubNeeded /\ pubObjects \ {h} \subseteq pubObjects'
      BY <1>1, <2>1, ReclaimKeeps
    <3>. QED  BY <3>1
  <2>2. CASE \A h \in PubHash : ~PubReclaim(h)
    BY <1>1, <2>2 DEF PubNext, PubTick, PubBreak, PubPrepareAgain, PubPrepare, PubActivate, PubPutDescriptor,
       PubStage, PubPutBytes, PubPlace, PubMark, PubSwap, PubClear, PubCleanup, ClearStaging, PubCollect,
       PubCollected, pubStore
  <2>. QED  BY <2>1, <2>2
<1>. QED  BY <1>1, PublicationInvariant, PTL DEF PubSpec, OnlyUnneededGoes

---------------------------------------------------------------------------
(***************************************************************************)
(* What carries the mark of a complete backup is whole, for any deployments, *)
(* objects, processes, tasks and names.  The local and the remote half share *)
(* no state, so each has its invariant.                                    *)
(***************************************************************************)

\* No operation of the owner is dropped at an await.
NothingIsDropped == "drop" \notin BakFaults

Trees == [dep : BakDeployment \cup {BakNone}, rows : SUBSET BakObject, objects : SUBSET BakObject]
Jobs == [pc : {"idle", "listed", "staged", "copying", "verified", "restoring"},
         dep : BakDeployment \cup {BakNone}, id : BakId \cup {BakNone}, walked : SUBSET BakObject]
Tasks == [pc : {"idle", "copy", "clean", "sweep", "erase"}, id : BakId \cup {BakNone}, made : SUBSET BakObject]

WholeTree(tree) == tree.rows \subseteq tree.objects

LocalTypes ==
  /\ bakRows \in [BakDeployment -> SUBSET BakObject] /\ bakLive \in [BakDeployment -> SUBSET BakObject]
  /\ bakWriter \in [BakDeployment -> BakProcess \cup {"server", BakNone}]
  /\ bakJob \in [BakProcess -> Jobs]
  /\ bakPartial \in [BakProcess -> Trees \cup {BakNone}]
  /\ bakRoot \in [BakId -> Trees \cup {BakNone}] /\ bakTarget \in Trees \cup {BakNone}

\* A backup keeps its deployment stopped, so that what it listed is what there
\* is, and what its snapshot names is still the catalogue.
BackupIsSound(p) ==
  /\ bakJob[p].pc \in {"listed", "staged", "copying"} =>
       /\ bakJob[p].dep \in BakDeployment /\ bakJob[p].id \in BakId
       /\ bakWriter[bakJob[p].dep] = p
       /\ bakJob[p].walked = bakLive[bakJob[p].dep]
       /\ bakRows[bakJob[p].dep] \subseteq bakLive[bakJob[p].dep]
  /\ bakJob[p].pc \in {"staged", "copying", "restoring"} => bakPartial[p] \in Trees
  /\ bakJob[p].pc = "copying" => bakPartial[p].rows = bakRows[bakJob[p].dep]
  /\ bakJob[p].pc \in {"verified", "restoring"} => bakJob[p].id \in BakId /\ bakRoot[bakJob[p].id] \in Trees

TreesAreWhole ==
  /\ \A i \in BakId : bakRoot[i] # BakNone => bakRoot[i] \in Trees /\ WholeTree(bakRoot[i])
  /\ bakTarget # BakNone => WholeTree(bakTarget)

LocalInv == LocalTypes /\ TreesAreWhole /\ \A p \in BakProcess : BackupIsSound(p)

\* A claim is one task's; what is being erased has no marker, and gets none.
RemoteInv ==
  /\ bakTask \in [BakTask -> Tasks] /\ bakCopies \in [BakId -> SUBSET BakObject]
  /\ bakMarker \in [BakId -> (SUBSET BakObject) \cup {BakNone}] /\ bakFlying = {}
  /\ \A t \in BakTask : bakTask[t].pc # "idle" => bakTask[t].id \in BakId
  /\ \A t, u \in BakTask : bakTask[t].pc # "idle" /\ bakTask[u].id = bakTask[t].id => t = u
  /\ \A t \in BakTask : bakTask[t].pc = "erase" => bakMarker[bakTask[t].id] = BakNone
  /\ \A i \in BakId : bakMarker[i] # BakNone => bakMarker[i] \subseteq bakCopies[i]

---------------------------------------------------------------------------
(* Remote backups. *)

\* A task that ends, or goes on without a marker, leaves the others alone.
LEMMA TaskMoves ==
  ASSUME RemoteInv, NEW t \in BakTask, NEW new \in Tasks, bakTask' = [bakTask EXCEPT ![t] = new],
         \/ new = BakIdleTask
         \/ new.id = bakTask[t].id /\ bakTask[t].pc # "idle"
         \/ new.id \in BakId /\ BakUnclaimed(new.id),
         new.pc = "erase" => bakMarker'[new.id] = BakNone,
         \A u \in BakTask \ {t} : bakTask[u].pc = "erase" => bakMarker'[bakTask[u].id] = BakNone,
         bakCopies' \in [BakId -> SUBSET BakObject],
         bakMarker' \in [BakId -> (SUBSET BakObject) \cup {BakNone}],
         \A i \in BakId : bakMarker'[i] # BakNone => bakMarker'[i] \subseteq bakCopies'[i],
         bakFlying' = {}
  PROVE  RemoteInv'
<1>1. /\ bakTask' \in [BakTask -> Tasks] /\ bakTask'[t] = new
      /\ \A u \in BakTask \ {t} : bakTask'[u] = bakTask[u]
  BY DEF RemoteInv
<1>2. BakIdleTask.pc = "idle" /\ BakIdleTask.id = BakNone
  BY DEF BakIdleTask
<1>3. \A u \in BakTask : bakTask'[u].pc # "idle" => bakTask'[u].id \in BakId
  BY <1>1, <1>2 DEF RemoteInv
<1>4. ASSUME NEW u \in BakTask, NEW v \in BakTask, bakTask'[u].pc # "idle", bakTask'[v].id = bakTask'[u].id
      PROVE  u = v
  <2>1. bakTask'[u].id \in BakId /\ bakTask'[u].id # BakNone
    BY <1>3, <1>4, BakAssumption
  <2>2. CASE u # t /\ v # t
    BY <1>1, <1>4, <2>2 DEF RemoteInv
  <2>3. CASE u = t /\ v # t
    <3>1. new # BakIdleTask /\ bakTask[v].id = new.id
      BY <1>1, <1>2, <1>4, <2>3
    <3> QED BY <2>3, <3>1 DEF RemoteInv, BakUnclaimed
  <2>4. CASE u # t /\ v = t
    <3>1. /\ new # BakIdleTask /\ bakTask[u].id = new.id /\ bakTask[u].pc # "idle"
      BY <1>1, <1>2, <1>4, <2>1, <2>4
    <3> QED BY <2>4, <3>1 DEF RemoteInv, BakUnclaimed
  <2> QED BY <2>2, <2>3, <2>4
<1>5. \A u \in BakTask : bakTask'[u].pc = "erase" => bakMarker'[bakTask'[u].id] = BakNone
  BY <1>1
<1> QED BY <1>1, <1>3, <1>4, <1>5 DEF RemoteInv

\* What is written for one backup leaves the others.
LEMMA CopiesChange ==
  ASSUME NEW i \in BakId, NEW S \in SUBSET BakObject, RemoteInv, bakCopies' = [bakCopies EXCEPT ![i] = S]
  PROVE  /\ bakCopies' \in [BakId -> SUBSET BakObject] /\ bakCopies'[i] = S
         /\ \A j \in BakId \ {i} : bakCopies'[j] = bakCopies[j]
BY DEF RemoteInv

\* A creation claims its name, copies, and writes the marker of what it copied.
LEMMA CreateKeeps ==
  ASSUME RemoteInv, NEW t \in BakTask, (\E i \in BakId : BakCreate(t, i)) \/ (\E k \in BakObject : BakCopyRemote(t, k))
         \/ (\E k \in BakObject : BakCopyFails(t, k))
  PROVE  RemoteInv'
<1>1. ASSUME NEW i \in BakId, BakCreate(t, i) PROVE RemoteInv'
  <2>1. PICK new \in Tasks : new = [pc |-> "copy", id |-> i, made |-> {}]
    BY DEF Tasks
  <2>2. new.pc = "copy" /\ new.id = i
    BY <2>1
  <2>3. /\ bakTask' = [bakTask EXCEPT ![t] = new] /\ BakUnclaimed(i)
        /\ UNCHANGED <<bakCopies, bakMarker, bakFlying>>
    BY <1>1, <2>1 DEF BakCreate
  <2> QED BY <2>2, <2>3, TaskMoves DEF RemoteInv
<1>2. ASSUME NEW k \in BakObject, BakCopyRemote(t, k) PROVE RemoteInv'
  <2>1. PICK task \in Tasks : task = bakTask[t]
    BY DEF RemoteInv
  <2>2. PICK i \in BakId : i = task.id
    BY <1>2, <2>1 DEF BakCopyRemote, BakTaskAt, RemoteInv
  <2>3. PICK S \in SUBSET BakObject : S = bakCopies[i] \cup {k}
    BY <2>2 DEF RemoteInv
  <2>4. PICK made \in SUBSET BakObject : made = task.made \cup {k}
    BY <2>1 DEF Tasks
  <2>5. PICK new : new = [task EXCEPT !.made = made]
    OBVIOUS
  <2>6. new \in Tasks /\ new.pc = task.pc /\ new.id = i
    BY <2>2, <2>5 DEF Tasks
  <2>7. /\ bakCopies' = [bakCopies EXCEPT ![i] = S] /\ bakTask' = [bakTask EXCEPT ![t] = new]
        /\ UNCHANGED <<bakMarker, bakFlying>> /\ task.pc = "copy"
    BY <1>2, <2>1, <2>2, <2>3, <2>4, <2>5 DEF BakCopyRemote, BakTaskAt, RemoteInv
  <2>8. /\ bakCopies' \in [BakId -> SUBSET BakObject]
        /\ \A j \in BakId : bakCopies[j] \subseteq bakCopies'[j]
    BY <2>2, <2>3, <2>7, CopiesChange
  <2>9. \A j \in BakId : bakMarker'[j] # BakNone => bakMarker'[j] \subseteq bakCopies'[j]
    BY <2>7, <2>8 DEF RemoteInv
  <2> QED BY <2>1, <2>2, <2>6, <2>7, <2>8, <2>9, TaskMoves DEF RemoteInv
<1>3. ASSUME NEW k \in BakObject, BakCopyFails(t, k) PROVE RemoteInv'
  <2>1. PICK task \in Tasks : task = bakTask[t]
    BY DEF RemoteInv
  <2>2. PICK i \in BakId : i = task.id
    BY <1>3, <2>1 DEF BakCopyFails, BakTaskAt, RemoteInv
  <2>3. PICK new : new = [task EXCEPT !.pc = "clean"]
    OBVIOUS
  <2>4. new \in Tasks /\ new.pc = "clean" /\ new.id = i
    BY <2>2, <2>3 DEF Tasks
  <2>5. /\ bakTask' = [bakTask EXCEPT ![t] = new] /\ task.pc = "copy"
        /\ UNCHANGED <<bakMarker, bakFlying>>
    BY <1>3, <2>1, <2>3 DEF BakCopyFails, BakTaskAt, RemoteInv
  <2>6. /\ bakCopies' \in [BakId -> SUBSET BakObject]
        /\ \A j \in BakId : bakCopies[j] \subseteq bakCopies'[j]
    <3>1. CASE bakCopies' = bakCopies
      BY <3>1 DEF RemoteInv
    <3>2. CASE bakCopies' # bakCopies
      <4>1. PICK S \in SUBSET BakObject : S = bakCopies[i] \cup {k}
        BY <2>2 DEF RemoteInv
      <4>2. bakCopies' = [bakCopies EXCEPT ![i] = S]
        <5>1. bakCopies' = [bakCopies EXCEPT ![bakTask[t].id] = @ \cup {k}]
          BY <1>3, <3>2 DEF BakCopyFails
        <5> QED BY <2>1, <2>2, <4>1, <5>1
      <4>3. /\ bakCopies' \in [BakId -> SUBSET BakObject] /\ bakCopies'[i] = S
            /\ \A j \in BakId \ {i} : bakCopies'[j] = bakCopies[j]
        BY <4>2, CopiesChange
      <4> QED BY <2>2, <4>1, <4>3
    <3> QED BY <3>1, <3>2
  <2>7. \A j \in BakId : bakMarker'[j] # BakNone => bakMarker'[j] \subseteq bakCopies'[j]
    BY <2>5, <2>6 DEF RemoteInv
  <2> QED BY <2>1, <2>2, <2>4, <2>5, <2>6, <2>7, TaskMoves DEF RemoteInv
<1> QED BY <1>1, <1>2, <1>3

\* The marker is written once, by who holds the name, over what is copied.
LEMMA MarkKeeps ==
  ASSUME RemoteInv, NEW t \in BakTask, BakMark(t)
  PROVE  RemoteInv'
<1>1. PICK task \in Tasks : task = bakTask[t]
  BY DEF RemoteInv
<1>2. PICK i \in BakId : i = task.id
  BY <1>1 DEF BakMark, BakTaskAt, RemoteInv
<1>3. PICK clean \in Tasks : clean = [task EXCEPT !.pc = "clean"] /\ clean.pc = "clean" /\ clean.id = i
  <2>1. PICK clean : clean = [task EXCEPT !.pc = "clean"]
    OBVIOUS
  <2>2. clean \in Tasks /\ clean.pc = "clean" /\ clean.id = i
    BY <1>2, <2>1 DEF Tasks
  <2> QED BY <2>1, <2>2
<1>4. BakIdleTask \in Tasks /\ BakIdleTask.pc = "idle"
  BY DEF BakIdleTask, Tasks
<1>5. /\ task.pc = "copy" /\ UNCHANGED <<bakCopies, bakFlying>>
      /\ bakTask' = [bakTask EXCEPT ![t] = clean] \/ bakTask' = [bakTask EXCEPT ![t] = BakIdleTask]
  BY <1>1, <1>3 DEF BakMark, BakEnd, BakTaskAt, RemoteInv
<1>6. /\ bakMarker' \in [BakId -> (SUBSET BakObject) \cup {BakNone}]
      /\ \A j \in BakId \ {i} : bakMarker'[j] = bakMarker[j]
      /\ bakMarker'[i] # BakNone => bakMarker'[i] \subseteq bakCopies[i]
  <2>1. CASE bakMarker' = bakMarker
    BY <2>1, <1>2 DEF RemoteInv
  <2>2. CASE bakMarker' # bakMarker
    <3>1. PICK S \in SUBSET BakObject : S = task.made
      BY DEF Tasks
    <3>2. bakMarker' = [bakMarker EXCEPT ![i] = S] /\ S \subseteq bakCopies[i]
      BY <1>1, <1>2, <2>2, <3>1 DEF BakMark
    <3> QED BY <1>2, <3>1, <3>2 DEF RemoteInv
  <2> QED BY <2>1, <2>2
<1>7. \A u \in BakTask \ {t} : bakTask[u].pc = "erase" => bakMarker'[bakTask[u].id] = BakNone
  <2>1. ASSUME NEW u \in BakTask \ {t}, bakTask[u].pc = "erase" PROVE bakMarker'[bakTask[u].id] = BakNone
    <3>1. bakTask[u].id \in BakId /\ bakTask[u].id # i /\ bakMarker[bakTask[u].id] = BakNone
      BY <1>1, <1>2, <2>1 DEF RemoteInv
    <3> QED BY <1>6, <3>1
  <2> QED BY <2>1
<1>8. \A j \in BakId : bakMarker'[j] # BakNone => bakMarker'[j] \subseteq bakCopies'[j]
  BY <1>5, <1>6 DEF RemoteInv
<1>9. bakFlying' = {} /\ bakCopies' \in [BakId -> SUBSET BakObject]
  BY <1>5 DEF RemoteInv
<1>10. CASE bakTask' = [bakTask EXCEPT ![t] = clean]
  BY <1>1, <1>2, <1>3, <1>5, <1>6, <1>7, <1>8, <1>9, <1>10, TaskMoves
<1>11. CASE bakTask' = [bakTask EXCEPT ![t] = BakIdleTask]
  BY <1>4, <1>6, <1>7, <1>8, <1>9, <1>11, TaskMoves
<1> QED BY <1>5, <1>10, <1>11

\* Nothing is deleted below a marker: an attempt looks again, and a sweep holds
\* the name until it has deleted.
LEMMA CleanKeeps ==
  ASSUME RemoteInv, NEW t \in BakTask, BakClean(t) \/ BakErase(t)
  PROVE  RemoteInv'
<1>1. PICK i \in BakId : i = bakTask[t].id
  BY DEF BakClean, BakErase, BakTaskAt, RemoteInv
<1>2. PICK S \in SUBSET BakObject : S = bakCopies[i] \ bakTask[t].made
  BY <1>1 DEF RemoteInv
<1>3. /\ bakTask' = [bakTask EXCEPT ![t] = BakIdleTask] /\ UNCHANGED <<bakMarker, bakFlying>>
      /\ bakCopies' = bakCopies \/ (bakCopies' = [bakCopies EXCEPT ![i] = S] /\ bakMarker[i] = BakNone)
  BY <1>1, <1>2 DEF BakClean, BakErase, BakEnd, BakTaskAt, MarkerAbsent, RemoteInv
<1>4. BakIdleTask \in Tasks /\ BakIdleTask.pc = "idle"
  BY DEF BakIdleTask, Tasks
<1>5. bakCopies' \in [BakId -> SUBSET BakObject]
  BY <1>2, <1>3, CopiesChange DEF RemoteInv
<1>6. \A j \in BakId : bakMarker'[j] # BakNone => bakMarker'[j] \subseteq bakCopies'[j]
  <2>1. CASE bakCopies' = bakCopies
    BY <1>3, <2>1 DEF RemoteInv
  <2>2. CASE bakCopies' = [bakCopies EXCEPT ![i] = S] /\ bakMarker[i] = BakNone
    BY <1>1, <1>2, <1>3, <2>2, CopiesChange DEF RemoteInv
  <2> QED BY <1>3, <2>1, <2>2
<1> QED BY <1>3, <1>4, <1>5, <1>6, TaskMoves DEF RemoteInv

\* A sweep claims its name and looks twice.
LEMMA SweepKeeps ==
  ASSUME RemoteInv, NEW t \in BakTask, (\E i \in BakId : BakSweep(t, i)) \/ BakSwept(t)
  PROVE  RemoteInv'
<1>1. ASSUME NEW i \in BakId, BakSweep(t, i) PROVE RemoteInv'
  <2>1. PICK S \in SUBSET BakObject : S = bakCopies[i]
    BY DEF RemoteInv
  <2>2. PICK new : new = [pc |-> "sweep", id |-> i, made |-> S]
    OBVIOUS
  <2>3. new \in Tasks /\ new.pc = "sweep" /\ new.id = i
    BY <2>2 DEF Tasks
  <2>4. /\ bakTask' = [bakTask EXCEPT ![t] = new] /\ BakUnclaimed(i)
        /\ UNCHANGED <<bakCopies, bakMarker, bakFlying>>
    BY <1>1, <2>1, <2>2 DEF BakSweep
  <2> QED BY <2>3, <2>4, TaskMoves DEF RemoteInv
<1>2. CASE BakSwept(t)
  <2>1. PICK task \in Tasks : task = bakTask[t]
    BY DEF RemoteInv
  <2>2. PICK new : new = [task EXCEPT !.pc = "erase"]
    OBVIOUS
  <2>3. new \in Tasks /\ new.pc = "erase" /\ new.id = task.id /\ task.pc = "sweep"
    BY <1>2, <2>1, <2>2 DEF Tasks, BakSwept, BakTaskAt
  <2>4. BakIdleTask \in Tasks /\ BakIdleTask.pc = "idle"
    BY DEF BakIdleTask, Tasks
  <2>5. /\ UNCHANGED <<bakCopies, bakMarker, bakFlying>>
        /\ \/ bakTask' = [bakTask EXCEPT ![t] = new] /\ bakMarker[task.id] = BakNone
           \/ bakTask' = [bakTask EXCEPT ![t] = BakIdleTask]
    BY <1>2, <2>1, <2>2 DEF BakSwept, BakEnd, MarkerAbsent, RemoteInv
  <2> QED BY <2>1, <2>3, <2>4, <2>5, TaskMoves DEF RemoteInv
<1> QED BY <1>1, <1>2

\* Every step of the owner, of its server and of a restore.
LEMMA RemoteKeeps ==
  ASSUME NothingIsDropped, RemoteInv, BakRemoteNext
  PROVE  RemoteInv'
<1>1. ASSUME NEW t \in BakTask, BakDropTask(t) PROVE FALSE
  BY <1>1 DEF BakDropTask, BakFailing, NothingIsDropped
<1>2. ASSUME (\E k \in BakObject : BakRetireSource(k)) \/ (\E i \in BakId : BakRestoreRemote(i))
      PROVE  RemoteInv'
  BY <1>2 DEF BakRetireSource, BakRestoreRemote, RemoteInv
<1>3. ASSUME NEW w \in bakFlying, BakLand(w) PROVE FALSE
  BY <1>3 DEF RemoteInv
<1>4. CASE BakOwnerCrash
  <2>1. /\ bakTask' = [t \in BakTask |-> BakIdleTask] /\ UNCHANGED <<bakCopies, bakMarker, bakFlying>>
    BY <1>4 DEF BakOwnerCrash
  <2>2. BakIdleTask \in Tasks /\ BakIdleTask.pc = "idle"
    BY DEF BakIdleTask, Tasks
  <2> QED BY <2>1, <2>2 DEF RemoteInv
<1> QED BY <1>1, <1>2, <1>3, <1>4, CreateKeeps, MarkKeeps, CleanKeeps, SweepKeeps DEF BakRemoteNext

---------------------------------------------------------------------------
(* Local backups and restores. *)

\* Nobody but its process touches a job, its tree and the locks it holds.
LEMMA Untouched ==
  ASSUME LocalInv, NEW q \in BakProcess, LocalTypes',
         bakJob'[q] = bakJob[q], bakPartial'[q] = bakPartial[q],
         \A d \in BakDeployment : bakWriter[d] = q =>
           bakWriter'[d] = q /\ bakRows'[d] = bakRows[d] /\ bakLive'[d] = bakLive[d],
         \A i \in BakId : bakRoot[i] \in Trees => bakRoot'[i] \in Trees
  PROVE  BackupIsSound(q)'
<1>1. BackupIsSound(q)
  BY DEF LocalInv
<1>2. ASSUME bakJob[q].pc \in {"listed", "staged", "copying"}
      PROVE  /\ bakJob[q].dep \in BakDeployment /\ bakWriter[bakJob[q].dep] = q
             /\ bakWriter'[bakJob[q].dep] = q /\ bakRows'[bakJob[q].dep] = bakRows[bakJob[q].dep]
             /\ bakLive'[bakJob[q].dep] = bakLive[bakJob[q].dep]
  BY <1>1, <1>2 DEF BackupIsSound
<1> QED BY <1>1, <1>2 DEF BackupIsSound

\* The server works only while nobody backs its deployment up.
LEMMA ServeKeeps ==
  ASSUME LocalInv, NEW d \in BakDeployment, BakServe(d) \/ \E k \in BakObject : BakWork(d, k)
  PROVE  LocalInv'
<1>1. /\ UNCHANGED <<bakJob, bakPartial, bakRoot, bakTarget>>
      /\ bakWriter[d] \in {"server", BakNone}
      /\ \A e \in BakDeployment \ {d} :
           bakWriter'[e] = bakWriter[e] /\ bakRows'[e] = bakRows[e] /\ bakLive'[e] = bakLive[e]
  BY DEF BakServe, BakWork, LocalInv, LocalTypes
<1>2. LocalTypes'
  <2>1. CASE BakServe(d)
    BY <2>1 DEF BakServe, LocalInv, LocalTypes
  <2>2. ASSUME NEW k \in BakObject, BakWork(d, k) PROVE LocalTypes'
    BY <2>2 DEF BakWork, LocalInv, LocalTypes
  <2> QED BY <2>1, <2>2
<1>3. ASSUME NEW q \in BakProcess PROVE BackupIsSound(q)'
  <2>1. bakWriter[d] # q
    BY <1>1, BakAssumption
  <2> QED BY <1>1, <1>2, <2>1, Untouched
<1>4. TreesAreWhole'
  BY <1>1 DEF LocalInv, TreesAreWhole
<1> QED BY <1>2, <1>3, <1>4 DEF LocalInv

\* A step of process p within its attempt: others are untouched.
LEMMA AttemptKeeps ==
  ASSUME LocalInv, NEW p \in BakProcess, NEW job \in Jobs, bakJob' = [bakJob EXCEPT ![p] = job],
         NEW tree \in Trees \cup {BakNone}, bakPartial' = [bakPartial EXCEPT ![p] = tree],
         UNCHANGED <<bakRows, bakLive>>,
         bakWriter' \in [BakDeployment -> BakProcess \cup {"server", BakNone}],
         \A d \in BakDeployment : bakWriter[d] \in BakProcess \ {p} => bakWriter'[d] = bakWriter[d],
         bakRoot' \in [BakId -> Trees \cup {BakNone}], bakTarget' \in Trees \cup {BakNone},
         \A i \in BakId : bakRoot[i] \in Trees => bakRoot'[i] \in Trees,
         TreesAreWhole', BackupIsSound(p)'
  PROVE  LocalInv'
<1>1. LocalTypes'
  BY DEF LocalInv, LocalTypes
<1>2. ASSUME NEW q \in BakProcess \ {p} PROVE BackupIsSound(q)'
  <2>1. bakJob'[q] = bakJob[q] /\ bakPartial'[q] = bakPartial[q]
    BY DEF LocalInv, LocalTypes
  <2> QED BY <1>1, <2>1, Untouched
<1> QED BY <1>1, <1>2 DEF LocalInv

\* An attempt that ends gives its locks back.
LEMMA ReleaseLeaves ==
  ASSUME LocalInv, NEW p \in BakProcess, BakRelease(p)
  PROVE  /\ BakIdleJob \in Jobs /\ BakIdleJob.pc = "idle" /\ bakJob' = [bakJob EXCEPT ![p] = BakIdleJob]
         /\ bakWriter' \in [BakDeployment -> BakProcess \cup {"server", BakNone}]
         /\ \A d \in BakDeployment : bakWriter[d] \in BakProcess \ {p} => bakWriter'[d] = bakWriter[d]
         /\ bakJob'[p] = BakIdleJob
BY DEF BakRelease, BakIdleJob, Jobs, LocalInv, LocalTypes

\* It begins when what the catalogue names is there, and nobody else is at work.
LEMMA BeginBackupKeeps ==
  ASSUME LocalInv, NEW p \in BakProcess, NEW d \in BakDeployment, NEW i \in BakId, BakBegin(p, d, i)
  PROVE  LocalInv'
<1>1. PICK S \in SUBSET BakObject : S = bakLive[d]
  BY DEF LocalInv, LocalTypes
<1>2. PICK job : job = [pc |-> "listed", dep |-> d, id |-> i, walked |-> S]
  OBVIOUS
<1>3. job \in Jobs /\ job.pc = "listed" /\ job.dep = d /\ job.id = i /\ job.walked = S
  BY <1>2 DEF Jobs
<1>4. /\ bakJob' = [bakJob EXCEPT ![p] = job] /\ bakWriter' = [bakWriter EXCEPT ![d] = p]
      /\ bakWriter[d] = BakNone /\ bakRows[d] \subseteq bakLive[d]
      /\ UNCHANGED <<bakRows, bakLive, bakPartial, bakRoot, bakTarget>>
  BY <1>1, <1>2 DEF BakBegin, LockFree, GraphIsThere
<1>5. PICK tree \in Trees \cup {BakNone} : bakPartial' = [bakPartial EXCEPT ![p] = tree]
  <2>1. bakPartial' = [bakPartial EXCEPT ![p] = bakPartial[p]] /\ bakPartial[p] \in Trees \cup {BakNone}
    BY <1>4 DEF LocalInv, LocalTypes
  <2> QED BY <2>1
<1>6. BackupIsSound(p)'
  <2>1. bakJob'[p] = job /\ bakWriter'[d] = p
    BY <1>4 DEF LocalInv, LocalTypes
  <2> QED BY <1>1, <1>3, <1>4, <2>1 DEF BackupIsSound
<1>7. TreesAreWhole'
  BY <1>4 DEF LocalInv, TreesAreWhole
<1>8. /\ bakWriter' \in [BakDeployment -> BakProcess \cup {"server", BakNone}]
      /\ \A e \in BakDeployment : bakWriter[e] \in BakProcess \ {p} => bakWriter'[e] = bakWriter[e]
  BY <1>4, BakAssumption DEF LocalInv, LocalTypes
<1>9. /\ bakRoot' \in [BakId -> Trees \cup {BakNone}] /\ bakTarget' \in Trees \cup {BakNone}
      /\ \A j \in BakId : bakRoot[j] \in Trees => bakRoot'[j] \in Trees
  BY <1>4 DEF LocalInv, LocalTypes
<1> QED BY <1>3, <1>4, <1>5, <1>6, <1>7, <1>8, <1>9, AttemptKeeps

\* It stages, snapshots and copies while its deployment is stopped.
LEMMA CopyKeeps ==
  ASSUME LocalInv, NEW p \in BakProcess,
         BakStage(p) \/ BakSnapshot(p) \/ \E k \in BakObject : BakCopy(p, k)
  PROVE  LocalInv'
<1>1. PICK job \in Jobs : job = bakJob[p]
  BY DEF LocalInv, LocalTypes
<1>2. /\ job.pc \in {"listed", "staged", "copying"}
      /\ UNCHANGED <<bakRows, bakLive, bakWriter, bakRoot, bakTarget>>
  BY <1>1 DEF BakStage, BakSnapshot, BakCopy, BakJobAt
<1>3. PICK d \in BakDeployment : d = job.dep
  BY <1>1, <1>2 DEF LocalInv, BackupIsSound
<1>4. /\ job.id \in BakId /\ bakWriter[d] = p /\ job.walked = bakLive[d] /\ bakRows[d] \subseteq bakLive[d]
  BY <1>1, <1>2, <1>3 DEF LocalInv, BackupIsSound
<1>5. TreesAreWhole'
  BY <1>2 DEF LocalInv, TreesAreWhole
<1>6. /\ bakWriter' \in [BakDeployment -> BakProcess \cup {"server", BakNone}]
      /\ bakRoot' \in [BakId -> Trees \cup {BakNone}] /\ bakTarget' \in Trees \cup {BakNone}
  BY <1>2 DEF LocalInv, LocalTypes
<1>7. ASSUME NEW new \in Jobs, NEW tree \in Trees, bakJob' = [bakJob EXCEPT ![p] = new],
             bakPartial' = [bakPartial EXCEPT ![p] = tree],
             new.pc \in {"staged", "copying"}, new.dep = d, new.id = job.id, new.walked = job.walked,
             new.pc = "copying" => tree.rows = bakRows[d]
      PROVE  LocalInv'
  <2>1. bakJob'[p] = new /\ bakPartial'[p] = tree
    BY <1>7 DEF LocalInv, LocalTypes
  <2>2. BackupIsSound(p)'
    BY <1>2, <1>3, <1>4, <1>7, <2>1 DEF BackupIsSound
  <2> QED BY <1>2, <1>5, <1>6, <1>7, <2>2, AttemptKeeps
<1>8. CASE BakStage(p)
  <2>1. PICK tree \in Trees : tree = [dep |-> d, rows |-> {}, objects |-> {}]
    BY DEF Trees
  <2>2. PICK new : new = [job EXCEPT !.pc = "staged"]
    OBVIOUS
  <2>3. new \in Jobs /\ new.pc = "staged" /\ new.dep = d /\ new.id = job.id /\ new.walked = job.walked
    BY <1>3, <2>2 DEF Jobs
  <2>4. bakJob' = [bakJob EXCEPT ![p] = new] /\ bakPartial' = [bakPartial EXCEPT ![p] = tree]
    BY <1>1, <1>3, <1>8, <2>1, <2>2 DEF BakStage
  <2> QED BY <1>7, <2>3, <2>4
<1>9. CASE BakSnapshot(p)
  <2>1. PICK old \in Trees : old = bakPartial[p]
    BY <1>9 DEF BakSnapshot, BakJobAt, LocalInv, BackupIsSound
  <2>2. PICK rows \in SUBSET BakObject : rows = bakRows[d]
    BY DEF LocalInv, LocalTypes
  <2>3. PICK tree : tree = [old EXCEPT !.rows = rows]
    OBVIOUS
  <2>4. tree \in Trees /\ tree.rows = rows
    BY <2>3 DEF Trees
  <2>5. PICK new : new = [job EXCEPT !.pc = "copying"]
    OBVIOUS
  <2>6. new \in Jobs /\ new.pc = "copying" /\ new.dep = d /\ new.id = job.id /\ new.walked = job.walked
    BY <1>3, <2>5 DEF Jobs
  <2>7. bakJob' = [bakJob EXCEPT ![p] = new] /\ bakPartial' = [bakPartial EXCEPT ![p] = tree]
    BY <1>1, <1>3, <1>9, <2>1, <2>2, <2>3, <2>5 DEF BakSnapshot
  <2> QED BY <1>7, <2>2, <2>4, <2>6, <2>7
<1>10. ASSUME NEW k \in BakObject, BakCopy(p, k) PROVE LocalInv'
  <2>1. job.pc = "copying" /\ bakJob' = [bakJob EXCEPT ![p] = job]
    BY <1>1, <1>10 DEF BakCopy, BakJobAt, LocalInv, LocalTypes
  <2>2. PICK old \in Trees : old = bakPartial[p] /\ old.rows = bakRows[d]
    BY <1>1, <1>3, <2>1 DEF LocalInv, BackupIsSound
  <2>3. PICK objects \in SUBSET BakObject : objects = old.objects \cup {k}
    BY DEF Trees
  <2>4. PICK tree : tree = [old EXCEPT !.objects = objects]
    OBVIOUS
  <2>5. tree \in Trees /\ tree.rows = old.rows
    BY <2>4 DEF Trees
  <2>6. bakPartial' = [bakPartial EXCEPT ![p] = tree]
    BY <1>10, <2>2, <2>3, <2>4 DEF BakCopy
  <2> QED BY <1>3, <1>7, <2>1, <2>2, <2>5, <2>6
<1> QED BY <1>8, <1>9, <1>10

\* What is renamed into place holds what it names.
LEMMA PublishKeeps ==
  ASSUME LocalInv, NEW p \in BakProcess, BakPublish(p) \/ BakRestorePublish(p)
  PROVE  LocalInv'
<1>1. PICK job \in Jobs : job = bakJob[p]
  BY DEF LocalInv, LocalTypes
<1>2. PICK tree \in Trees : tree = bakPartial[p]
  BY DEF BakPublish, BakRestorePublish, BakJobAt, LocalInv, BackupIsSound
<1>3. BakRelease(p) /\ bakPartial' = [bakPartial EXCEPT ![p] = BakNone] /\ UNCHANGED <<bakRows, bakLive>>
  BY DEF BakPublish, BakRestorePublish
<1>4. WholeTree(tree)
  <2>1. CASE BakPublish(p)
    BY <1>1, <1>2, <2>1 DEF BakPublish, BakJobAt, CopiedAll, LocalInv, BackupIsSound, WholeTree
  <2>2. CASE BakRestorePublish(p)
    BY <1>2, <2>2 DEF BakRestorePublish, ReferencesResolve, WholeTree
  <2> QED BY <2>1, <2>2
<1>5. /\ bakRoot' \in [BakId -> Trees \cup {BakNone}] /\ bakTarget' \in Trees \cup {BakNone}
      /\ \A i \in BakId : bakRoot[i] \in Trees => bakRoot'[i] \in Trees
      /\ TreesAreWhole'
  <2>1. CASE BakPublish(p)
    <3>1. PICK i \in BakId : i = job.id
      BY <1>1, <2>1 DEF BakPublish, BakJobAt, LocalInv, BackupIsSound
    <3>2. bakRoot' = [bakRoot EXCEPT ![i] = tree] /\ bakTarget' = bakTarget
      BY <1>1, <1>2, <2>1, <3>1 DEF BakPublish
    <3> QED BY <1>4, <3>2 DEF LocalInv, LocalTypes, TreesAreWhole
  <2>2. CASE BakRestorePublish(p)
    <3>1. bakRoot' = bakRoot /\ bakTarget' \in {tree, bakTarget}
      BY <1>2, <2>2 DEF BakRestorePublish
    <3> QED BY <1>4, <3>1 DEF LocalInv, LocalTypes, TreesAreWhole
  <2> QED BY <2>1, <2>2
<1>6. BackupIsSound(p)'
  BY <1>3, ReleaseLeaves DEF BackupIsSound
<1> QED BY <1>3, <1>5, <1>6, ReleaseLeaves, AttemptKeeps

\* An attempt that fails, or whose process dies, leaves at most its tree.
LEMMA GiveUpKeeps ==
  ASSUME LocalInv, NEW p \in BakProcess, BakGiveUp(p)
  PROVE  LocalInv'
<1>1. BakRelease(p) /\ UNCHANGED <<bakRows, bakLive, bakRoot, bakTarget>>
  BY DEF BakGiveUp
<1>2. PICK tree \in Trees \cup {BakNone} : bakPartial' = [bakPartial EXCEPT ![p] = tree]
  <2>1. bakPartial[p] \in Trees \cup {BakNone} /\ bakPartial = [bakPartial EXCEPT ![p] = bakPartial[p]]
    BY DEF LocalInv, LocalTypes
  <2>2. bakPartial' = bakPartial \/ bakPartial' = [bakPartial EXCEPT ![p] = BakNone]
    BY DEF BakGiveUp
  <2> QED BY <2>1, <2>2
<1>3. BackupIsSound(p)'
  BY <1>1, ReleaseLeaves DEF BackupIsSound
<1>4. TreesAreWhole'
  BY <1>1 DEF LocalInv, TreesAreWhole
<1>5. /\ bakRoot' \in [BakId -> Trees \cup {BakNone}] /\ bakTarget' \in Trees \cup {BakNone}
      /\ \A i \in BakId : bakRoot[i] \in Trees => bakRoot'[i] \in Trees
  BY <1>1 DEF LocalInv, LocalTypes
<1> QED BY <1>1, <1>2, <1>3, <1>4, <1>5, ReleaseLeaves, AttemptKeeps

\* A restore copies a tree that nobody changes.
LEMMA RestoreKeeps ==
  ASSUME LocalInv, NEW p \in BakProcess,
         (\E i \in BakId : BakRestore(p, i)) \/ BakRestoreStage(p) \/ (\E k \in BakObject : BakRestoreCopy(p, k))
  PROVE  LocalInv'
<1>1. PICK job \in Jobs : job = bakJob[p]
  BY DEF LocalInv, LocalTypes
<1>2. /\ UNCHANGED <<bakRows, bakLive, bakWriter, bakRoot, bakTarget>>
      /\ job.pc \in {"idle", "verified", "restoring"}
  BY <1>1 DEF BakRestore, BakRestoreStage, BakRestoreCopy, BakJobAt
<1>3. TreesAreWhole'
  BY <1>2 DEF LocalInv, TreesAreWhole
<1>4. /\ bakWriter' \in [BakDeployment -> BakProcess \cup {"server", BakNone}]
      /\ bakRoot' \in [BakId -> Trees \cup {BakNone}] /\ bakTarget' \in Trees \cup {BakNone}
  BY <1>2 DEF LocalInv, LocalTypes
<1>5. ASSUME NEW new \in Jobs, NEW tree \in Trees \cup {BakNone}, bakJob' = [bakJob EXCEPT ![p] = new],
             bakPartial' = [bakPartial EXCEPT ![p] = tree],
             new.pc \in {"verified", "restoring"}, new.id \in BakId, bakRoot[new.id] \in Trees,
             new.pc = "restoring" => tree \in Trees
      PROVE  LocalInv'
  <2>1. bakJob'[p] = new /\ bakPartial'[p] = tree
    BY <1>5 DEF LocalInv, LocalTypes
  <2>2. BackupIsSound(p)'
    BY <1>2, <1>5, <2>1 DEF BackupIsSound
  <2> QED BY <1>2, <1>3, <1>4, <1>5, <2>2, AttemptKeeps
<1>6. ASSUME NEW i \in BakId, BakRestore(p, i) PROVE LocalInv'
  <2>1. PICK new : new = [BakIdleJob EXCEPT !.pc = "verified", !.id = i]
    OBVIOUS
  <2>2. new = [pc |-> "verified", dep |-> BakNone, id |-> i, walked |-> {}]
    BY <2>1, Zenon DEF BakIdleJob
  <2>3. new \in Jobs /\ new.pc = "verified" /\ new.id = i
    BY <2>2 DEF Jobs
  <2>4. PICK tree \in Trees \cup {BakNone} : bakPartial' = [bakPartial EXCEPT ![p] = tree]
    <3>1. bakPartial' = [bakPartial EXCEPT ![p] = bakPartial[p]] /\ bakPartial[p] \in Trees \cup {BakNone}
      BY <1>6 DEF BakRestore, LocalInv, LocalTypes
    <3> QED BY <3>1
  <2>5. bakJob' = [bakJob EXCEPT ![p] = new] /\ bakRoot[i] \in Trees
    BY <1>6, <2>1 DEF BakRestore, LocalInv, TreesAreWhole
  <2> QED BY <1>5, <2>3, <2>4, <2>5
<1>7. CASE BakRestoreStage(p)
  <2>1. PICK old \in Trees : old = bakRoot[job.id] /\ job.id \in BakId
    BY <1>1, <1>7 DEF BakRestoreStage, BakJobAt, LocalInv, BackupIsSound
  <2>2. PICK tree : tree = [old EXCEPT !.objects = {}]
    OBVIOUS
  <2>3. tree \in Trees
    BY <2>2 DEF Trees
  <2>4. PICK new : new = [job EXCEPT !.pc = "restoring"]
    OBVIOUS
  <2>5. new \in Jobs /\ new.pc = "restoring" /\ new.id = job.id
    BY <2>4 DEF Jobs
  <2>6. bakJob' = [bakJob EXCEPT ![p] = new] /\ bakPartial' = [bakPartial EXCEPT ![p] = tree]
    BY <1>1, <1>7, <2>1, <2>2, <2>4 DEF BakRestoreStage
  <2> QED BY <1>5, <2>1, <2>3, <2>5, <2>6
<1>8. ASSUME NEW k \in BakObject, BakRestoreCopy(p, k) PROVE LocalInv'
  <2>1. PICK old \in Trees : old = bakPartial[p]
    BY <1>8 DEF BakRestoreCopy, BakJobAt, LocalInv, BackupIsSound
  <2>2. PICK objects \in SUBSET BakObject : objects = old.objects \cup {k}
    BY DEF Trees
  <2>3. PICK tree : tree = [old EXCEPT !.objects = objects]
    OBVIOUS
  <2>4. tree \in Trees
    BY <2>3 DEF Trees
  <2>5. bakJob' = [bakJob EXCEPT ![p] = job] /\ bakPartial' = [bakPartial EXCEPT ![p] = tree]
    BY <1>1, <1>8, <2>1, <2>2, <2>3 DEF BakRestoreCopy, LocalInv, LocalTypes
  <2>6. job.pc = "restoring" /\ job.id \in BakId /\ bakRoot[job.id] \in Trees
    BY <1>1, <1>8 DEF BakRestoreCopy, BakJobAt, LocalInv, BackupIsSound
  <2> QED BY <1>5, <2>4, <2>5, <2>6
<1> QED BY <1>6, <1>7, <1>8

---------------------------------------------------------------------------
\* At first there is no backup.
LEMMA BakInitSound == BakInit => LocalInv /\ RemoteInv
<1> SUFFICES ASSUME BakInit PROVE LocalInv /\ RemoteInv
  OBVIOUS
<1>1. BakIdleJob \in Jobs /\ BakIdleJob.pc = "idle"
  BY DEF BakIdleJob, Jobs
<1>2. BakIdleTask \in Tasks /\ BakIdleTask.pc = "idle"
  BY DEF BakIdleTask, Tasks
<1>3. LocalTypes
  BY <1>1 DEF BakInit, LocalTypes
<1>4. TreesAreWhole /\ \A p \in BakProcess : BackupIsSound(p)
  BY <1>1 DEF BakInit, TreesAreWhole, BackupIsSound
<1>5. RemoteInv
  <2>1. bakTask \in [BakTask -> Tasks] /\ \A t \in BakTask : bakTask[t].pc = "idle"
    BY <1>2 DEF BakInit
  <2>2. bakCopies \in [BakId -> SUBSET BakObject] /\ bakFlying = {}
    BY DEF BakInit
  <2>3. bakMarker \in [BakId -> (SUBSET BakObject) \cup {BakNone}] /\ \A i \in BakId : bakMarker[i] = BakNone
    BY DEF BakInit
  <2> QED BY <2>1, <2>2, <2>3 DEF RemoteInv
<1> QED BY <1>3, <1>4, <1>5 DEF LocalInv

\* Every step of either half leaves the other alone.
LEMMA BakNextSound == NothingIsDropped /\ LocalInv /\ RemoteInv /\ [BakNext]_bakVars => LocalInv' /\ RemoteInv'
<1> SUFFICES ASSUME NothingIsDropped, LocalInv, RemoteInv, [BakNext]_bakVars PROVE LocalInv' /\ RemoteInv'
  OBVIOUS
<1>1. UNCHANGED bakLocalVars => LocalInv'
  BY DEF bakLocalVars, LocalInv, LocalTypes, TreesAreWhole, BackupIsSound
<1>2. UNCHANGED bakRemoteVars => RemoteInv'
  BY DEF bakRemoteVars, RemoteInv
<1>3. CASE BakLocalNext
  <2>1. LocalInv'
    BY <1>3, ServeKeeps, BeginBackupKeeps, CopyKeeps, PublishKeeps, GiveUpKeeps, RestoreKeeps DEF BakLocalNext
  <2>2. UNCHANGED bakRemoteVars
    BY <1>3 DEF BakLocalNext, BakServe, BakWork, BakBegin, BakStage, BakSnapshot, BakCopy, BakPublish, BakGiveUp,
       BakRestore, BakRestoreStage, BakRestoreCopy, BakRestorePublish
  <2> QED BY <1>2, <2>1, <2>2
<1>4. CASE BakRemoteNext
  <2>1. RemoteInv'
    BY <1>4, RemoteKeeps
  <2>2. UNCHANGED bakLocalVars
    BY <1>4 DEF BakRemoteNext, BakCreate, BakSweep, BakCopyRemote, BakCopyFails, BakMark, BakClean, BakSwept,
       BakErase, BakDropTask, BakLand, BakOwnerCrash, BakRetireSource, BakRestoreRemote
  <2> QED BY <1>1, <2>1, <2>2
<1>5. CASE UNCHANGED bakVars
  BY <1>1, <1>2, <1>5 DEF bakVars
<1> QED BY <1>3, <1>4, <1>5 DEF BakNext

\* The inductive invariant: what an attempt relies on while it copies, and that
\* a name below which something is deleted has no marker.
THEOREM BackupInvariant ==
  ASSUME NothingIsDropped
  PROVE  BakSpec => [](LocalInv /\ RemoteInv)
BY BakInitSound, BakNextSound, PTL DEF BakSpec

\* Every backup that is complete by its mark is whole, and so is what is
\* restored: for any deployments, objects, processes, names and failures.
THEOREM CompleteIsWhole ==
  ASSUME NothingIsDropped
  PROVE  BakSpec => []BakCompleteIsWhole
<1>1. LocalInv /\ RemoteInv => BakCompleteIsWhole
  BY DEF LocalInv, RemoteInv, TreesAreWhole, WholeTree, BakCompleteIsWhole
<1> QED BY <1>1, BackupInvariant, PTL

---------------------------------------------------------------------------
(***************************************************************************)
(* A document that an upload publishes and a deletion removes: the route   *)
(* that uploads, the request that deletes, the worker that finishes what   *)
(* the request left, and the objects of the document (DocPublishedOrGone). *)
(***************************************************************************)

\* The places of an upload: at work, at rest; of a deletion by a request and of
\* the worker's pass; and the values of the row.
Running == {"prepare", "load", "figure", "put_figure", "tree", "put_tree", "stage", "commit"}
Settled == {"idle", "answered", "refused"}
RequestPlaces == {"idle", "begin", "list", "queue", "delete", "complete"}
PassPlaces == {"idle", "list", "queue", "mark", "due", "delete", "complete", "finish"}

DocStatuses == {"none", "creating", "active", "deleting", "gone"}
DocSlots == {"none", "prepared", "staged"}
DocRows == [status : DocStatuses, slot : DocSlots]
DocRequests == [at : RequestPlaces, keys : SUBSET DocKeys]
DocPasses == [at : PassPlaces, keys : SUBSET DocKeys]

\* The type of every variable.
DocTypes ==
  /\ docRow \in DocRows
  /\ docLease \in {"none", "held", "expired", "swept"}
  /\ docObjects \subseteq DocKeys /\ docQueue \subseteq DocKeys /\ docDoomed \subseteq DocKeys
  /\ docCursor \in 0 .. DocListed
  /\ docUpload \in Running \cup Settled \cup {"abort"}
  /\ docDelete \in DocRequests
  /\ docWork \in DocPasses
  /\ docServer \in {"up", "down", "refused"} /\ docAsked \in BOOLEAN

\* A row whose deletion was begun or is finished.
Removed == {"deleting", "gone"}
\* What a deletion still has to remove.
Owed == docDoomed \cap docObjects

\* What is asked of a row at each place of the upload.
UploadIsSound ==
  /\ docUpload = "idle" <=> docRow.status = "none"
  /\ docRow.slot # "none" => Writable
  /\ docUpload = "prepare" => docRow.slot = "none"
  /\ docUpload \in Running /\ docRow.status \in Removed => docAsked
  /\ docUpload \in Running => docRow.status # "active"
  /\ docUpload \in Running \ {"prepare"} /\ docRow.slot = "none" => docRow.status \in Removed
  /\ docUpload = "answered" => docRow.slot = "none"
  /\ docUpload = "answered" /\ ~docAsked => docRow.status = "active"
  /\ docDelete # DocResting => docAsked \/ docUpload = "refused"
  /\ docServer # "up" => docUpload \in Settled

\* The tree of a document that may still be published is there.
TreeIsThere ==
  docRow.status = "active" \/ docRow.slot = "staged" \/ (docUpload = "stage" /\ Writable)
    => DocTree \in docObjects

\* What each deletion has done of its work.
DeletionIsSound ==
  /\ docDoomed # {} => docRow.status \in Removed
  /\ docRow.status = "gone" => Owed = {}
  /\ docDelete.at \notin {"idle", "begin"} => docRow.status \in Removed
  /\ docDelete.at = "queue" => Owed \subseteq docDelete.keys
  /\ docDelete.at \in {"delete", "complete"} => Owed \subseteq docQueue
  /\ docDelete.at = "complete" =>
       docDelete.keys # {} /\ \E k \in docDelete.keys : k \notin Owed /\ \A l \in docDelete.keys : k <= l
  /\ docWork.at # "idle" \/ docCursor # 0 => docRow.status \in Removed
  /\ \A k \in Owed : k <= docCursor => k \in docQueue
  /\ docWork.at = "queue" =>
       \A k \in Owed : k \in docQueue \cup docWork.keys \/ (docWork.keys # {} /\ \A l \in docWork.keys : l < k)
  /\ docWork.at = "mark" =>
       \A k \in Owed : k \in docQueue \/ (docWork.keys # {} /\ \A l \in docWork.keys : l < k)
  /\ docWork.at = "complete" => docWork.keys \cap Owed = {}

\* The inductive invariant.
DocInv == DocTypes /\ UploadIsSound /\ TreeIsThere /\ DeletionIsSound

\* A row is made of a status and a slot.
LEMMA RowFields ==
  ASSUME NEW r, NEW st \in DocStatuses, NEW sl \in DocSlots, r = [status |-> st, slot |-> sl]
  PROVE  r \in DocRows /\ r.status = st /\ r.slot = sl
BY DEF DocRows

\* What the operations make of the row.
LEMMA RowChanges ==
  ASSUME DocTypes
  PROVE  /\ docRow.status \in DocStatuses /\ docRow.slot \in DocSlots
         /\ \A sl \in DocSlots :
              Slot(sl) \in DocRows /\ Slot(sl).status = docRow.status /\ Slot(sl).slot = sl
         /\ Commit => docRow' \in DocRows /\ docRow'.status = "active" /\ docRow'.slot = "none"
         /\ FinishDelete => docRow' \in DocRows /\ docRow'.status = "gone" /\ docRow'.slot = "none"
         /\ Discard => docRow' \in DocRows /\ docRow'.status = "gone" /\ docRow'.slot = "none"
         /\ BeginDelete =>
              \/ Writable /\ docRow' \in DocRows /\ docRow'.status = "deleting" /\ docRow'.slot = "none"
                          /\ docDoomed' = docObjects
              \/ ~Writable /\ docRow' = docRow /\ docDoomed' = docDoomed
<1>1. docRow.status \in DocStatuses /\ docRow.slot \in DocSlots
  BY DEF DocTypes, DocRows
<1>2. ASSUME NEW sl \in DocSlots
      PROVE  Slot(sl) \in DocRows /\ Slot(sl).status = docRow.status /\ Slot(sl).slot = sl
  <2>1. Slot(sl) = [status |-> docRow.status, slot |-> sl]
    BY DEF Slot, DocTypes, DocRows
  <2> QED BY <1>1, <2>1, RowFields
<1>3. /\ Commit => docRow' \in DocRows /\ docRow'.status = "active" /\ docRow'.slot = "none"
      /\ FinishDelete => docRow' \in DocRows /\ docRow'.status = "gone" /\ docRow'.slot = "none"
      /\ Discard => docRow' \in DocRows /\ docRow'.status = "gone" /\ docRow'.slot = "none"
  BY DEF Commit, FinishDelete, Discard, DocRows, DocStatuses, DocSlots
<1>4. BeginDelete =>
        \/ Writable /\ docRow' \in DocRows /\ docRow'.status = "deleting" /\ docRow'.slot = "none"
                    /\ docDoomed' = docObjects
        \/ ~Writable /\ docRow' = docRow /\ docDoomed' = docDoomed
  <2>1. CASE Writable
    BY <2>1 DEF BeginDelete, DocRows, DocStatuses, DocSlots
  <2>2. CASE ~Writable
    BY <2>2 DEF BeginDelete
  <2> QED BY <2>1, <2>2
<1> QED BY <1>1, <1>2, <1>3, <1>4

\* Where a step leaves the request and the pass that delete.
LEMMA PlaceChanges ==
  /\ DocResting \in DocRequests /\ DocResting \in DocPasses /\ DocResting.at = "idle" /\ DocResting.keys = {}
  /\ \A at \in RequestPlaces, keys \in SUBSET DocKeys : DeleteGoes(at, keys) =>
       /\ docDelete' \in DocRequests /\ docDelete'.at = at /\ docDelete'.keys = keys
  /\ \A at \in PassPlaces, keys \in SUBSET DocKeys : WorkGoes(at, keys) =>
       /\ docWork' \in DocPasses /\ docWork'.at = at /\ docWork'.keys = keys
  /\ \A d \in DocRequests : d.at \in RequestPlaces /\ d.keys \in SUBSET DocKeys
  /\ \A d \in DocPasses : d.at \in PassPlaces /\ d.keys \in SUBSET DocKeys
<1>1. DocResting \in DocRequests /\ DocResting \in DocPasses /\ DocResting.at = "idle" /\ DocResting.keys = {}
  BY DEF DocResting, DocRequests, DocPasses, RequestPlaces, PassPlaces
<1>2. ASSUME NEW at \in RequestPlaces, NEW keys \in SUBSET DocKeys, DeleteGoes(at, keys)
      PROVE  docDelete' \in DocRequests /\ docDelete'.at = at /\ docDelete'.keys = keys
  BY <1>2 DEF DeleteGoes, DocRequests
<1>3. ASSUME NEW at \in PassPlaces, NEW keys \in SUBSET DocKeys, WorkGoes(at, keys)
      PROVE  docWork' \in DocPasses /\ docWork'.at = at /\ docWork'.keys = keys
  BY <1>3 DEF WorkGoes, DocPasses
<1>4. ASSUME NEW d \in DocRequests PROVE d.at \in RequestPlaces /\ d.keys \in SUBSET DocKeys
  BY <1>4 DEF DocRequests
<1>5. ASSUME NEW d \in DocPasses PROVE d.at \in PassPlaces /\ d.keys \in SUBSET DocKeys
  BY <1>5 DEF DocPasses
<1> QED BY <1>1, <1>2, <1>3, <1>4, <1>5

\* The first key of a page, and of what a request still has to delete.
LEMMA LeastKey ==
  ASSUME NEW S, S \subseteq DocKeys, S # {}
  PROVE  Min(S) \in S /\ \A k \in S : Min(S) <= k
<1>1. CASE 1 \in S
  BY <1>1, \A k \in S : 1 <= k DEF DocKeys, DocFigure, DocTree, Min
<1>2. CASE 1 \notin S
  BY <1>2, S = {2} DEF DocKeys, DocFigure, DocTree, Min
<1> QED BY <1>1, <1>2

\* The last key of a page, which the cursor moves to.
LEMMA GreatestKey ==
  ASSUME NEW S, S \subseteq DocKeys, S # {}
  PROVE  Max(S) \in S /\ \A k \in S : k <= Max(S)
<1>1. CASE 2 \in S
  BY <1>1, \A k \in S : k <= 2 DEF DocKeys, DocFigure, DocTree, Max
<1>2. CASE 2 \notin S
  BY <1>2, S = {1} DEF DocKeys, DocFigure, DocTree, Max
<1> QED BY <1>1, <1>2

\* Every step keeps the types.
LEMMA DocTypesKept == DocInv /\ [DocNext]_docVars => DocTypes'
<1> SUFFICES ASSUME DocInv, [DocNext]_docVars PROVE DocTypes'
  OBVIOUS
<1> USE RowChanges, PlaceChanges DEF DocUp, DocFails, DocWorks, UploadGoes, UploadOnly, Writable, Reserves, Reserve, Put, Committable, DeleteGivesUp, DeleteOnly, Finishable, WorkOnly, Starts, docVars, docCatalog, docHistory, DocTypes, DocStatuses, DocSlots, DocKeys, DocFigure, DocTree, DocListed, Running, Settled, RequestPlaces, PassPlaces, Removed, Owed, DocInv
<1>1. CASE PutCatalog
  BY <1>1, RowFields DEF PutCatalog
<1>2. CASE PreparePublication
  BY <1>2 DEF PreparePublication
<1>3. CASE TryGet
  BY <1>3 DEF TryGet
<1>4. CASE FillDirectory
  BY <1>4 DEF FillDirectory
<1>5. CASE PutFigure
  BY <1>5 DEF PutFigure
<1>6. CASE LeaseTree
  BY <1>6 DEF LeaseTree
<1>7. CASE PutTree
  BY <1>7 DEF PutTree
<1>8. CASE StageCheckpoint
  BY <1>8 DEF StageCheckpoint
<1>9. CASE CommitPublication
  BY <1>9 DEF CommitPublication, Commit
<1>10. CASE AbortPublication
  BY <1>10 DEF AbortPublication, DeleteGoes
<1>11. CASE DropUpload
  BY <1>11 DEF DropUpload
<1>12. CASE WriterReserves
  BY <1>12 DEF WriterReserves
<1>13. CASE WriterPuts
  BY <1>13 DEF WriterPuts
<1>14. CASE HandleDelete
  BY <1>14 DEF HandleDelete, DeleteGoes
<1>15. CASE EraseOwner
  BY <1>15 DEF EraseOwner
<1>16. CASE DeleteBegins
  BY <1>16 DEF DeleteBegins
<1>17. CASE RemoveLists
  BY <1>17 DEF RemoveLists
<1>18. CASE RemoveQueues
  BY <1>18 DEF RemoveQueues
<1>19. CASE RemoveDeletes
  BY <1>19, LeastKey DEF RemoveDeletes
<1>20. CASE RemoveCompletes
  BY <1>20, LeastKey DEF RemoveCompletes
<1>21. CASE RemoveFinishes
  BY <1>21 DEF RemoveFinishes, FinishDelete
<1>22. CASE DropDelete
  BY <1>22 DEF DropDelete
<1>23. CASE RunOnce
  BY <1>23 DEF RunOnce
<1>24. CASE ListPage
  BY <1>24, LeastKey DEF ListPage
<1>25. CASE EnqueueDeletions
  BY <1>25 DEF EnqueueDeletions
<1>26. CASE MarkDiscovered
  BY <1>26, GreatestKey DEF MarkDiscovered
<1>27. CASE DueDeletions
  BY <1>27 DEF DueDeletions
<1>28. CASE DeleteEach
  BY <1>28 DEF DeleteEach
<1>29. CASE CompleteDeletes
  BY <1>29 DEF CompleteDeletes
<1>30. CASE WorkFinishes
  BY <1>30 DEF WorkFinishes, FinishDelete
<1>31. CASE WorkFails
  BY <1>31 DEF WorkFails
<1>32. CASE Pause
  BY <1>32 DEF Pause
<1>33. CASE ExpireLeases
  BY <1>33 DEF ExpireLeases
<1>34. CASE DocCrash
  BY <1>34 DEF DocCrash
<1>35. CASE OpenWithCatalog
  BY <1>35 DEF OpenWithCatalog, Discard, Commit
<1>36. CASE UNCHANGED docVars
  BY <1>36
<1> QED BY <1>1, <1>2, <1>3, <1>4, <1>5, <1>6, <1>7, <1>8, <1>9, <1>10, <1>11, <1>12, <1>13, <1>14, <1>15, <1>16, <1>17, <1>18, <1>19, <1>20, <1>21, <1>22, <1>23, <1>24, <1>25, <1>26, <1>27, <1>28, <1>29, <1>30, <1>31, <1>32, <1>33, <1>34, <1>35, <1>36 DEF DocNext

\* Every step keeps what is asked of a row at each place of the upload.
LEMMA UploadIsSoundKept == DocInv /\ [DocNext]_docVars => UploadIsSound'
<1> SUFFICES ASSUME DocInv, [DocNext]_docVars PROVE UploadIsSound'
  OBVIOUS
<1> USE RowChanges, PlaceChanges DEF DocUp, DocFails, DocWorks, UploadGoes, UploadOnly, Writable, Reserves, Reserve, Put, Committable, DeleteGivesUp, DeleteOnly, Finishable, WorkOnly, Starts, docVars, docCatalog, docHistory, DocTypes, DocStatuses, DocSlots, DocKeys, DocFigure, DocTree, DocListed, Running, Settled, RequestPlaces, PassPlaces, Removed, Owed, DocInv, UploadIsSound
<1>1. CASE PutCatalog
  BY <1>1, RowFields DEF PutCatalog
<1>2. CASE PreparePublication
  BY <1>2 DEF PreparePublication
<1>3. CASE TryGet
  BY <1>3 DEF TryGet
<1>4. CASE FillDirectory
  BY <1>4 DEF FillDirectory
<1>5. CASE PutFigure
  BY <1>5 DEF PutFigure
<1>6. CASE LeaseTree
  BY <1>6 DEF LeaseTree
<1>7. CASE PutTree
  BY <1>7 DEF PutTree
<1>8. CASE StageCheckpoint
  BY <1>8 DEF StageCheckpoint
<1>9. CASE CommitPublication
  BY <1>9 DEF CommitPublication, Commit
<1>10. CASE AbortPublication
  BY <1>10 DEF AbortPublication, DeleteGoes
<1>11. CASE DropUpload
  BY <1>11 DEF DropUpload
<1>12. CASE WriterReserves
  BY <1>12 DEF WriterReserves
<1>13. CASE WriterPuts
  BY <1>13 DEF WriterPuts
<1>14. CASE HandleDelete
  BY <1>14 DEF HandleDelete, DeleteGoes
<1>15. CASE EraseOwner
  BY <1>15 DEF EraseOwner
<1>16. CASE DeleteBegins
  BY <1>16 DEF DeleteBegins
<1>17. CASE RemoveLists
  BY <1>17 DEF RemoveLists
<1>18. CASE RemoveQueues
  BY <1>18 DEF RemoveQueues
<1>19. CASE RemoveDeletes
  BY <1>19, LeastKey DEF RemoveDeletes
<1>20. CASE RemoveCompletes
  BY <1>20, LeastKey DEF RemoveCompletes
<1>21. CASE RemoveFinishes
  BY <1>21 DEF RemoveFinishes, FinishDelete
<1>22. CASE DropDelete
  BY <1>22 DEF DropDelete
<1>23. CASE RunOnce
  BY <1>23 DEF RunOnce
<1>24. CASE ListPage
  BY <1>24, LeastKey DEF ListPage
<1>25. CASE EnqueueDeletions
  BY <1>25 DEF EnqueueDeletions
<1>26. CASE MarkDiscovered
  BY <1>26, GreatestKey DEF MarkDiscovered
<1>27. CASE DueDeletions
  BY <1>27 DEF DueDeletions
<1>28. CASE DeleteEach
  BY <1>28 DEF DeleteEach
<1>29. CASE CompleteDeletes
  BY <1>29 DEF CompleteDeletes
<1>30. CASE WorkFinishes
  BY <1>30 DEF WorkFinishes, FinishDelete
<1>31. CASE WorkFails
  BY <1>31 DEF WorkFails
<1>32. CASE Pause
  BY <1>32 DEF Pause
<1>33. CASE ExpireLeases
  BY <1>33 DEF ExpireLeases
<1>34. CASE DocCrash
  BY <1>34 DEF DocCrash
<1>35. CASE OpenWithCatalog
  BY <1>35 DEF OpenWithCatalog, Discard, Commit
<1>36. CASE UNCHANGED docVars
  BY <1>36
<1> QED BY <1>1, <1>2, <1>3, <1>4, <1>5, <1>6, <1>7, <1>8, <1>9, <1>10, <1>11, <1>12, <1>13, <1>14, <1>15, <1>16, <1>17, <1>18, <1>19, <1>20, <1>21, <1>22, <1>23, <1>24, <1>25, <1>26, <1>27, <1>28, <1>29, <1>30, <1>31, <1>32, <1>33, <1>34, <1>35, <1>36 DEF DocNext

\* No step takes the tree of a document that may still be published.
LEMMA TreeIsThereKept == DocInv /\ [DocNext]_docVars => TreeIsThere'
<1> SUFFICES ASSUME DocInv, [DocNext]_docVars PROVE TreeIsThere'
  OBVIOUS
<1> USE RowChanges, PlaceChanges DEF DocUp, DocFails, DocWorks, UploadGoes, UploadOnly, Writable, Reserves, Reserve, Put, Committable, DeleteGivesUp, DeleteOnly, Finishable, WorkOnly, Starts, docVars, docCatalog, docHistory, DocTypes, DocStatuses, DocSlots, DocKeys, DocFigure, DocTree, DocListed, Running, Settled, RequestPlaces, PassPlaces, Removed, Owed, DocInv, UploadIsSound, TreeIsThere
<1>1. CASE PutCatalog
  BY <1>1, RowFields DEF PutCatalog
<1>2. CASE PreparePublication
  BY <1>2 DEF PreparePublication
<1>3. CASE TryGet
  BY <1>3 DEF TryGet
<1>4. CASE FillDirectory
  BY <1>4 DEF FillDirectory
<1>5. CASE PutFigure
  BY <1>5 DEF PutFigure
<1>6. CASE LeaseTree
  BY <1>6 DEF LeaseTree
<1>7. CASE PutTree
  BY <1>7 DEF PutTree
<1>8. CASE StageCheckpoint
  BY <1>8 DEF StageCheckpoint
<1>9. CASE CommitPublication
  BY <1>9 DEF CommitPublication, Commit
<1>10. CASE AbortPublication
  BY <1>10 DEF AbortPublication, DeleteGoes
<1>11. CASE DropUpload
  BY <1>11 DEF DropUpload
<1>12. CASE WriterReserves
  BY <1>12 DEF WriterReserves
<1>13. CASE WriterPuts
  BY <1>13 DEF WriterPuts
<1>14. CASE HandleDelete
  BY <1>14 DEF HandleDelete, DeleteGoes
<1>15. CASE EraseOwner
  BY <1>15 DEF EraseOwner
<1>16. CASE DeleteBegins
  BY <1>16 DEF DeleteBegins
<1>17. CASE RemoveLists
  BY <1>17 DEF RemoveLists
<1>18. CASE RemoveQueues
  BY <1>18 DEF RemoveQueues
<1>19. CASE RemoveDeletes
  BY <1>19, LeastKey DEF RemoveDeletes, DeletionIsSound
<1>20. CASE RemoveCompletes
  BY <1>20, LeastKey DEF RemoveCompletes
<1>21. CASE RemoveFinishes
  BY <1>21 DEF RemoveFinishes, FinishDelete
<1>22. CASE DropDelete
  BY <1>22 DEF DropDelete
<1>23. CASE RunOnce
  BY <1>23 DEF RunOnce
<1>24. CASE ListPage
  BY <1>24, LeastKey DEF ListPage
<1>25. CASE EnqueueDeletions
  BY <1>25 DEF EnqueueDeletions
<1>26. CASE MarkDiscovered
  BY <1>26, GreatestKey DEF MarkDiscovered
<1>27. CASE DueDeletions
  BY <1>27 DEF DueDeletions
<1>28. CASE DeleteEach
  BY <1>28 DEF DeleteEach, DeletionIsSound
<1>29. CASE CompleteDeletes
  BY <1>29 DEF CompleteDeletes
<1>30. CASE WorkFinishes
  BY <1>30 DEF WorkFinishes, FinishDelete
<1>31. CASE WorkFails
  BY <1>31 DEF WorkFails
<1>32. CASE Pause
  BY <1>32 DEF Pause
<1>33. CASE ExpireLeases
  BY <1>33 DEF ExpireLeases
<1>34. CASE DocCrash
  BY <1>34 DEF DocCrash
<1>35. CASE OpenWithCatalog
  BY <1>35 DEF OpenWithCatalog, Discard, Commit
<1>36. CASE UNCHANGED docVars
  BY <1>36
<1> QED BY <1>1, <1>2, <1>3, <1>4, <1>5, <1>6, <1>7, <1>8, <1>9, <1>10, <1>11, <1>12, <1>13, <1>14, <1>15, <1>16, <1>17, <1>18, <1>19, <1>20, <1>21, <1>22, <1>23, <1>24, <1>25, <1>26, <1>27, <1>28, <1>29, <1>30, <1>31, <1>32, <1>33, <1>34, <1>35, <1>36 DEF DocNext

\* A page of the listing begins after the cursor and skips nothing.
LEMMA PageIsNext ==
  ASSUME DocTypes, DeletionIsSound
  PROVE  LET rest == {key \in docObjects : key > docCursor}
         IN  rest # {} => \A k \in Owed : k \in docQueue \/ k = Min(rest) \/ Min(rest) < k
<1> DEFINE rest == {key \in docObjects : key > docCursor}
<1>1. SUFFICES ASSUME rest # {}, NEW k \in Owed, k \notin docQueue
               PROVE  k = Min(rest) \/ Min(rest) < k
  OBVIOUS
<1>2. docObjects \subseteq {1, 2} /\ docCursor \in Nat /\ k \in docObjects
  BY DEF DocTypes, DocKeys, DocFigure, DocTree, DocListed, Owed
<1>3. k \in rest
  BY <1>1, <1>2 DEF DeletionIsSound
<1>4. Min(rest) \in rest /\ Min(rest) <= k
  BY <1>1, <1>3, LeastKey DEF DocTypes
<1>5. rest \subseteq {1, 2}
  BY <1>2
<1> HIDE DEF rest
<1>6. Min(rest) \in {1, 2} /\ k \in {1, 2}
  BY <1>3, <1>4, <1>5
<1>7. PICK m : m = Min(rest)
  OBVIOUS
<1> QED BY <1>4, <1>6, <1>7

\* Every step of a deletion, and of everything that interleaves with it, keeps
\* what the deletion has done: nothing it owes is skipped by the page, the
\* cursor or the queue.
LEMMA DeletionIsSoundKept == DocInv /\ [DocNext]_docVars => DeletionIsSound'
<1> SUFFICES ASSUME DocInv, [DocNext]_docVars PROVE DeletionIsSound'
  OBVIOUS
<1> USE RowChanges, PlaceChanges DEF DocUp, DocFails, DocWorks, UploadGoes, UploadOnly, Writable, Reserves, Reserve, Put, Committable, DeleteGivesUp, DeleteOnly, Finishable, WorkOnly, Starts, docVars, docCatalog, docHistory, DocTypes, DocStatuses, DocSlots, DocKeys, DocFigure, DocTree, DocListed, Running, Settled, RequestPlaces, PassPlaces, Removed, Owed, DocInv, UploadIsSound, DeletionIsSound
<1>1. CASE PutCatalog
  BY <1>1, RowFields DEF PutCatalog
<1>2. CASE PreparePublication
  BY <1>2 DEF PreparePublication
<1>3. CASE TryGet
  BY <1>3 DEF TryGet
<1>4. CASE FillDirectory
  BY <1>4 DEF FillDirectory
<1>5. CASE PutFigure
  BY <1>5 DEF PutFigure
<1>6. CASE LeaseTree
  BY <1>6 DEF LeaseTree
<1>7. CASE PutTree
  BY <1>7 DEF PutTree
<1>8. CASE StageCheckpoint
  BY <1>8 DEF StageCheckpoint
<1>9. CASE CommitPublication
  BY <1>9 DEF CommitPublication, Commit
<1>10. CASE AbortPublication
  BY <1>10 DEF AbortPublication, DeleteGoes
<1>11. CASE DropUpload
  BY <1>11 DEF DropUpload
<1>12. CASE WriterReserves
  BY <1>12 DEF WriterReserves
<1>13. CASE WriterPuts
  BY <1>13 DEF WriterPuts
<1>14. CASE HandleDelete
  BY <1>14 DEF HandleDelete, DeleteGoes
<1>15. CASE EraseOwner
  <2>1. docDoomed' = docObjects /\ docRow'.status = "deleting" /\ docDelete' = docDelete /\ docWork' = docWork
    BY <1>15 DEF EraseOwner
  <2>2. docObjects' = docObjects /\ docDelete.at \in {"idle", "begin"} /\ docWork.at = "idle" /\ docCursor = 0 /\ docCursor' = 0
    BY <1>15 DEF EraseOwner
  <2> QED BY <2>1, <2>2
<1>16. CASE DeleteBegins
  <2> USE <1>16 DEF DeleteBegins
  <2>1. docObjects' = docObjects /\ docQueue' = docQueue /\ docWork' = docWork /\ docCursor' = docCursor
    OBVIOUS
  <2>2. docDelete'.at \in {"idle", "list"}
    OBVIOUS
  <2>3. CASE docDoomed' = docDoomed /\ docRow' = docRow
    BY <2>1, <2>2, <2>3
  <2>4. CASE ~(docDoomed' = docDoomed /\ docRow' = docRow)
    <3>1. docRow'.status = "deleting" /\ docWork.at = "idle" /\ docCursor = 0
      BY <2>4
    <3> QED BY <2>1, <2>2, <3>1
  <2> QED BY <2>3, <2>4
<1>17. CASE RemoveLists
  BY <1>17 DEF RemoveLists
<1>18. CASE RemoveQueues
  BY <1>18 DEF RemoveQueues
<1>19. CASE RemoveDeletes
  BY <1>19, LeastKey DEF RemoveDeletes
<1>20. CASE RemoveCompletes
  BY <1>20, LeastKey DEF RemoveCompletes
<1>21. CASE RemoveFinishes
  BY <1>21 DEF RemoveFinishes, FinishDelete
<1>22. CASE DropDelete
  BY <1>22 DEF DropDelete
<1>23. CASE RunOnce
  BY <1>23 DEF RunOnce
<1>24. CASE ListPage
  <2> USE <1>24 DEF ListPage
  <2>1. UNCHANGED <<docRow, docQueue, docObjects, docDelete, docDoomed, docCursor>>
    OBVIOUS
  <2>2. CASE docWork'.at = "due"
    BY <2>1, <2>2
  <2>3. CASE docWork'.at # "due"
    <3> DEFINE rest == {key \in docObjects : key > docCursor}
    <3>1. docWork'.at = "queue" /\ docWork'.keys = IF rest = {} THEN {} ELSE {Min(rest)}
      <4>1. rest \subseteq DocKeys /\ (rest # {} => Min(rest) \in DocKeys)
        BY LeastKey
      <4> HIDE DEF rest
      <4>2. WorkGoes("queue", IF rest = {} THEN {} ELSE {Min(rest)})
        BY <2>3 DEF rest
      <4> QED BY <4>1, <4>2
    <3>2. CASE rest = {}
      BY <2>1, <3>1, <3>2
    <3>3. CASE rest # {}
      <4>1. docWork'.keys = {Min(rest)} /\ \A k \in Owed : k \in docQueue \/ k = Min(rest) \/ Min(rest) < k
        BY <3>1, <3>3, PageIsNext
      <4> HIDE DEF rest
      <4> QED BY <2>1, <3>1, <4>1
    <3> QED BY <3>2, <3>3
  <2> QED BY <2>2, <2>3
<1>25. CASE EnqueueDeletions
  BY <1>25 DEF EnqueueDeletions
<1>26. CASE MarkDiscovered
  BY <1>26, GreatestKey DEF MarkDiscovered
<1>27. CASE DueDeletions
  BY <1>27 DEF DueDeletions
<1>28. CASE DeleteEach
  BY <1>28 DEF DeleteEach
<1>29. CASE CompleteDeletes
  BY <1>29 DEF CompleteDeletes
<1>30. CASE WorkFinishes
  BY <1>30 DEF WorkFinishes, FinishDelete
<1>31. CASE WorkFails
  BY <1>31 DEF WorkFails
<1>32. CASE Pause
  BY <1>32 DEF Pause
<1>33. CASE ExpireLeases
  BY <1>33 DEF ExpireLeases
<1>34. CASE DocCrash
  BY <1>34 DEF DocCrash
<1>35. CASE OpenWithCatalog
  BY <1>35 DEF OpenWithCatalog, Discard, Commit
<1>36. CASE UNCHANGED docVars
  BY <1>36
<1> QED BY <1>1, <1>2, <1>3, <1>4, <1>5, <1>6, <1>7, <1>8, <1>9, <1>10, <1>11, <1>12, <1>13, <1>14, <1>15, <1>16, <1>17, <1>18, <1>19, <1>20, <1>21, <1>22, <1>23, <1>24, <1>25, <1>26, <1>27, <1>28, <1>29, <1>30, <1>31, <1>32, <1>33, <1>34, <1>35, <1>36 DEF DocNext

\* The initial state has the invariant.
LEMMA DocInitSound == DocInit => DocInv
<1> SUFFICES ASSUME DocInit PROVE DocInv
  OBVIOUS
<1>1. docRow \in DocRows /\ docRow.status = "none" /\ docRow.slot = "none"
  BY DEF DocInit, DocRows, DocStatuses, DocSlots
<1> USE PlaceChanges DEF DocInit, DocListed, Running, Settled, Removed, Owed, Writable
<1>2. DocTypes
  <2>1. docObjects \subseteq DocKeys /\ docQueue \subseteq DocKeys /\ docDoomed \subseteq DocKeys
    OBVIOUS
  <2>2. docAsked \in BOOLEAN
    BY Zenon
  <2>3. docCursor \in 0 .. 2 + 1 /\ DocTree = 2
    BY DEF DocTree
  <2> QED BY <1>1, <2>1, <2>2, <2>3 DEF DocTypes
<1>3. UploadIsSound /\ TreeIsThere
  BY <1>1 DEF UploadIsSound, TreeIsThere
<1>4. DeletionIsSound
  BY <1>1 DEF DeletionIsSound
<1> QED BY <1>2, <1>3, <1>4 DEF DocInv

\* Every step keeps the invariant.
LEMMA DocNextSound == DocInv /\ [DocNext]_docVars => DocInv'
BY DocTypesKept, UploadIsSoundKept, TreeIsThereKept, DeletionIsSoundKept DEF DocInv

\* The inductive invariant: what an upload, a deletion by a request and a pass
\* of the worker have done of a document at each of their places.
THEOREM LifecycleInvariant == DocSpec => []DocInv
BY DocInitSound, DocNextSound, PTL DEF DocSpec

\* An upload that was answered is a document until somebody asks for its
\* deletion, and a deletion leaves nothing of what it found, however the upload,
\* the request that deletes it, the worker, failures, crashes and pauses
\* interleave, for any number of each.
THEOREM PublishedOrGone == DocSpec => []DocPublishedOrGone
<1>1. DocInv => DocPublishedOrGone
  BY DEF DocInv, DocTypes, DocPublishedOrGone, UploadIsSound, TreeIsThere, DeletionIsSound, Owed
<1> QED BY <1>1, LifecycleInvariant, PTL

---------------------------------------------------------------------------
\* The lease of an operation, while it stands, has all of these objects.
LeasesAll(o, keys) ==
  HoldsLease(o) => \A k \in keys : \E l \in histLeases : l[1] = o /\ l[2] = k
\* The sources an operation has leased are those of encodings.
LeasesEncoded(o) ==
  \A l \in histLeases : l[1] = o /\ IsSource(l[2]) => \E t \in histEncoded : l[2] \in SourceKeys(t)

\* What the worker has admitted is queued, nobody needs it, and the sources it
\* has erased are not there.
WorkerIsSound ==
  /\ histDoomed \subseteq histQueued
  /\ \A l \in histLeases : l[2] \notin histDoomed
  /\ \A p \in histPoints : \A k \in PointKeys(p) : k \notin histDoomed
  /\ histErased => \A k \in histDoomed : IsSource(k) => k \notin histStore

\* A checkpoint's id is its content and the moment of a forced one; its source
\* has an encoding and its objects are stored.
PointsAreSound ==
  /\ histEdited \in Nat
  /\ \A p \in histPoints :
       /\ p.id[1] = p.text /\ p.id[2] = p.figs /\ p.id[3] \in Nat /\ p.id[3] <= histEdited
       /\ p.text \in histEncoded
       /\ "missing" \notin histOdd => PointKeys(p) \subseteq histStore
       /\ histRestore.step = "applied" => p.id[3] < histEdited
  /\ \A p, q \in histPoints : p.id = q.id => p = q

\* The checkpoint being written is none of the retained ones.
CaptureIsSound ==
  /\ histWriter.id[1] = histWriter.text /\ histWriter.id[2] = histWriter.figs
  /\ histWriter.id[3] \in Nat /\ histWriter.id[3] <= histEdited
  /\ histWriter.id[3] # 0 => histRestore.step = "checkpoint"
  /\ \A p \in histPoints : p.id # histWriter.id

\* Its lease is held whole or not at all and, while it is held, what is not
\* still to be written is stored.
WriterIsSound ==
  /\ histWriter.step \in {"lease", "put", "commit"} => CaptureIsSound
  /\ histWriter.step \in {"lease", "put"} => histWriter.put \subseteq WriterKeys(histWriter)
  /\ histWriter.step \in {"put", "commit"} =>
       /\ LeasesAll(histWriter.op, WriterKeys(histWriter))
       /\ \A l \in histLeases : l[1] = histWriter.op => l[2] \in WriterKeys(histWriter)
  /\ histWriter.step = "put" /\ HoldsLease(histWriter.op) /\ "missing" \notin histOdd =>
       WriterKeys(histWriter) \subseteq histStore \cup histWriter.put
  /\ histWriter.step = "commit" /\ HoldsLease(histWriter.op) /\ "missing" \notin histOdd =>
       WriterKeys(histWriter) \subseteq histStore
  /\ histWriter.step = "finish" => LeasesEncoded(histWriter.op)
  /\ histWriter.step = "erase" =>
       \A k \in histWriter.keys : k[1] = "tree" /\ \A p \in histPoints : TreeKey(p.id) # k

\* So is the lease of a restore, which has found its figures.
RestoreIsSound ==
  /\ histRestore.step # "idle" =>
       /\ histRestore = [step |-> histRestore.step, op |-> histRestore.op,
                         text |-> histRestore.text, figs |-> histRestore.figs,
                         base |-> histRestore.base]
       /\ LeasesAll(histRestore.op, AssetKeys(histRestore.figs))
       /\ LeasesEncoded(histRestore.op)
  /\ histRestore.step \in {"applied", "checkpoint"} =>
       /\ histEdited > 0
       /\ HoldsLease(histRestore.op) => AssetKeys(histRestore.figs) \subseteq histStore

\* The inductive invariant.
HistInv == WorkerIsSound /\ PointsAreSound /\ WriterIsSound /\ RestoreIsSound /\ HistNoSourceLeaks

\* A new operation leases objects that are not queued.
HistOpens(o, keys) == o \in NextOp /\ Leasing(o, keys) /\ keys \cap histQueued = {}
\* All that an operation has leased goes.
HistDrops(o) == histLeases' = {l \in histLeases : l[1] # o}
\* The writer puts the object, or a crash interrupts it.
HistWrites(k) ==
  /\ histWriter.step = "put" /\ k \in histWriter.put /\ UNCHANGED histLeases
  /\ HoldsLease(histWriter.op) \/ "late" \in histOdd'
  /\ histWriter.put \cap histQueued = {} \/ histDoomed' = {}

\* Keys of different kinds differ.
LEMMA HistKinds ==
  /\ \A id : TreeKey(id)[1] = "tree" /\ TreeKey(id)[2] = id
  /\ \A t : \A k \in SourceKeys(t) : IsSource(k) /\ k[1] # "tree" /\ k[1] # "asset"
  /\ \A figs : \A k \in AssetKeys(figs) : k[1] = "asset" /\ ~IsSource(k)
  /\ \A k : k[1] \in {"tree", "asset"} => ~IsSource(k)
  BY DEF TreeKey, SourceKeys, IsSource, AssetKeys, AssetKey

\* The operations of the model, one by one.
LEMMA HistSteps ==
  ASSUME [HistNext]_histVars
  PROVE  \/ HistEdit
         \/ HistFlush
         \/ \E f \in HistFigure : HistUploadPut(f)
         \/ \E f \in HistFigure : HistUploadEnd(f)
         \/ HistCapture
         \/ HistLease
         \/ HistPut
         \/ HistCommit
         \/ HistShed
         \/ HistErase
         \/ HistPrune
         \/ \E p \in histPoints : HistRestoreLease(p)
         \/ HistRestoreApply
         \/ HistRestoreEnd
         \/ \E p \in histPoints : HistRetire(p)
         \/ \E o \in 1..HistOps : HistExpire(o)
         \/ \E t \in HistText : HistDrain(t)
         \/ HistAdmit
         \/ HistDelete
         \/ HistComplete
         \/ HistCrash
         \/ UNCHANGED histVars
  BY DEF HistNext, HistFiguring, HistWriting, HistRestoring, HistSweeping

\* A step leaves the leases alone, opens one for a new operation over objects
\* that are not queued, or drops one whole.
LEMMA HistLeaseEffect ==
  ASSUME [HistNext]_histVars
  PROVE  \/ UNCHANGED histLeases
         \/ \E o, keys : HistOpens(o, keys)
         \/ \E o : HistDrops(o)
<1>1. CASE HistEdit
  BY <1>1 DEF HistEdit, histFigures, histGraph, histWorker
<1>2. CASE HistFlush
  BY <1>2 DEF HistFlush, histFigures, histGraph, histWorker
<1>3. CASE \E f \in HistFigure : HistUploadPut(f)
  BY <1>3 DEF HistUploadPut, histRoom, histGraph, histWorker
<1>4. CASE \E f \in HistFigure : HistUploadEnd(f)
  BY <1>4 DEF HistUploadEnd, histRoom, histGraph, histWorker
<1>5. CASE HistCapture
  BY <1>5 DEF HistCapture, histFigures, histGraph, histWorker
<1>6. CASE HistLease
  BY <1>6 DEF HistLease, histRoom, histFigures, histGraph, histWorker, Leasable, HistOpens
<1>7. CASE HistPut
  BY <1>7 DEF HistPut, histFigures, histGraph, histWorker
<1>8. CASE HistCommit
  BY <1>8 DEF HistCommit, histRoom, histFigures, histGraph, histWorker
<1>9. CASE HistShed
  <2>1. HistDrops(histWriter.op)
    BY <1>9 DEF HistShed, HistDrops
  <2> QED  BY <2>1
<1>10. CASE HistErase
  BY <1>10 DEF HistErase, histRoom, histFigures, histGraph, histWorker
<1>11. CASE HistPrune
  BY <1>11 DEF HistPrune, histRoom, histFigures, histGraph, histWorker
<1>12. CASE \E p \in histPoints : HistRestoreLease(p)
  BY <1>12 DEF HistRestoreLease, histRoom, histFigures, histGraph, histWorker, Leasable, HistOpens
<1>13. CASE HistRestoreApply
  BY <1>13 DEF HistRestoreApply, histFigures, histGraph, histWorker
<1>14. CASE HistRestoreEnd
  <2>1. HistDrops(histRestore.op)
    BY <1>14 DEF HistRestoreEnd, HistDrops
  <2> QED  BY <2>1
<1>15. CASE \E p \in histPoints : HistRetire(p)
  BY <1>15 DEF HistRetire, histRoom, histFigures, histWorker
<1>16. CASE \E o \in 1..HistOps : HistExpire(o)
  <2>1. PICK o \in 1..HistOps : HistExpire(o)
    BY <1>16
  <2>2. HistDrops(o)
    BY <2>1 DEF HistExpire, HistDrops
  <2> QED  BY <2>2
<1>17. CASE \E t \in HistText : HistDrain(t)
  BY <1>17 DEF HistDrain, histRoom, histFigures, histWorker
<1>18. CASE HistAdmit
  BY <1>18 DEF HistAdmit, histRoom, histFigures, histGraph
<1>19. CASE HistDelete
  BY <1>19 DEF HistDelete, histRoom, histFigures, histGraph
<1>20. CASE HistComplete
  BY <1>20 DEF HistComplete, histRoom, histFigures, histGraph
<1>21. CASE HistCrash
  BY <1>21 DEF HistCrash, histGraph
<1>22. CASE UNCHANGED histVars
  BY <1>22 DEF histVars, histRoom, histFigures, histGraph, histWorker
<1> QED  BY HistSteps, <1>1, <1>2, <1>3, <1>4, <1>5, <1>6, <1>7, <1>8, <1>9, <1>10,
         <1>11, <1>12, <1>13, <1>14, <1>15, <1>16, <1>17, <1>18, <1>19, <1>20,
         <1>21, <1>22

\* What is erased was admitted by the worker, or is the tree of a row that
\* went; what is written is a figure, or belongs to the checkpoint being written.
LEMMA HistStoreEffect ==
  ASSUME [HistNext]_histVars
  PROVE  /\ \A k \in histStore : \/ k \in histStore'
                                 \/ k \in histDoomed /\ histDoomed # {}
                                 \/ histWriter.step = "erase" /\ k \in histWriter.keys
         /\ \A k \in histStore' : \/ k \in histStore \/ k[1] = "asset"
                                  \/ HistWrites(k)
<1>1. CASE HistEdit
  BY <1>1 DEF HistEdit, histFigures, histGraph, histWorker
<1>2. CASE HistFlush
  BY <1>2 DEF HistFlush, histFigures, histGraph, histWorker
<1>3. CASE \E f \in HistFigure : HistUploadPut(f)
  BY <1>3, HistKinds DEF HistUploadPut, histRoom, histGraph, histWorker, AssetKey
<1>4. CASE \E f \in HistFigure : HistUploadEnd(f)
  BY <1>4 DEF HistUploadEnd, histRoom, histGraph, histWorker
<1>5. CASE HistCapture
  BY <1>5 DEF HistCapture, histFigures, histGraph, histWorker
<1>6. CASE HistLease
  BY <1>6 DEF HistLease, histRoom, histFigures, histGraph, histWorker
<1>7. CASE HistPut
  BY <1>7 DEF HistPut, histFigures, histGraph, histWorker, HistWrites, HoldsLease
<1>8. CASE HistCommit
  BY <1>8 DEF HistCommit, histRoom, histFigures, histGraph, histWorker
<1>9. CASE HistShed
  BY <1>9 DEF HistShed, histRoom, histFigures, histGraph, histWorker
<1>10. CASE HistErase
  BY <1>10 DEF HistErase, histRoom, histFigures, histGraph, histWorker
<1>11. CASE HistPrune
  BY <1>11 DEF HistPrune, histRoom, histFigures, histGraph, histWorker
<1>12. CASE \E p \in histPoints : HistRestoreLease(p)
  BY <1>12 DEF HistRestoreLease, histRoom, histFigures, histGraph, histWorker
<1>13. CASE HistRestoreApply
  BY <1>13 DEF HistRestoreApply, histFigures, histGraph, histWorker
<1>14. CASE HistRestoreEnd
  BY <1>14 DEF HistRestoreEnd, histRoom, histFigures, histGraph, histWorker
<1>15. CASE \E p \in histPoints : HistRetire(p)
  BY <1>15 DEF HistRetire, histRoom, histFigures, histWorker
<1>16. CASE \E o \in 1..HistOps : HistExpire(o)
  BY <1>16 DEF HistExpire, histRoom, histFigures, histGraph, histWorker
<1>17. CASE \E t \in HistText : HistDrain(t)
  BY <1>17 DEF HistDrain, histRoom, histFigures, histWorker
<1>18. CASE HistAdmit
  BY <1>18 DEF HistAdmit, histRoom, histFigures, histGraph
<1>19. CASE HistDelete
  BY <1>19 DEF HistDelete, histRoom, histFigures, histGraph
<1>20. CASE HistComplete
  BY <1>20 DEF HistComplete, histRoom, histFigures, histGraph
<1>21. CASE HistCrash
  BY <1>21 DEF HistCrash, histGraph, HistWrites, HoldsLease
<1>22. CASE UNCHANGED histVars
  BY <1>22 DEF histVars, histRoom, histFigures, histGraph, histWorker
<1> QED  BY HistSteps, <1>1, <1>2, <1>3, <1>4, <1>5, <1>6, <1>7, <1>8, <1>9, <1>10,
         <1>11, <1>12, <1>13, <1>14, <1>15, <1>16, <1>17, <1>18, <1>19, <1>20,
         <1>21, <1>22

\* The queue loses what the worker has erased.
LEMMA HistQueueEffect ==
  ASSUME [HistNext]_histVars
  PROVE  \A k \in histQueued : \/ k \in histQueued'
                               \/ /\ k \in histDoomed /\ histErased
                                  /\ UNCHANGED histStore /\ histDoomed' = {}
<1>1. CASE HistEdit
  BY <1>1 DEF HistEdit, histFigures, histGraph, histWorker
<1>2. CASE HistFlush
  BY <1>2 DEF HistFlush, histFigures, histGraph, histWorker
<1>3. CASE \E f \in HistFigure : HistUploadPut(f)
  BY <1>3 DEF HistUploadPut, histRoom, histGraph, histWorker
<1>4. CASE \E f \in HistFigure : HistUploadEnd(f)
  BY <1>4 DEF HistUploadEnd, histRoom, histGraph, histWorker
<1>5. CASE HistCapture
  BY <1>5 DEF HistCapture, histFigures, histGraph, histWorker
<1>6. CASE HistLease
  BY <1>6 DEF HistLease, histRoom, histFigures, histGraph, histWorker
<1>7. CASE HistPut
  BY <1>7 DEF HistPut, histFigures, histGraph, histWorker
<1>8. CASE HistCommit
  BY <1>8 DEF HistCommit, histRoom, histFigures, histGraph, histWorker
<1>9. CASE HistShed
  BY <1>9 DEF HistShed, histRoom, histFigures, histGraph, histWorker, RemovePoints
<1>10. CASE HistErase
  BY <1>10 DEF HistErase, histRoom, histFigures, histGraph, histWorker
<1>11. CASE HistPrune
  BY <1>11 DEF HistPrune, histRoom, histFigures, histGraph, histWorker
<1>12. CASE \E p \in histPoints : HistRestoreLease(p)
  BY <1>12 DEF HistRestoreLease, histRoom, histFigures, histGraph, histWorker
<1>13. CASE HistRestoreApply
  BY <1>13 DEF HistRestoreApply, histFigures, histGraph, histWorker
<1>14. CASE HistRestoreEnd
  BY <1>14 DEF HistRestoreEnd, histRoom, histFigures, histGraph, histWorker
<1>15. CASE \E p \in histPoints : HistRetire(p)
  BY <1>15 DEF HistRetire, histRoom, histFigures, histWorker, RemovePoints
<1>16. CASE \E o \in 1..HistOps : HistExpire(o)
  BY <1>16 DEF HistExpire, histRoom, histFigures, histGraph, histWorker
<1>17. CASE \E t \in HistText : HistDrain(t)
  BY <1>17 DEF HistDrain, histRoom, histFigures, histWorker
<1>18. CASE HistAdmit
  BY <1>18 DEF HistAdmit, histRoom, histFigures, histGraph
<1>19. CASE HistDelete
  BY <1>19 DEF HistDelete, histRoom, histFigures, histGraph
<1>20. CASE HistComplete
  BY <1>20 DEF HistComplete, histRoom, histFigures, histGraph
<1>21. CASE HistCrash
  BY <1>21 DEF HistCrash, histGraph
<1>22. CASE UNCHANGED histVars
  BY <1>22 DEF histVars, histRoom, histFigures, histGraph, histWorker
<1> QED  BY HistSteps, <1>1, <1>2, <1>3, <1>4, <1>5, <1>6, <1>7, <1>8, <1>9, <1>10,
         <1>11, <1>12, <1>13, <1>14, <1>15, <1>16, <1>17, <1>18, <1>19, <1>20,
         <1>21, <1>22

\* The worker's page.
LEMMA HistWorkerEffect ==
  ASSUME [HistNext]_histVars
  PROVE  \/ HistAdmit \/ histDoomed' = {}
         \/ /\ UNCHANGED histDoomed
            /\ histErased' => histErased \/ histStore' = histStore \ histDoomed
<1>1. CASE HistEdit
  BY <1>1 DEF HistEdit, histFigures, histGraph, histWorker
<1>2. CASE HistFlush
  BY <1>2 DEF HistFlush, histFigures, histGraph, histWorker
<1>3. CASE \E f \in HistFigure : HistUploadPut(f)
  BY <1>3 DEF HistUploadPut, histRoom, histGraph, histWorker
<1>4. CASE \E f \in HistFigure : HistUploadEnd(f)
  BY <1>4 DEF HistUploadEnd, histRoom, histGraph, histWorker
<1>5. CASE HistCapture
  BY <1>5 DEF HistCapture, histFigures, histGraph, histWorker
<1>6. CASE HistLease
  BY <1>6 DEF HistLease, histRoom, histFigures, histGraph, histWorker
<1>7. CASE HistPut
  BY <1>7 DEF HistPut, histFigures, histGraph, histWorker
<1>8. CASE HistCommit
  BY <1>8 DEF HistCommit, histRoom, histFigures, histGraph, histWorker
<1>9. CASE HistShed
  BY <1>9 DEF HistShed, histRoom, histFigures, histGraph, histWorker
<1>10. CASE HistErase
  BY <1>10 DEF HistErase, histRoom, histFigures, histGraph, histWorker
<1>11. CASE HistPrune
  BY <1>11 DEF HistPrune, histRoom, histFigures, histGraph, histWorker
<1>12. CASE \E p \in histPoints : HistRestoreLease(p)
  BY <1>12 DEF HistRestoreLease, histRoom, histFigures, histGraph, histWorker
<1>13. CASE HistRestoreApply
  BY <1>13 DEF HistRestoreApply, histFigures, histGraph, histWorker
<1>14. CASE HistRestoreEnd
  BY <1>14 DEF HistRestoreEnd, histRoom, histFigures, histGraph, histWorker
<1>15. CASE \E p \in histPoints : HistRetire(p)
  BY <1>15 DEF HistRetire, histRoom, histFigures, histWorker
<1>16. CASE \E o \in 1..HistOps : HistExpire(o)
  BY <1>16 DEF HistExpire, histRoom, histFigures, histGraph, histWorker
<1>17. CASE \E t \in HistText : HistDrain(t)
  BY <1>17 DEF HistDrain, histRoom, histFigures, histWorker
<1>18. CASE HistAdmit
  BY <1>18 DEF HistAdmit, histRoom, histFigures, histGraph
<1>19. CASE HistDelete
  BY <1>19 DEF HistDelete, histRoom, histFigures, histGraph
<1>20. CASE HistComplete
  BY <1>20 DEF HistComplete, histRoom, histFigures, histGraph
<1>21. CASE HistCrash
  BY <1>21 DEF HistCrash, histGraph
<1>22. CASE UNCHANGED histVars
  BY <1>22 DEF histVars, histRoom, histFigures, histGraph, histWorker
<1> QED  BY HistSteps, <1>1, <1>2, <1>3, <1>4, <1>5, <1>6, <1>7, <1>8, <1>9, <1>10,
         <1>11, <1>12, <1>13, <1>14, <1>15, <1>16, <1>17, <1>18, <1>19, <1>20,
         <1>21, <1>22

\* Points are added by the commit of a checkpoint only; what the model
\* remembers of odd writers grows.
LEMMA HistPointEffect ==
  ASSUME [HistNext]_histVars
  PROVE  /\ histPoints' \subseteq histPoints \/ HistCommit
         /\ histOdd \subseteq histOdd'
         /\ histEdited' = histEdited \/ histEdited' = histEdited + 1
<1>1. CASE HistEdit
  BY <1>1 DEF HistEdit, histFigures, histGraph, histWorker
<1>2. CASE HistFlush
  BY <1>2 DEF HistFlush, histFigures, histGraph, histWorker, Appended
<1>3. CASE \E f \in HistFigure : HistUploadPut(f)
  BY <1>3 DEF HistUploadPut, histRoom, histGraph, histWorker
<1>4. CASE \E f \in HistFigure : HistUploadEnd(f)
  BY <1>4 DEF HistUploadEnd, histRoom, histGraph, histWorker
<1>5. CASE HistCapture
  BY <1>5 DEF HistCapture, histFigures, histGraph, histWorker, Appended
<1>6. CASE HistLease
  BY <1>6 DEF HistLease, histRoom, histFigures, histGraph, histWorker
<1>7. CASE HistPut
  BY <1>7 DEF HistPut, histFigures, histGraph, histWorker, Appended
<1>8. CASE HistCommit
  BY <1>8 DEF HistCommit, histRoom
<1>9. CASE HistShed
  BY <1>9 DEF HistShed, histRoom, histFigures, histGraph, histWorker, RemovePoints
<1>10. CASE HistErase
  BY <1>10 DEF HistErase, histRoom, histFigures, histGraph, histWorker
<1>11. CASE HistPrune
  BY <1>11 DEF HistPrune, histRoom, histFigures, histGraph, histWorker
<1>12. CASE \E p \in histPoints : HistRestoreLease(p)
  BY <1>12 DEF HistRestoreLease, histRoom, histFigures, histGraph, histWorker
<1>13. CASE HistRestoreApply
  BY <1>13 DEF HistRestoreApply, histFigures, histGraph, histWorker
<1>14. CASE HistRestoreEnd
  BY <1>14 DEF HistRestoreEnd, histRoom, histFigures, histGraph, histWorker
<1>15. CASE \E p \in histPoints : HistRetire(p)
  BY <1>15 DEF HistRetire, histRoom, histFigures, histWorker, RemovePoints
<1>16. CASE \E o \in 1..HistOps : HistExpire(o)
  BY <1>16 DEF HistExpire, histRoom, histFigures, histGraph, histWorker
<1>17. CASE \E t \in HistText : HistDrain(t)
  BY <1>17 DEF HistDrain, histRoom, histFigures, histWorker
<1>18. CASE HistAdmit
  BY <1>18 DEF HistAdmit, histRoom, histFigures, histGraph
<1>19. CASE HistDelete
  BY <1>19 DEF HistDelete, histRoom, histFigures, histGraph
<1>20. CASE HistComplete
  BY <1>20 DEF HistComplete, histRoom, histFigures, histGraph
<1>21. CASE HistCrash
  BY <1>21 DEF HistCrash, histGraph
<1>22. CASE UNCHANGED histVars
  BY <1>22 DEF histVars, histRoom, histFigures, histGraph, histWorker
<1> QED  BY HistSteps, <1>1, <1>2, <1>3, <1>4, <1>5, <1>6, <1>7, <1>8, <1>9, <1>10,
         <1>11, <1>12, <1>13, <1>14, <1>15, <1>16, <1>17, <1>18, <1>19, <1>20,
         <1>21, <1>22

\* A later pass finds the object.
HistFound(k) ==
  \/ \E t \in histEncoded : k \in SourceKeys(t)
  \/ \E l \in histLeases : l[2] = k
  \/ k \in histQueued

\* An encoding that goes leaves nothing behind that no pass finds.
HistForgets(t) ==
  /\ \A l \in histLeases' : l[2] \notin SourceKeys(t)
  /\ \A p \in histPoints' : p.text # t
  /\ \A k \in SourceKeys(t) : HistFound(k)'

\* Rows that are removed take only encodings that no row and no lease needs, and
\* what those had is needed otherwise or queued.
LEMMA HistRemoveEffect ==
  ASSUME PointsAreSound, NEW gone, NEW leases, NEW also, RemovePoints(gone, leases, also),
         histLeases' = leases, NEW t \in histEncoded, t \notin histEncoded'
  PROVE  HistForgets(t)
<1>1. /\ \A p \in histPoints \ gone : p.text # t
      /\ \A l \in leases : l[2] \notin SourceKeys(t)
  BY DEF RemovePoints, KeptEncodings, Leased
<1>2. ASSUME NEW k \in SourceKeys(t)  PROVE HistFound(k)'
  <2>1. CASE k \in Edges(histPoints \ gone)
    <3>1. PICK p \in histPoints \ gone : k \in SourceKeys(p.text)
      BY <2>1 DEF Edges
    <3>2. p.text \in histEncoded'
      BY <3>1 DEF RemovePoints, KeptEncodings, PointsAreSound
    <3> QED  BY <3>1, <3>2 DEF HistFound
  <2>2. CASE k \in Leased(leases)
    BY <2>2 DEF Leased, HistFound
  <2>3. CASE k \notin Edges(histPoints \ gone) /\ k \notin Leased(leases)
    <3>1. k \in UNION {SourceKeys(u) : u \in histEncoded}
      OBVIOUS
    <3>2. k \in UnusedSources(histPoints \ gone, leases)
      BY <2>3, <3>1 DEF UnusedSources
    <3> QED  BY <3>2 DEF RemovePoints, HistFound
  <2> QED  BY <2>1, <2>2, <2>3
<1> QED  BY <1>1, <1>2 DEF HistForgets, RemovePoints

\* So does every step that lets go of an encoding.
LEMMA HistEncodingEffect ==
  ASSUME PointsAreSound, [HistNext]_histVars, NEW e \in histEncoded, e \notin histEncoded'
  PROVE  HistForgets(e)
<1>1. CASE HistEdit
  BY <1>1 DEF HistEdit, histFigures, histGraph, histWorker
<1>2. CASE HistFlush
  BY <1>2 DEF HistFlush, histFigures, histGraph, histWorker
<1>3. CASE \E f \in HistFigure : HistUploadPut(f)
  BY <1>3 DEF HistUploadPut, histRoom, histGraph, histWorker
<1>4. CASE \E f \in HistFigure : HistUploadEnd(f)
  BY <1>4 DEF HistUploadEnd, histRoom, histGraph, histWorker
<1>5. CASE HistCapture
  BY <1>5 DEF HistCapture, histFigures, histGraph, histWorker
<1>6. CASE HistLease
  BY <1>6 DEF HistLease, histRoom, histFigures, histGraph, histWorker
<1>7. CASE HistPut
  BY <1>7 DEF HistPut, histFigures, histGraph, histWorker
<1>8. CASE HistCommit
  BY <1>8 DEF HistCommit, histRoom, histFigures, histGraph, histWorker
<1>9. CASE HistShed
  <2> DEFINE gone == {p \in histPoints : Cardinality({q \in histPoints : q.nth > p.nth}) >= HistKeep}
  <2>1. PICK left : left = {l \in histLeases : l[1] # histWriter.op}
    OBVIOUS
  <2>2. RemovePoints(gone, left, {}) /\ histLeases' = left
    BY <1>9, <2>1 DEF HistShed, histGraph
  <2>3. PICK x : x = gone
    OBVIOUS
  <2>4. RemovePoints(x, left, {})
    BY <2>2, <2>3
  <2> QED  BY <2>2, <2>4, HistRemoveEffect
<1>10. CASE HistErase
  BY <1>10 DEF HistErase, histRoom, histFigures, histGraph, histWorker
<1>11. CASE HistPrune
  BY <1>11 DEF HistPrune, histRoom, histFigures, histGraph, histWorker
<1>12. CASE \E p \in histPoints : HistRestoreLease(p)
  BY <1>12 DEF HistRestoreLease, histRoom, histFigures, histGraph, histWorker
<1>13. CASE HistRestoreApply
  BY <1>13 DEF HistRestoreApply, histFigures, histGraph, histWorker
<1>14. CASE HistRestoreEnd
  BY <1>14 DEF HistRestoreEnd, histRoom, histFigures, histGraph, histWorker
<1>15. CASE \E p \in histPoints : HistRetire(p)
  <2>1. PICK p \in histPoints : HistRetire(p)
    BY <1>15
  <2>2. PICK left : left = histLeases
    OBVIOUS
  <2>3. RemovePoints({p}, left, {TreeKey(p.id)}) /\ histLeases' = left
    BY <2>1, <2>2 DEF HistRetire
  <2> QED  BY <2>3, HistRemoveEffect
<1>16. CASE \E o \in 1..HistOps : HistExpire(o)
  BY <1>16 DEF HistExpire, histRoom, histFigures, histGraph, histWorker
<1>17. CASE \E t \in HistText : HistDrain(t)
  <2>1. HistDrain(e)
    BY <1>17 DEF HistDrain
  <2>2. /\ \A l \in histLeases' : l[2] \notin SourceKeys(e)
        /\ \A p \in histPoints' : p.text # e
    BY <2>1 DEF HistDrain, Leased
  <2>3. ASSUME NEW k \in SourceKeys(e)  PROVE HistFound(k)'
    BY <2>1 DEF HistDrain, HistFound
  <2> QED  BY <2>2, <2>3 DEF HistForgets
<1>18. CASE HistAdmit
  BY <1>18 DEF HistAdmit, histRoom, histFigures, histGraph
<1>19. CASE HistDelete
  BY <1>19 DEF HistDelete, histRoom, histFigures, histGraph
<1>20. CASE HistComplete
  BY <1>20 DEF HistComplete, histRoom, histFigures, histGraph
<1>21. CASE HistCrash
  BY <1>21 DEF HistCrash, histGraph
<1>22. CASE UNCHANGED histVars
  BY <1>22 DEF histVars, histRoom, histFigures, histGraph, histWorker
<1> QED  BY HistSteps, <1>1, <1>2, <1>3, <1>4, <1>5, <1>6, <1>7, <1>8, <1>9, <1>10,
         <1>11, <1>12, <1>13, <1>14, <1>15, <1>16, <1>17, <1>18, <1>19, <1>20,
         <1>21, <1>22

\* A lease that goes does not either.
LEMMA HistDropEffect ==
  ASSUME PointsAreSound, WriterIsSound, RestoreIsSound, [HistNext]_histVars,
         NEW l \in histLeases, l \notin histLeases', IsSource(l[2])
  PROVE  HistFound(l[2])' \/ \E t \in histEncoded : l[2] \in SourceKeys(t)
<1>1. CASE HistEdit
  BY <1>1 DEF HistEdit, histFigures, histGraph, histWorker
<1>2. CASE HistFlush
  BY <1>2 DEF HistFlush, histFigures, histGraph, histWorker
<1>3. CASE \E f \in HistFigure : HistUploadPut(f)
  BY <1>3 DEF HistUploadPut, histRoom, histGraph, histWorker
<1>4. CASE \E f \in HistFigure : HistUploadEnd(f)
  BY <1>4 DEF HistUploadEnd, histRoom, histGraph, histWorker
<1>5. CASE HistCapture
  BY <1>5 DEF HistCapture, histFigures, histGraph, histWorker
<1>6. CASE HistLease
  BY <1>6 DEF HistLease, histRoom, histFigures, histGraph, histWorker, Leasing
<1>7. CASE HistPut
  BY <1>7 DEF HistPut, histFigures, histGraph, histWorker
<1>8. CASE HistCommit
  BY <1>8 DEF HistCommit, histRoom, histFigures, histGraph, histWorker
<1>9. CASE HistShed
  BY <1>9 DEF HistShed, histRoom, histFigures, histGraph, histWorker, WriterIsSound, LeasesEncoded
<1>10. CASE HistErase
  BY <1>10 DEF HistErase, histRoom, histFigures, histGraph, histWorker
<1>11. CASE HistPrune
  BY <1>11 DEF HistPrune, histRoom, histFigures, histGraph, histWorker
<1>12. CASE \E p \in histPoints : HistRestoreLease(p)
  BY <1>12 DEF HistRestoreLease, histRoom, histFigures, histGraph, histWorker, Leasing
<1>13. CASE HistRestoreApply
  BY <1>13 DEF HistRestoreApply, histFigures, histGraph, histWorker
<1>14. CASE HistRestoreEnd
  BY <1>14 DEF HistRestoreEnd, histRoom, histFigures, histGraph, histWorker, RestoreIsSound, LeasesEncoded
<1>15. CASE \E p \in histPoints : HistRetire(p)
  BY <1>15 DEF HistRetire, histRoom, histFigures, histWorker
<1>16. CASE \E o \in 1..HistOps : HistExpire(o)
  <2>1. PICK o \in 1..HistOps : HistExpire(o)
    BY <1>16
  <2>2. PICK left : left = {m \in histLeases : m[1] # o}
    OBVIOUS
  <2>3. histLeases' = left /\ l \in histLeases \ left
    BY <2>1, <2>2 DEF HistExpire
  <2>4. CASE l[2] \in Edges(histPoints)
    BY <2>4 DEF Edges, PointsAreSound
  <2>5. CASE l[2] \in Leased(left)
    BY <2>3, <2>5 DEF Leased, HistFound
  <2>6. CASE l[2] \notin Edges(histPoints) /\ l[2] \notin Leased(left)
    <3>1. l[2] \in Abandoned(Leased(histLeases \ left), left)
      BY <2>3, <2>6 DEF Abandoned, Leased
    <3> QED  BY <2>1, <2>2, <3>1 DEF HistExpire, HistFound
  <2> QED  BY <2>4, <2>5, <2>6
<1>17. CASE \E t \in HistText : HistDrain(t)
  BY <1>17 DEF HistDrain, histRoom, histFigures, histWorker
<1>18. CASE HistAdmit
  BY <1>18 DEF HistAdmit, histRoom, histFigures, histGraph
<1>19. CASE HistDelete
  BY <1>19 DEF HistDelete, histRoom, histFigures, histGraph
<1>20. CASE HistComplete
  BY <1>20 DEF HistComplete, histRoom, histFigures, histGraph
<1>21. CASE HistCrash
  BY <1>21 DEF HistCrash, histGraph
<1>22. CASE UNCHANGED histVars
  BY <1>22 DEF histVars, histRoom, histFigures, histGraph, histWorker
<1> QED  BY HistSteps, <1>1, <1>2, <1>3, <1>4, <1>5, <1>6, <1>7, <1>8, <1>9, <1>10,
         <1>11, <1>12, <1>13, <1>14, <1>15, <1>16, <1>17, <1>18, <1>19, <1>20,
         <1>21, <1>22

\* The restore's record goes on but for its step.
HistStepsTo(s) ==
  histRestore' = [step |-> s, op |-> histRestore.op, text |-> histRestore.text,
                  figs |-> histRestore.figs, base |-> histRestore.base]

\* Changing the step of a restore leaves the rest of its record alone.
LEMMA HistRestoreStep ==
  ASSUME RestoreIsSound, histRestore.step # "idle", NEW s,
         histRestore' = [histRestore EXCEPT !.step = s]
  PROVE  HistStepsTo(s)
<1>1. PICK o, t, f, b : histRestore = [step |-> histRestore.step, op |-> o, text |-> t,
                                       figs |-> f, base |-> b]
  BY DEF RestoreIsSound
<1>2. /\ histRestore.op = o /\ histRestore.text = t /\ histRestore.figs = f
      /\ histRestore.base = b
  BY <1>1
<1>3. histRestore' = [step |-> s, op |-> o, text |-> t, figs |-> f, base |-> b]
  BY <1>1
<1> QED  BY <1>2, <1>3 DEF HistStepsTo

\* The end of a writer lets a restore that waits for its checkpoint release.
LEMMA HistEndsEffect ==
  ASSUME RestoreIsSound, WriterEnds
  PROVE  /\ histWriter' = HistIdle
         /\ \/ UNCHANGED histRestore
            \/ histRestore.step = "checkpoint" /\ HistStepsTo("release")
<1>1. CASE histRestore.step = "checkpoint"
  BY <1>1, HistRestoreStep DEF WriterEnds
<1>2. CASE histRestore.step # "checkpoint"
  BY <1>2 DEF WriterEnds
<1> QED  BY <1>1, <1>2

\* How the restore goes on.
LEMMA HistRestoreEffect ==
  ASSUME RestoreIsSound, [HistNext]_histVars
  PROVE  \/ UNCHANGED histRestore \/ histRestore' = HistIdle
         \/ \E p \in histPoints : HistRestoreLease(p)
         \/ HistRestoreApply
         \/ /\ histRestore.step = "applied" /\ HistStepsTo("checkpoint")
            /\ histWriter = HistIdle
         \/ /\ histRestore.step = "checkpoint" /\ HistStepsTo("release")
            /\ histWriter' = HistIdle
<1>1. CASE HistEdit
  BY <1>1 DEF HistEdit, histFigures, histGraph, histWorker
<1>2. CASE HistFlush
  BY <1>2 DEF HistFlush, histFigures, histGraph, histWorker
<1>3. CASE \E f \in HistFigure : HistUploadPut(f)
  BY <1>3 DEF HistUploadPut, histRoom, histGraph, histWorker
<1>4. CASE \E f \in HistFigure : HistUploadEnd(f)
  BY <1>4 DEF HistUploadEnd, histRoom, histGraph, histWorker
<1>5. CASE HistCapture
  <2>1. CASE histRestore.step = "applied"
    BY <1>5, <2>1, HistRestoreStep DEF HistCapture
  <2>2. CASE histRestore.step # "applied"
    BY <1>5, <2>2 DEF HistCapture
  <2> QED  BY <2>1, <2>2
<1>6. CASE HistLease
  BY <1>6, HistEndsEffect DEF HistLease, histRoom, histFigures, histGraph, histWorker
<1>7. CASE HistPut
  BY <1>7, HistEndsEffect DEF HistPut, histFigures, histGraph, histWorker
<1>8. CASE HistCommit
  BY <1>8, HistEndsEffect DEF HistCommit, histRoom, histFigures, histGraph, histWorker
<1>9. CASE HistShed
  BY <1>9 DEF HistShed, histRoom, histFigures, histGraph, histWorker
<1>10. CASE HistErase
  BY <1>10 DEF HistErase, histRoom, histFigures, histGraph, histWorker
<1>11. CASE HistPrune
  BY <1>11, HistEndsEffect DEF HistPrune, histRoom, histFigures, histGraph, histWorker
<1>12. CASE \E p \in histPoints : HistRestoreLease(p)
  BY <1>12 DEF HistRestoreLease, histRoom, histFigures, histGraph, histWorker
<1>13. CASE HistRestoreApply
  BY <1>13 DEF HistRestoreApply, histFigures, histGraph, histWorker
<1>14. CASE HistRestoreEnd
  BY <1>14 DEF HistRestoreEnd, histRoom, histFigures, histGraph, histWorker
<1>15. CASE \E p \in histPoints : HistRetire(p)
  BY <1>15 DEF HistRetire, histRoom, histFigures, histWorker
<1>16. CASE \E o \in 1..HistOps : HistExpire(o)
  BY <1>16 DEF HistExpire, histRoom, histFigures, histGraph, histWorker
<1>17. CASE \E t \in HistText : HistDrain(t)
  BY <1>17 DEF HistDrain, histRoom, histFigures, histWorker
<1>18. CASE HistAdmit
  BY <1>18 DEF HistAdmit, histRoom, histFigures, histGraph
<1>19. CASE HistDelete
  BY <1>19 DEF HistDelete, histRoom, histFigures, histGraph
<1>20. CASE HistComplete
  BY <1>20 DEF HistComplete, histRoom, histFigures, histGraph
<1>21. CASE HistCrash
  BY <1>21 DEF HistCrash, histGraph
<1>22. CASE UNCHANGED histVars
  BY <1>22 DEF histVars, histRoom, histFigures, histGraph, histWorker
<1> QED  BY HistSteps, <1>1, <1>2, <1>3, <1>4, <1>5, <1>6, <1>7, <1>8, <1>9, <1>10,
         <1>11, <1>12, <1>13, <1>14, <1>15, <1>16, <1>17, <1>18, <1>19, <1>20,
         <1>21, <1>22

\* A restore is applied when its figures are found, or gives up.
LEMMA HistApplyEffect ==
  ASSUME RestoreIsSound, HistRestoreApply
  PROVE  \/ HistStepsTo("release")
         \/ /\ HistStepsTo("applied") /\ histEdited' = histEdited + 1
            /\ AssetKeys(histRestore.figs) \subseteq histStore /\ UNCHANGED histStore
<1>1. CASE Readable(histRestore.figs)
  BY <1>1, HistRestoreStep DEF HistRestoreApply, Readable
<1>2. CASE ~Readable(histRestore.figs)
  BY <1>2, HistRestoreStep DEF HistRestoreApply
<1> QED  BY <1>1, <1>2

\* Only an application, which counts as a change, makes a restore "applied".
LEMMA HistAppliedEffect ==
  ASSUME RestoreIsSound, [HistNext]_histVars, histRestore'.step = "applied"
  PROVE  histRestore.step = "applied" \/ histEdited' = histEdited + 1
<1>1. CASE \E p \in histPoints : HistRestoreLease(p)
  BY <1>1 DEF HistRestoreLease
<1>2. CASE HistRestoreApply
  BY <1>2, HistApplyEffect DEF HistStepsTo
<1> QED  BY <1>1, <1>2, HistRestoreEffect DEF HistStepsTo, HistIdle

\* How the writer goes on.
LEMMA HistWriterEffect ==
  ASSUME [HistNext]_histVars
  PROVE  \/ UNCHANGED histWriter \/ histWriter' = HistIdle
         \/ HistCapture \/ HistLease \/ HistPut \/ HistCommit \/ HistShed \/ HistErase
<1>1. CASE HistEdit
  BY <1>1 DEF HistEdit, histFigures, histGraph, histWorker
<1>2. CASE HistFlush
  BY <1>2 DEF HistFlush, histFigures, histGraph, histWorker
<1>3. CASE \E f \in HistFigure : HistUploadPut(f)
  BY <1>3 DEF HistUploadPut, histRoom, histGraph, histWorker
<1>4. CASE \E f \in HistFigure : HistUploadEnd(f)
  BY <1>4 DEF HistUploadEnd, histRoom, histGraph, histWorker
<1>5. CASE HistCapture
  BY <1>5 DEF HistCapture, histFigures, histGraph, histWorker
<1>6. CASE HistLease
  BY <1>6 DEF HistLease, histRoom, histFigures, histGraph, histWorker
<1>7. CASE HistPut
  BY <1>7 DEF HistPut, histFigures, histGraph, histWorker
<1>8. CASE HistCommit
  BY <1>8 DEF HistCommit, histRoom, histFigures, histGraph, histWorker
<1>9. CASE HistShed
  BY <1>9 DEF HistShed, histRoom, histFigures, histGraph, histWorker
<1>10. CASE HistErase
  BY <1>10 DEF HistErase, histRoom, histFigures, histGraph, histWorker
<1>11. CASE HistPrune
  BY <1>11 DEF HistPrune, histRoom, histFigures, histGraph, histWorker, WriterEnds
<1>12. CASE \E p \in histPoints : HistRestoreLease(p)
  BY <1>12 DEF HistRestoreLease, histRoom, histFigures, histGraph, histWorker
<1>13. CASE HistRestoreApply
  BY <1>13 DEF HistRestoreApply, histFigures, histGraph, histWorker
<1>14. CASE HistRestoreEnd
  BY <1>14 DEF HistRestoreEnd, histRoom, histFigures, histGraph, histWorker
<1>15. CASE \E p \in histPoints : HistRetire(p)
  BY <1>15 DEF HistRetire, histRoom, histFigures, histWorker
<1>16. CASE \E o \in 1..HistOps : HistExpire(o)
  BY <1>16 DEF HistExpire, histRoom, histFigures, histGraph, histWorker
<1>17. CASE \E t \in HistText : HistDrain(t)
  BY <1>17 DEF HistDrain, histRoom, histFigures, histWorker
<1>18. CASE HistAdmit
  BY <1>18 DEF HistAdmit, histRoom, histFigures, histGraph
<1>19. CASE HistDelete
  BY <1>19 DEF HistDelete, histRoom, histFigures, histGraph
<1>20. CASE HistComplete
  BY <1>20 DEF HistComplete, histRoom, histFigures, histGraph
<1>21. CASE HistCrash
  BY <1>21 DEF HistCrash, histGraph
<1>22. CASE UNCHANGED histVars
  BY <1>22 DEF histVars, histRoom, histFigures, histGraph, histWorker
<1> QED  BY HistSteps, <1>1, <1>2, <1>3, <1>4, <1>5, <1>6, <1>7, <1>8, <1>9, <1>10,
         <1>11, <1>12, <1>13, <1>14, <1>15, <1>16, <1>17, <1>18, <1>19, <1>20,
         <1>21, <1>22

\* A restore is over when its lease is released, or with the process.
LEMMA HistIdleEffect ==
  ASSUME RestoreIsSound, [HistNext]_histVars, histRestore' = HistIdle
  PROVE  \/ histRestore = HistIdle \/ HistRestoreEnd \/ histWriter' = HistIdle
<1>1. CASE HistEdit
  BY <1>1 DEF HistEdit, histFigures, histGraph, histWorker
<1>2. CASE HistFlush
  BY <1>2 DEF HistFlush, histFigures, histGraph, histWorker
<1>3. CASE \E f \in HistFigure : HistUploadPut(f)
  BY <1>3 DEF HistUploadPut, histRoom, histGraph, histWorker
<1>4. CASE \E f \in HistFigure : HistUploadEnd(f)
  BY <1>4 DEF HistUploadEnd, histRoom, histGraph, histWorker
<1>5. CASE HistCapture
  <2>1. CASE histRestore.step = "applied"
    BY <1>5, <2>1, HistRestoreStep DEF HistCapture, HistStepsTo, HistIdle
  <2>2. CASE histRestore.step # "applied"
    BY <1>5, <2>2 DEF HistCapture
  <2> QED  BY <2>1, <2>2
<1>6. CASE HistLease
  BY <1>6 DEF HistLease, histRoom, histFigures, histGraph, histWorker, WriterEnds
<1>7. CASE HistPut
  BY <1>7 DEF HistPut, histFigures, histGraph, histWorker, WriterEnds
<1>8. CASE HistCommit
  BY <1>8 DEF HistCommit, histRoom, histFigures, histGraph, histWorker, WriterEnds
<1>9. CASE HistShed
  BY <1>9 DEF HistShed, histRoom, histFigures, histGraph, histWorker
<1>10. CASE HistErase
  BY <1>10 DEF HistErase, histRoom, histFigures, histGraph, histWorker
<1>11. CASE HistPrune
  BY <1>11 DEF HistPrune, histRoom, histFigures, histGraph, histWorker, WriterEnds
<1>12. CASE \E p \in histPoints : HistRestoreLease(p)
  BY <1>12 DEF HistRestoreLease, histRoom, histFigures, histGraph, histWorker, HistIdle
<1>13. CASE HistRestoreApply
  BY <1>13, HistApplyEffect DEF HistRestoreApply, histFigures, histGraph, histWorker, HistStepsTo, HistIdle
<1>14. CASE HistRestoreEnd
  BY <1>14 DEF HistRestoreEnd, histRoom, histFigures, histGraph, histWorker
<1>15. CASE \E p \in histPoints : HistRetire(p)
  BY <1>15 DEF HistRetire, histRoom, histFigures, histWorker
<1>16. CASE \E o \in 1..HistOps : HistExpire(o)
  BY <1>16 DEF HistExpire, histRoom, histFigures, histGraph, histWorker
<1>17. CASE \E t \in HistText : HistDrain(t)
  BY <1>17 DEF HistDrain, histRoom, histFigures, histWorker
<1>18. CASE HistAdmit
  BY <1>18 DEF HistAdmit, histRoom, histFigures, histGraph
<1>19. CASE HistDelete
  BY <1>19 DEF HistDelete, histRoom, histFigures, histGraph
<1>20. CASE HistComplete
  BY <1>20 DEF HistComplete, histRoom, histFigures, histGraph
<1>21. CASE HistCrash
  BY <1>21 DEF HistCrash, histGraph
<1>22. CASE UNCHANGED histVars
  BY <1>22 DEF histVars, histRoom, histFigures, histGraph, histWorker
<1> QED  BY HistSteps, <1>1, <1>2, <1>3, <1>4, <1>5, <1>6, <1>7, <1>8, <1>9, <1>10,
         <1>11, <1>12, <1>13, <1>14, <1>15, <1>16, <1>17, <1>18, <1>19, <1>20,
         <1>21, <1>22

\* A commit adds the captured checkpoint, under a standing lease, or ends the
\* writer.
HistCommitted(p) ==
  /\ histWriter.step = "commit" /\ HoldsLease(histWriter.op)
  /\ p.id = histWriter.id /\ p.text = histWriter.text /\ p.figs = histWriter.figs
  /\ histPoints' = histPoints \cup {p}
  /\ histEncoded' = histEncoded \cup {histWriter.text}
  /\ histWriter' = [step |-> "finish", op |-> histWriter.op]
  /\ UNCHANGED histRestore

\* A commit is one of the two.
LEMMA HistCommitEffect ==
  ASSUME HistCommit
  PROVE  \/ UNCHANGED <<histPoints, histEncoded>> /\ WriterEnds
         \/ \E p : HistCommitted(p)
<1>1. CASE HoldsLease(histWriter.op) /\ SourceKeys(histWriter.text) \cap histQueued = {}
  <2>1. PICK n : n = 1 + Max({0} \cup {p.nth : p \in histPoints})
    OBVIOUS
  <2>2. PICK p : p = [id |-> histWriter.id, text |-> histWriter.text, figs |-> histWriter.figs,
                      seq |-> histWriter.seq, nth |-> n]
    OBVIOUS
  <2>3. histPoints' = histPoints \cup {p}
    BY <1>1, <2>1, <2>2 DEF HistCommit
  <2>4. /\ histWriter.step = "commit" /\ histEncoded' = histEncoded \cup {histWriter.text}
        /\ histWriter' = [step |-> "finish", op |-> histWriter.op]
        /\ UNCHANGED histRestore
    BY <1>1 DEF HistCommit
  <2>5. HistCommitted(p)
    BY <1>1, <2>2, <2>3, <2>4 DEF HistCommitted
  <2> QED  BY <2>5
<1>2. CASE ~(HoldsLease(histWriter.op) /\ SourceKeys(histWriter.text) \cap histQueued = {})
  BY <1>2 DEF HistCommit, histGraph
<1> QED  BY <1>1, <1>2

\* No step leaves an encoded source that no pass finds: an encoding or a lease
\* that goes names or queues what it had, the queue loses only what is erased,
\* and what is written is leased.
LEMMA HistLeaksKept ==
  ASSUME WorkerIsSound, PointsAreSound, WriterIsSound, RestoreIsSound, HistNoSourceLeaks,
         [HistNext]_histVars
  PROVE  HistNoSourceLeaks'
<1> SUFFICES ASSUME "late" \notin histOdd', NEW k \in histStore', IsSource(k)
             PROVE  HistFound(k)'
  BY DEF HistNoSourceLeaks, HistFound, Leased
<1>1. "late" \notin histOdd
  BY HistPointEffect
<1>2. ASSUME NEW t \in histEncoded, k \in SourceKeys(t)  PROVE HistFound(k)'
  BY <1>2, HistEncodingEffect DEF HistForgets, HistFound
<1>3. ASSUME NEW l \in histLeases, l[2] = k  PROVE HistFound(k)'
  <2>1. CASE l \in histLeases'
    BY <1>3, <2>1 DEF HistFound
  <2>2. CASE l \notin histLeases'
    BY <1>2, <1>3, <2>2, HistDropEffect
  <2> QED  BY <2>1, <2>2
<1>4. CASE k \in histStore
  <2>1. CASE k \in histQueued
    BY <1>4, <2>1, HistQueueEffect DEF HistFound, WorkerIsSound
  <2> QED  BY <1>1, <1>2, <1>3, <1>4, <2>1 DEF HistNoSourceLeaks, Leased
<1>5. CASE k \notin histStore
  <2>1. HistWrites(k)
    BY <1>5, HistStoreEffect, HistKinds
  <2>2. /\ histWriter.step = "put" /\ k \in WriterKeys(histWriter) /\ HoldsLease(histWriter.op)
    BY <2>1 DEF HistWrites, WriterIsSound
  <2>3. \E l \in histLeases : l[2] = k
    BY <2>2 DEF WriterIsSound, LeasesAll
  <2> QED  BY <1>3, <2>3
<1> QED  BY <1>4, <1>5

\* Nobody comes to need what the worker has admitted: leases refuse what is
\* queued, and a commit has leased what its checkpoint names.
LEMMA HistWorkerKept ==
  ASSUME WorkerIsSound, WriterIsSound, [HistNext]_histVars
  PROVE  WorkerIsSound'
<1>1. CASE HistAdmit
  <2>1. /\ histDoomed' \subseteq histQueued /\ UNCHANGED <<histQueued, histLeases, histPoints>>
        /\ \A k \in histDoomed' : Due(k)
        /\ ~histErased'
    BY <1>1 DEF HistAdmit, histGraph
  <2>2. \A k \in histDoomed' : \A l \in histLeases : l[2] # k
    BY <2>1 DEF Due, Leased
  <2>3. ASSUME NEW p \in histPoints, NEW k \in PointKeys(p)  PROVE ~Due(k)
    <3>1. CASE k = TreeKey(p.id)
      BY <3>1, HistKinds DEF Due
    <3>2. CASE k \in SourceKeys(p.text)
      BY <3>2 DEF Due, Edges
    <3>3. CASE k \in AssetKeys(p.figs)
      BY <3>3, HistKinds DEF Due, Refs
    <3> QED  BY <3>1, <3>2, <3>3 DEF PointKeys
  <2> QED  BY <2>1, <2>2, <2>3 DEF WorkerIsSound
<1>2. CASE histDoomed' = {}
  BY <1>2 DEF WorkerIsSound
<1>3. CASE /\ histDoomed' = histDoomed /\ histDoomed' # {}
           /\ histErased' => histErased \/ histStore' = histStore \ histDoomed
  <2>1. histDoomed \subseteq histQueued'
    BY <1>3, HistQueueEffect DEF WorkerIsSound
  <2>2. \A l \in histLeases' : l[2] \notin histDoomed
    <3>1. CASE UNCHANGED histLeases
      BY <3>1 DEF WorkerIsSound
    <3>2. ASSUME NEW o, NEW keys, HistOpens(o, keys)  PROVE \A l \in histLeases' : l[2] \notin histDoomed
      BY <3>2 DEF WorkerIsSound, HistOpens, Leasing
    <3>3. ASSUME NEW o, HistDrops(o)  PROVE \A l \in histLeases' : l[2] \notin histDoomed
      BY <3>3 DEF WorkerIsSound, HistDrops
    <3> QED  BY <3>1, <3>2, <3>3, HistLeaseEffect
  <2>3. \A p \in histPoints' : \A k \in PointKeys(p) : k \notin histDoomed
    <3>1. CASE histPoints' \subseteq histPoints
      BY <3>1 DEF WorkerIsSound
    <3>2. ASSUME HistCommit, NEW p \in histPoints', p \notin histPoints, NEW k \in PointKeys(p)
          PROVE  k \notin histDoomed
      <4>1. /\ HoldsLease(histWriter.op) /\ histWriter.step = "commit"
            /\ p.id = histWriter.id /\ p.text = histWriter.text /\ p.figs = histWriter.figs
        BY <3>2, HistCommitEffect DEF HistCommitted
      <4>2. k \in WriterKeys(histWriter)
        BY <4>1 DEF PointKeys, WriterKeys
      <4>3. \E l \in histLeases : l[2] = k
        BY <4>1, <4>2 DEF WriterIsSound, LeasesAll
      <4> QED  BY <4>3 DEF WorkerIsSound
    <3> QED  BY <3>1, <3>2, HistPointEffect DEF WorkerIsSound
  <2>4. ASSUME histErased', NEW k \in histDoomed, IsSource(k)  PROVE k \notin histStore'
    <3>1. CASE histStore' = histStore \ histDoomed
      BY <3>1
    <3>2. CASE histErased
      <4>1. k \notin histStore /\ k \in histQueued
        BY <2>4, <3>2 DEF WorkerIsSound
      <4>2. k \notin histWriter.put \/ ~HistWrites(k)
        BY <1>3, <4>1 DEF HistWrites
      <4> QED  BY <2>4, <4>1, <4>2, HistStoreEffect, HistKinds DEF HistWrites
    <3> QED  BY <1>3, <2>4, <3>1, <3>2
  <2> QED  BY <1>3, <2>1, <2>2, <2>3, <2>4 DEF WorkerIsSound
<1> QED  BY <1>1, <1>2, <1>3, HistWorkerEffect

\* What a retained checkpoint, or the standing lease of an operation, needs is
\* not erased.
LEMMA HistKeeps ==
  ASSUME WorkerIsSound, WriterIsSound, [HistNext]_histVars
  PROVE  /\ \A p \in histPoints : \A k \in PointKeys(p) : k \in histStore => k \in histStore'
         /\ \A l \in histLeases : l[2] \in histStore =>
              l[2] \in histStore' \/ (histWriter.step = "erase" /\ l[2][1] = "tree")
<1>1. ASSUME NEW p \in histPoints, NEW k \in PointKeys(p), k \in histWriter.keys,
             histWriter.step = "erase"
      PROVE  FALSE
  <2>1. k[1] = "tree" /\ TreeKey(p.id) # k
    BY <1>1 DEF WriterIsSound
  <2> QED  BY <2>1, HistKinds DEF PointKeys
<1>2. \A p \in histPoints : \A k \in PointKeys(p) : k \in histStore => k \in histStore'
  BY <1>1, HistStoreEffect DEF WorkerIsSound
<1>3. \A l \in histLeases : l[2] \in histStore =>
              l[2] \in histStore' \/ (histWriter.step = "erase" /\ l[2][1] = "tree")
  BY HistStoreEffect DEF WorkerIsSound, WriterIsSound
<1> QED  BY <1>2, <1>3

\* The lease of an operation goes on standing as it was, or is not there.
LEMMA HistLeaseStands ==
  ASSUME [HistNext]_histVars, NEW x, HoldsLease(x)',
         \/ histRestore.step # "idle" /\ histRestore.op = x
         \/ histWriter.step \in {"put", "commit", "finish"} /\ histWriter.op = x
  PROVE  /\ HoldsLease(x)
         /\ \A l \in histLeases : l[1] = x => l \in histLeases'
         /\ \A l \in histLeases' : l[1] = x => l \in histLeases
<1>1. CASE UNCHANGED histLeases
  BY <1>1 DEF HoldsLease
<1>2. ASSUME NEW o, NEW keys, HistOpens(o, keys)
      PROVE  /\ HoldsLease(x)
             /\ \A l \in histLeases : l[1] = x => l \in histLeases'
             /\ \A l \in histLeases' : l[1] = x => l \in histLeases
  <2>1. o # x
    BY <1>2 DEF HistOpens, NextOp, Renewing
  <2> QED  BY <1>2, <2>1 DEF HistOpens, Leasing, HoldsLease
<1>3. ASSUME NEW o, HistDrops(o)
      PROVE  /\ HoldsLease(x)
             /\ \A l \in histLeases : l[1] = x => l \in histLeases'
             /\ \A l \in histLeases' : l[1] = x => l \in histLeases
  BY <1>3 DEF HistDrops, HoldsLease
<1> QED  BY <1>1, <1>2, <1>3, HistLeaseEffect

\* So it goes on having all of its objects, and its sources their encodings.
LEMMA HistLeasesKept ==
  ASSUME PointsAreSound, [HistNext]_histVars, NEW x,
         \/ histRestore.step # "idle" /\ histRestore.op = x
         \/ histWriter.step \in {"put", "commit", "finish"} /\ histWriter.op = x
  PROVE  /\ \A keys : LeasesAll(x, keys) => LeasesAll(x, keys)'
         /\ LeasesEncoded(x) => LeasesEncoded(x)'
<1>1. ASSUME NEW keys, LeasesAll(x, keys)  PROVE LeasesAll(x, keys)'
  BY <1>1, HistLeaseStands DEF LeasesAll
<1>2. ASSUME LeasesEncoded(x), NEW l \in histLeases', l[1] = x, IsSource(l[2])
      PROVE  \E t \in histEncoded' : l[2] \in SourceKeys(t)
  <2>1. l \in histLeases
    BY <1>2, HistLeaseStands DEF HoldsLease
  <2>2. PICK t \in histEncoded : l[2] \in SourceKeys(t)
    BY <1>2, <2>1 DEF LeasesEncoded
  <2> QED  BY <2>2, HistEncodingEffect DEF HistForgets
<1> QED  BY <1>1, <1>2 DEF LeasesEncoded

\* Retained checkpoints stay readable and distinct; a commit adds one whose
\* objects are all there.
LEMMA HistPointsKept ==
  ASSUME WorkerIsSound, PointsAreSound, WriterIsSound, RestoreIsSound, [HistNext]_histVars
  PROVE  PointsAreSound'
<1>1. /\ "missing" \notin histOdd' => "missing" \notin histOdd
      /\ histEdited' \in Nat /\ histEdited <= histEdited'
  BY HistPointEffect DEF PointsAreSound
<1>2. ASSUME histRestore'.step = "applied"
      PROVE  histRestore.step = "applied" \/ histEdited' = histEdited + 1
  BY <1>2, HistAppliedEffect
<1>3. ASSUME NEW p \in histPoints', p \in histPoints
      PROVE  /\ p.id[1] = p.text /\ p.id[2] = p.figs /\ p.id[3] \in Nat /\ p.id[3] <= histEdited'
             /\ p.text \in histEncoded'
             /\ "missing" \notin histOdd' => PointKeys(p) \subseteq histStore'
             /\ histRestore'.step = "applied" => p.id[3] < histEdited'
  <2>1. /\ p.id[1] = p.text /\ p.id[2] = p.figs /\ p.id[3] \in Nat /\ p.id[3] <= histEdited
        /\ p.text \in histEncoded
        /\ "missing" \notin histOdd => PointKeys(p) \subseteq histStore
        /\ histRestore.step = "applied" => p.id[3] < histEdited
    BY <1>3 DEF PointsAreSound
  <2>2. p.text \in histEncoded'
    BY <1>3, <2>1, HistEncodingEffect DEF HistForgets
  <2>3. "missing" \notin histOdd' => PointKeys(p) \subseteq histStore'
    BY <1>1, <1>3, <2>1, HistKeeps
  <2>4. histRestore'.step = "applied" => p.id[3] < histEdited'
    BY <1>1, <1>2, <2>1 DEF PointsAreSound
  <2> QED  BY <1>1, <2>1, <2>2, <2>3, <2>4 DEF PointsAreSound
<1>4. CASE histPoints' \subseteq histPoints
  BY <1>1, <1>3, <1>4 DEF PointsAreSound
<1>5. ASSUME NEW n, HistCommit, HistCommitted(n)  PROVE PointsAreSound'
  <2>1. /\ CaptureIsSound /\ n.id = histWriter.id
        /\ n.text = histWriter.text /\ n.figs = histWriter.figs
    BY <1>5 DEF HistCommitted, WriterIsSound
  <2>2. PointKeys(n) = WriterKeys(histWriter)
    BY <2>1 DEF PointKeys, WriterKeys
  <2>3. UNCHANGED <<histEdited, histStore, histOdd, histRestore>>
    BY <1>5 DEF HistCommit, HistCommitted, histRoom
  <2>4. /\ n.id[1] = n.text /\ n.id[2] = n.figs /\ n.id[3] \in Nat /\ n.id[3] <= histEdited'
        /\ n.text \in histEncoded'
    BY <1>5, <2>1, <2>3 DEF CaptureIsSound, HistCommitted
  <2>5. "missing" \notin histOdd' => PointKeys(n) \subseteq histStore'
    BY <1>5, <2>2, <2>3 DEF WriterIsSound, HistCommitted
  <2>6. histRestore'.step = "applied" => n.id[3] < histEdited'
    BY <2>1, <2>3 DEF CaptureIsSound, RestoreIsSound, PointsAreSound
  <2>7. \A p \in histPoints : p.id # n.id
    BY <2>1 DEF CaptureIsSound
  <2>8. \A p, q \in histPoints' : p.id = q.id => p = q
    BY <1>5, <2>7 DEF HistCommitted, PointsAreSound
  <2>9. \A p \in histPoints' : p \in histPoints \/ p = n
    BY <1>5 DEF HistCommitted
  <2> QED  BY <1>1, <1>3, <2>4, <2>5, <2>6, <2>8, <2>9 DEF PointsAreSound
<1> QED  BY <1>4, <1>5, HistCommitEffect, HistPointEffect

\* What a restore has leased and found stays there while its lease stands.
LEMMA HistRestoreKept ==
  ASSUME WorkerIsSound, PointsAreSound, WriterIsSound, RestoreIsSound, [HistNext]_histVars
  PROVE  RestoreIsSound'
<1>1. ASSUME NEW s, HistStepsTo(s), histRestore.step # "idle",
             s \in {"applied", "checkpoint"} =>
               \/ histRestore.step \in {"applied", "checkpoint"}
               \/ /\ histEdited' = histEdited + 1
                  /\ AssetKeys(histRestore.figs) \subseteq histStore
      PROVE  RestoreIsSound'
  <2>1. PICK o : o = histRestore.op
    OBVIOUS
  <2>2. PICK figs : figs = histRestore.figs
    OBVIOUS
  <2>3. /\ histRestore'.step = s /\ histRestore'.op = o /\ histRestore'.figs = figs
        /\ histRestore' = [step |-> histRestore'.step, op |-> histRestore'.op,
                           text |-> histRestore'.text, figs |-> histRestore'.figs,
                           base |-> histRestore'.base]
    BY <1>1, <2>1, <2>2 DEF HistStepsTo
  <2>4. LeasesAll(o, AssetKeys(figs)) /\ LeasesEncoded(o)
    BY <1>1, <2>1, <2>2 DEF RestoreIsSound
  <2>5. LeasesAll(o, AssetKeys(figs))' /\ LeasesEncoded(o)'
    BY <1>1, <2>1, <2>4, HistLeasesKept
  <2>6. LeasesAll(histRestore.op, AssetKeys(histRestore.figs))' /\ LeasesEncoded(histRestore.op)'
    BY <2>3, <2>5 DEF LeasesAll, LeasesEncoded, HoldsLease
  <2>7. ASSUME s \in {"applied", "checkpoint"}
        PROVE  histEdited' > 0 /\ (HoldsLease(o)' => AssetKeys(figs) \subseteq histStore')
    <3>1. histEdited' > 0
      BY <1>1, <2>7, HistPointEffect DEF RestoreIsSound, PointsAreSound
    <3>2. ASSUME HoldsLease(o)', NEW k \in AssetKeys(figs)  PROVE k \in histStore'
      <4>1. HoldsLease(o)
        BY <1>1, <2>1, <3>2, HistLeaseStands
      <4>2. k \in histStore
        BY <1>1, <2>1, <2>2, <2>7, <3>2, <4>1 DEF RestoreIsSound
      <4>3. PICK l \in histLeases : l[2] = k
        BY <2>4, <3>2, <4>1 DEF LeasesAll
      <4> QED  BY <4>2, <4>3, <3>2, HistKeeps, HistKinds
    <3> QED  BY <3>1, <3>2
  <2>8. HoldsLease(histRestore.op)' => HoldsLease(o)'
    BY <2>3 DEF HoldsLease
  <2> QED  BY <2>3, <2>6, <2>7, <2>8 DEF RestoreIsSound
<1>2. CASE histRestore' = HistIdle
  BY <1>2 DEF HistIdle, RestoreIsSound
<1>3. CASE UNCHANGED histRestore
  <2>1. CASE histRestore.step = "idle"
    BY <1>3, <2>1 DEF RestoreIsSound
  <2>2. CASE histRestore.step # "idle"
    <3>1. PICK s : s = histRestore.step
      OBVIOUS
    <3>2. HistStepsTo(s)
      BY <1>3, <2>2, <3>1 DEF HistStepsTo, RestoreIsSound
    <3> QED  BY <1>1, <2>2, <3>1, <3>2
  <2> QED  BY <2>1, <2>2
<1>4. ASSUME NEW p \in histPoints, HistRestoreLease(p)  PROVE RestoreIsSound'
  <2>1. PICK o \in NextOp, b \in Newest :
          /\ Leasing(o, PointKeys(p))
          /\ histRestore' = [step |-> "look", op |-> o, text |-> p.text, figs |-> p.figs,
                             base |-> [text |-> b.text, figs |-> b.figs]]
    BY <1>4 DEF HistRestoreLease
  <2>2. p.text \in histEncoded /\ UNCHANGED histEncoded
    BY <1>4 DEF HistRestoreLease, histGraph
  <2>3. ASSUME NEW k \in PointKeys(p)  PROVE \E l \in histLeases' : l[1] = o /\ l[2] = k
    <3>1. <<o, k>> \in histLeases'
      BY <2>1 DEF Leasing
    <3> QED  BY <3>1
  <2>4. \A l \in histLeases' : l[1] = o => l[2] \in PointKeys(p)
    BY <2>1 DEF Leasing, NextOp
  <2>5. LeasesAll(histRestore.op, AssetKeys(histRestore.figs))'
    BY <2>1, <2>3 DEF LeasesAll, PointKeys
  <2>6. \A k \in PointKeys(p) : IsSource(k) => k \in SourceKeys(p.text)
    BY HistKinds DEF PointKeys
  <2>7. LeasesEncoded(histRestore.op)'
    BY <2>1, <2>2, <2>4, <2>6 DEF LeasesEncoded
  <2>8. /\ histRestore'.step = "look"
        /\ histRestore' = [step |-> histRestore'.step, op |-> histRestore'.op,
                           text |-> histRestore'.text, figs |-> histRestore'.figs,
                           base |-> histRestore'.base]
    BY <2>1
  <2> QED  BY <2>5, <2>7, <2>8 DEF RestoreIsSound
<1>5. CASE HistRestoreApply
  BY <1>1, <1>5, HistApplyEffect DEF HistRestoreApply
<1> QED  BY <1>1, <1>2, <1>3, <1>4, <1>5, HistRestoreEffect

\* While the writer waits.
LEMMA HistCaptureKept ==
  ASSUME PointsAreSound, RestoreIsSound, CaptureIsSound, [HistNext]_histVars,
         histPoints' \subseteq histPoints, histWriter # HistIdle, histWriter' # HistIdle,
         histWriter'.id = histWriter.id, histWriter'.text = histWriter.text,
         histWriter'.figs = histWriter.figs
  PROVE  CaptureIsSound'
<1>1. histEdited' \in Nat /\ histEdited <= histEdited'
  BY HistPointEffect DEF PointsAreSound
<1>2. histRestore.step = "checkpoint" => histRestore'.step = "checkpoint"
  <2>1. CASE \E p \in histPoints : HistRestoreLease(p)
    BY <2>1 DEF HistRestoreLease, HistIdle
  <2>2. CASE HistRestoreApply
    BY <2>2 DEF HistRestoreApply
  <2>3. CASE histRestore' = HistIdle
    <3>1. CASE HistRestoreEnd
      BY <3>1 DEF HistRestoreEnd
    <3> QED  BY <2>3, <3>1, HistIdleEffect
  <2> QED  BY <2>1, <2>2, <2>3, HistRestoreEffect DEF HistStepsTo
<1> QED  BY <1>1, <1>2 DEF CaptureIsSound, PointsAreSound

\* While the writer waits, its standing lease keeps what it has, and what goes of
\* the rows does not come back.
LEMMA HistWaits ==
  ASSUME WorkerIsSound, PointsAreSound, WriterIsSound, RestoreIsSound, [HistNext]_histVars,
         UNCHANGED histWriter, histPoints' \subseteq histPoints
  PROVE  WriterIsSound'
<1> DEFINE held == HoldsLease(histWriter.op)
<1>1. histWriter.step \in {"lease", "put", "commit"} => CaptureIsSound'
  BY HistCaptureKept DEF WriterIsSound, HistIdle
<1>2. ASSUME histWriter.step \in {"put", "commit"}
      PROVE  /\ LeasesAll(histWriter.op, WriterKeys(histWriter))'
             /\ \A l \in histLeases' : l[1] = histWriter.op => l[2] \in WriterKeys(histWriter)
             /\ HoldsLease(histWriter.op)' => HoldsLease(histWriter.op)
  <2>1. PICK o : o = histWriter.op
    OBVIOUS
  <2>2. PICK keys : keys = WriterKeys(histWriter)
    OBVIOUS
  <2>3. LeasesAll(o, keys) /\ \A l \in histLeases : l[1] = o => l[2] \in keys
    BY <1>2, <2>1, <2>2 DEF WriterIsSound
  <2>4. LeasesAll(o, keys)' /\ \A l \in histLeases' : l[1] = o => l[2] \in keys
    BY <1>2, <2>1, <2>3, HistLeasesKept, HistLeaseStands DEF HoldsLease
  <2>5. HoldsLease(o)' => HoldsLease(o)
    BY <1>2, <2>1, HistLeaseStands
  <2>6. o = histWriter'.op /\ keys = WriterKeys(histWriter')
    BY <2>1, <2>2
  <2> QED  BY <2>1, <2>2, <2>4, <2>5, <2>6 DEF LeasesAll, HoldsLease
<1>3. ASSUME histWriter.step \in {"put", "commit"}, HoldsLease(histWriter.op),
             NEW k \in WriterKeys(histWriter), k \in histStore
      PROVE  k \in histStore'
  <2>1. PICK l \in histLeases : l[2] = k
    BY <1>3 DEF WriterIsSound, LeasesAll
  <2> QED  BY <1>3, <2>1, HistKeeps
<1>4. "missing" \notin histOdd' => "missing" \notin histOdd
  BY HistPointEffect
<1>5. histWriter.step = "finish" => LeasesEncoded(histWriter.op)'
  <2>1. PICK o : o = histWriter.op
    OBVIOUS
  <2>2. histWriter.step = "finish" => LeasesEncoded(o)'
    BY <2>1, HistLeasesKept DEF WriterIsSound
  <2>3. o = histWriter'.op
    BY <2>1
  <2> QED  BY <2>2, <2>3 DEF LeasesEncoded
<1>6. WriterKeys(histWriter)' = WriterKeys(histWriter)
  OBVIOUS
<1>7. histWriter.step = "put" /\ HoldsLease(histWriter.op)' /\ "missing" \notin histOdd' =>
        WriterKeys(histWriter) \subseteq histStore' \cup histWriter.put
  BY <1>2, <1>3, <1>4 DEF WriterIsSound
<1>8. histWriter.step = "commit" /\ HoldsLease(histWriter.op)' /\ "missing" \notin histOdd' =>
        WriterKeys(histWriter) \subseteq histStore'
  BY <1>2, <1>3, <1>4 DEF WriterIsSound
<1>9. histWriter.step = "erase" =>
        \A k \in histWriter.keys : k[1] = "tree" /\ \A p \in histPoints' : TreeKey(p.id) # k
  BY DEF WriterIsSound
<1> QED  BY <1>1, <1>2, <1>5, <1>6, <1>7, <1>8, <1>9 DEF WriterIsSound

\* What is captured is none of the retained checkpoints: its content is new, or
\* the restore that forces it has made a change.
LEMMA HistCaptureSound ==
  ASSUME PointsAreSound, RestoreIsSound, HistCapture, histWriter' # HistIdle
  PROVE  WriterIsSound'
<1> DEFINE forced == histRestore.step = "applied"
           id == <<histLive.text, histLive.figs, IF forced THEN histEdited ELSE 0>>
<1>1. /\ histWriter' = [step |-> "lease", text |-> histLive.text, figs |-> histLive.figs,
                        id |-> id, put |-> {TreeKey(id)} \cup
                          (SourceKeys(histLive.text) \ Reusable(histLive.text))]
      /\ forced \/ ~\E p \in histPoints : p.text = histLive.text /\ p.figs = histLive.figs
      /\ UNCHANGED <<histPoints, histEdited>>
      /\ histRestore' = IF forced THEN [histRestore EXCEPT !.step = "checkpoint"] ELSE histRestore
  BY DEF HistCapture, histGraph
<1>2. forced => histRestore'.step = "checkpoint"
  BY <1>1, HistRestoreStep DEF HistStepsTo
<1>3. \A p \in histPoints : p.id # id
  <2>1. CASE forced
    BY <2>1 DEF PointsAreSound
  <2>2. CASE ~forced
    BY <1>1, <2>2 DEF PointsAreSound
  <2> QED  BY <2>1, <2>2
<1>4. /\ histWriter'.step = "lease" /\ histWriter'.id = id /\ histWriter'.text = histLive.text
      /\ histWriter'.figs = histLive.figs
      /\ histWriter'.put = {TreeKey(id)} \cup (SourceKeys(histLive.text) \ Reusable(histLive.text))
  BY <1>1
<1>5. CaptureIsSound'
  BY <1>1, <1>2, <1>3, <1>4 DEF CaptureIsSound, PointsAreSound
<1>6. histWriter'.put \subseteq WriterKeys(histWriter')
  BY <1>4 DEF WriterKeys
<1> QED  BY <1>4, <1>5, <1>6 DEF WriterIsSound

\* A new lease has all of the checkpoint's objects.
LEMMA HistLeaseSound ==
  ASSUME PointsAreSound, WriterIsSound, RestoreIsSound, HistLease, histWriter' # HistIdle
  PROVE  WriterIsSound'
<1>1. PICK o \in NextOp :
        /\ Leasing(o, WriterKeys(histWriter))
        /\ histOdd' = histOdd \cup {x \in {"missing"} :
                        ~(WriterKeys(histWriter) \ histWriter.put \subseteq histStore)}
        /\ histWriter' = [step |-> "put", op |-> o, text |-> histWriter.text,
                          figs |-> histWriter.figs, id |-> histWriter.id, put |-> histWriter.put]
        /\ UNCHANGED histRestore
  BY DEF HistLease, WriterEnds
<1>2. histWriter.step = "lease" /\ UNCHANGED <<histPoints, histEdited, histStore>>
  BY DEF HistLease, histGraph, histRoom
<1>3. /\ histWriter'.step = "put" /\ histWriter'.op = o /\ histWriter'.text = histWriter.text
      /\ histWriter'.figs = histWriter.figs /\ histWriter'.id = histWriter.id
      /\ histWriter'.put = histWriter.put
  BY <1>1
<1>4. WriterKeys(histWriter') = WriterKeys(histWriter)
  BY <1>3 DEF WriterKeys
<1>5. CaptureIsSound'
  BY <1>1, <1>2, <1>3 DEF CaptureIsSound, WriterIsSound
<1>6. ASSUME NEW k \in WriterKeys(histWriter)  PROVE \E l \in histLeases' : l[1] = o /\ l[2] = k
  <2>1. <<o, k>> \in histLeases'
    BY <1>1 DEF Leasing
  <2> QED  BY <2>1
<1>7. \A l \in histLeases' : l[1] = o => l[2] \in WriterKeys(histWriter)
  BY <1>1 DEF Leasing, NextOp
<1>8. "missing" \notin histOdd' => WriterKeys(histWriter) \subseteq histStore' \cup histWriter.put
  BY <1>1, <1>2
<1>9. LeasesAll(histWriter.op, WriterKeys(histWriter))'
  BY <1>3, <1>4, <1>6 DEF LeasesAll
<1> QED  BY <1>2, <1>3, <1>4, <1>5, <1>7, <1>8, <1>9 DEF WriterIsSound

\* After the put everything the checkpoint needs is stored.
LEMMA HistPutSound ==
  ASSUME PointsAreSound, WriterIsSound, HistPut, histWriter' # HistIdle
  PROVE  WriterIsSound'
<1>1. /\ histWriter.step = "put" /\ histStore' = histStore \cup histWriter.put
      /\ histOdd \subseteq histOdd'
      /\ histWriter' = [step |-> "commit", op |-> histWriter.op, text |-> histWriter.text,
                        figs |-> histWriter.figs, id |-> histWriter.id, seq |-> histSeq']
      /\ UNCHANGED <<histRestore, histPoints, histEdited, histLeases>>
  BY DEF HistPut, WriterEnds, histGraph
<1>2. /\ histWriter'.step = "commit" /\ histWriter'.op = histWriter.op
      /\ histWriter'.text = histWriter.text
      /\ histWriter'.figs = histWriter.figs /\ histWriter'.id = histWriter.id
  BY <1>1
<1>3. WriterKeys(histWriter') = WriterKeys(histWriter)
  BY <1>2 DEF WriterKeys
<1>4. CaptureIsSound'
  BY <1>1, <1>2 DEF CaptureIsSound, WriterIsSound
<1>5. LeasesAll(histWriter.op, WriterKeys(histWriter))'
  BY <1>1, <1>2, <1>3 DEF LeasesAll, HoldsLease, WriterIsSound
<1>6. \A l \in histLeases' : l[1] = histWriter'.op => l[2] \in WriterKeys(histWriter')
  BY <1>1, <1>2, <1>3 DEF WriterIsSound
<1>7. HoldsLease(histWriter.op)' => HoldsLease(histWriter.op)
  BY <1>1, <1>2 DEF HoldsLease
<1>8. HoldsLease(histWriter.op)' /\ "missing" \notin histOdd' => WriterKeys(histWriter') \subseteq histStore'
  BY <1>1, <1>3, <1>7 DEF WriterIsSound
<1> QED  BY <1>2, <1>4, <1>5, <1>6, <1>8 DEF WriterIsSound

\* After the commit the leased sources have an encoding.
LEMMA HistCommitSound ==
  ASSUME WriterIsSound, HistCommit, histWriter' # HistIdle
  PROVE  WriterIsSound'
<1>1. PICK p : HistCommitted(p)
  BY HistCommitEffect DEF WriterEnds
<1>2. histWriter'.step = "finish" /\ histWriter'.op = histWriter.op /\ UNCHANGED histLeases
  BY <1>1 DEF HistCommitted, HistCommit
<1>3. ASSUME NEW l \in histLeases, l[1] = histWriter.op, IsSource(l[2])
      PROVE  \E t \in histEncoded' : l[2] \in SourceKeys(t)
  <2>1. l[2] \in WriterKeys(histWriter)
    BY <1>1, <1>3 DEF WriterIsSound, HistCommitted
  <2>2. l[2] \in SourceKeys(histWriter.text)
    BY <1>3, <2>1, HistKinds DEF WriterKeys
  <2> QED  BY <1>1, <2>2 DEF HistCommitted
<1>4. LeasesEncoded(histWriter.op)'
  BY <1>2, <1>3 DEF LeasesEncoded
<1> QED  BY <1>2, <1>4 DEF WriterIsSound

\* The trees of the rows that were shed belong to no row that is left.
LEMMA HistShedSound ==
  ASSUME PointsAreSound, HistShed
  PROVE  WriterIsSound'
<1> DEFINE gone == {p \in histPoints : Cardinality({q \in histPoints : q.nth > p.nth}) >= HistKeep}
<1>1. histWriter' = [step |-> "erase", keys |-> {TreeKey(p.id) : p \in gone}]
  BY DEF HistShed
<1>2. histPoints' = histPoints \ gone
  BY DEF HistShed, RemovePoints, histGraph
<1>3. histWriter'.step = "erase" /\ histWriter'.keys = {TreeKey(p.id) : p \in gone}
  BY <1>1
<1>4. ASSUME NEW k \in histWriter'.keys
      PROVE  k[1] = "tree" /\ \A p \in histPoints' : TreeKey(p.id) # k
  <2>1. PICK q \in gone : k = TreeKey(q.id)
    BY <1>3, <1>4
  <2> QED  BY <1>2, <2>1, HistKinds DEF PointsAreSound
<1> QED  BY <1>3, <1>4 DEF WriterIsSound

\* The writer, step by step.
LEMMA HistWriterKept ==
  ASSUME WorkerIsSound, PointsAreSound, WriterIsSound, RestoreIsSound, [HistNext]_histVars
  PROVE  WriterIsSound'
<1>1. CASE histWriter' = HistIdle
  BY <1>1 DEF HistIdle, WriterIsSound
<1>2. CASE histWriter' # HistIdle /\ UNCHANGED histWriter
  <2>1. CASE HistCommit
    BY <1>2, <2>1, HistCommitSound
  <2>2. CASE histPoints' \subseteq histPoints
    BY <1>2, <2>2, HistWaits
  <2> QED  BY <2>1, <2>2, HistPointEffect
<1>3. CASE HistErase
  BY <1>3 DEF HistErase, WriterIsSound
<1>4. CASE histWriter' # HistIdle /\ ~(UNCHANGED histWriter)
  BY <1>3, <1>4, HistWriterEffect, HistCaptureSound, HistLeaseSound, HistPutSound,
     HistCommitSound, HistShedSound
<1> QED  BY <1>1, <1>2, <1>4

(***************************************************************************)
(* For any texts and figures, however many checkpoints are kept and        *)
(* whatever fails: every retained checkpoint can be read back, unless its  *)
(* writer leased an object that was missing already; what a restore has    *)
(* installed is there while its lease stands; and encoded sources do not   *)
(* leak, unless a writer wrote past its lease.                             *)
(***************************************************************************)
THEOREM HistoryInvariant == HistSpec => []HistInv
<1>1. HistInit => HistInv
  BY DEF HistInit, HistInv, WorkerIsSound, PointsAreSound, WriterIsSound, RestoreIsSound,
         HistNoSourceLeaks, HistIdle
<1>2. HistInv /\ [HistNext]_histVars => HistInv'
  BY HistWorkerKept, HistPointsKept, HistWriterKept, HistRestoreKept, HistLeaksKept DEF HistInv
<1> QED  BY <1>1, <1>2, PTL DEF HistSpec

\* HistStoreAgrees of HistoryObjects, for every value of its constants.
THEOREM HistoryReadable == HistSpec => []HistStoreAgrees
<1>1. HistInv => HistStoreAgrees
  BY DEF HistInv, HistStoreAgrees, HistLeasedStaysReadable, PointsAreSound, RestoreIsSound,
         HoldsLease
<1> QED  BY <1>1, HistoryInvariant, PTL

=============================================================================
