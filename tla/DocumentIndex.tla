---------------------------- MODULE DocumentIndex ----------------------------
(* The index of a deployment without a catalogue (document/store.rs): one     *)
(* object that names every document, which two servers may share. Each keeps  *)
(* a copy in memory under its own lock and writes it over the version it was  *)
(* read at; a write that loses is retried once against what the winner left.  *)
EXTENDS Naturals, FiniteSets, Functions

CONSTANTS
  IdxServer,    \* the servers that share the bucket
  IdxChange,    \* the calls that write the index
  IdxKind,      \* of each call: "put", "modify" or "remove"
  IdxSlug,      \* of each call: the document it is about
  IdxLimit,     \* documents the owner may have (documents_per_owner)
  IdxFailures   \* failures of storage

ASSUME IdxAssumption ==
  /\ IdxKind \in [IdxChange -> {"put", "modify", "remove"}]
  /\ DOMAIN IdxSlug = IdxChange
  /\ IdxLimit \in Nat /\ IdxFailures \in Nat

VARIABLES
  ixStored,   \* index.json: its version, and the changes in each entry
  ixMemory,   \* the copy of each server, and the version it was read at
  ixCall,     \* what each server does under its lock
  ixAnswer,   \* what each call was answered
  ixGone,     \* history: the changes answered before their document was removed
  ixFailed    \* failures so far

ixVars == <<ixStored, ixMemory, ixCall, ixAnswer, ixGone, ixFailed>>

\* An entry is the changes it holds; a document that is not there has none.
IdxSlugs == Range(IdxSlug)
IdxAbsent == {}
IdxValue == [version : Nat, entries : [IdxSlugs -> SUBSET IdxChange]]
IdxNamed(entries) == {slug \in IdxSlugs : entries[slug] # IdxAbsent}
NoCall == [at |-> "idle"]
IdxRunning(c) == \E i \in IdxServer : ixCall[i] # NoCall /\ ixCall[i].change = c

IdxInit ==
  /\ ixStored = [version |-> 0, entries |-> [slug \in IdxSlugs |-> IdxAbsent]]
  /\ ixMemory = [i \in IdxServer |-> ixStored]
  /\ ixCall = [i \in IdxServer |-> NoCall]
  /\ ixAnswer = [c \in IdxChange |-> "none"] /\ ixGone = {} /\ ixFailed = 0

\* admit: a document more than the owner may have; a replacement is not one.
Admits(entries, slug) ==
  entries[slug] # IdxAbsent \/ Cardinality(IdxNamed(entries)) < IdxLimit

\* What a call writes in the entry, and whether it has anything to write.
Changed(c, entry) == IF IdxKind[c] = "remove" THEN IdxAbsent ELSE entry \union {c}
Applies(c, entries) ==
  CASE IdxKind[c] = "put" -> Admits(entries, IdxSlug[c])
    [] IdxKind[c] = "modify" -> entries[IdxSlug[c]] # IdxAbsent
    [] OTHER -> TRUE

Holding(i, slug, entry) == [ixMemory EXCEPT ![i].entries[slug] = entry]
IdxAnswers(i, c, what) ==
  ixAnswer' = [ixAnswer EXCEPT ![c] = what] /\ ixCall' = [ixCall EXCEPT ![i] = NoCall]
IdxGoes(i, call) == ixCall' = [ixCall EXCEPT ![i] = call] /\ UNCHANGED ixAnswer
IdxWorks == UNCHANGED ixFailed
IdxFails == ixFailed < IdxFailures /\ ixFailed' = ixFailed + 1

-----------------------------------------------------------------------------
\* put, modify, rename, record_history, adopt, remove: the change is made in
\* memory, and what was there is kept to be put back.
IdxBegin(i, c) ==
  LET entries == ixMemory[i].entries IN
  /\ ixCall[i] = NoCall /\ ixAnswer[c] = "none" /\ ~IdxRunning(c)
  /\ IF Applies(c, entries)
     THEN /\ ixMemory' = Holding(i, IdxSlug[c], Changed(c, entries[IdxSlug[c]]))
          /\ IdxGoes(i, [at |-> "save", change |-> c, previous |-> entries[IdxSlug[c]],
                      retried |-> FALSE])
     ELSE IdxAnswers(i, c, "refused") /\ UNCHANGED ixMemory
  /\ IdxWorks /\ UNCHANGED <<ixStored, ixGone>>

\* save_locked: the whole copy, over the version it was read at and no other.
\* (mutant) over whatever is stored.
CurrentAnyway(i) == TRUE
Current(i) == ixMemory[i].version = ixStored.version
Swap(i) ==
  /\ ixStored' = [version |-> ixStored.version + 1, entries |-> ixMemory[i].entries]
  /\ LET c == ixCall[i].change IN
     ixGone' = IF IdxKind[c] # "remove" THEN ixGone
               ELSE ixGone \union {d \in IdxChange : IdxSlug[d] = IdxSlug[c] /\ ixAnswer[d] = "done"}

\* What a refused write leaves in memory: what was there before the call, but
\* a removal stays removed.
IdxUndone(i) ==
  IF IdxKind[ixCall[i].change] = "remove" THEN ixMemory
  ELSE Holding(i, IdxSlug[ixCall[i].change], ixCall[i].previous)

IdxSave(i) ==
  /\ ixCall[i].at = "save"
  /\ \/ /\ Current(i) /\ Swap(i) /\ ixMemory' = [ixMemory EXCEPT ![i] = ixStored']
        /\ IdxAnswers(i, ixCall[i].change, "done") /\ IdxWorks
     \/ /\ ~Current(i) /\ ~ixCall[i].retried /\ ixMemory' = IdxUndone(i)
        /\ IdxGoes(i, [ixCall[i] EXCEPT !.at = "reload"])
        /\ IdxWorks /\ UNCHANGED <<ixStored, ixGone>>
     \/ /\ ~Current(i) /\ ixCall[i].retried /\ ixMemory' = IdxUndone(i)
        /\ IdxAnswers(i, ixCall[i].change, "failed") /\ IdxWorks /\ UNCHANGED <<ixStored, ixGone>>
     \/ /\ IdxFails /\ ixMemory' = IdxUndone(i) /\ IdxAnswers(i, ixCall[i].change, "failed")
        /\ \/ UNCHANGED <<ixStored, ixGone>>
           \/ Current(i) /\ Swap(i)         \* its answer is lost

\* refresh_locked: nothing in memory is kept, and the change is made again.
\* reload_locked, of put: the entry made before is laid over what is stored,
\* and the admission is decided again against what is stored.
IdxReload(i) ==
  LET c == ixCall[i].change
      slug == IdxSlug[c]
      before == ixCall[i].previous
      again == IF IdxKind[c] = "put" THEN Changed(c, before)
               ELSE Changed(c, ixStored.entries[slug]) IN
  /\ ixCall[i].at = "reload"
  /\ \/ /\ IdxWorks
        /\ IF Applies(c, ixStored.entries)
           THEN /\ ixMemory' = [ixMemory EXCEPT ![i] =
                     [ixStored EXCEPT !.entries[slug] = again]]
                /\ IdxGoes(i, [at |-> "save", change |-> c, retried |-> TRUE,
                            previous |-> IF IdxKind[c] = "put" THEN before
                                         ELSE ixStored.entries[slug]])
           ELSE ixMemory' = [ixMemory EXCEPT ![i] = ixStored] /\ IdxAnswers(i, c, "refused")
     \/ IdxFails /\ IdxAnswers(i, c, "failed") /\ UNCHANGED ixMemory
  /\ UNCHANGED <<ixStored, ixGone>>

\* get on a miss, and a server that starts again: load_index.
IdxRefresh(i) ==
  /\ ixCall[i] = NoCall /\ ~Current(i)
  /\ ixMemory' = [ixMemory EXCEPT ![i] = ixStored]
  /\ UNCHANGED <<ixStored, ixCall, ixAnswer, ixGone>> /\ IdxWorks

IdxCrash(i) ==
  /\ ixCall[i] # NoCall /\ IdxFails
  /\ IdxAnswers(i, ixCall[i].change, "failed") /\ ixMemory' = [ixMemory EXCEPT ![i] = ixStored]
  /\ UNCHANGED <<ixStored, ixGone>>

IdxNext ==
  \E i \in IdxServer :
    \/ \E c \in IdxChange : IdxBegin(i, c)
    \/ IdxSave(i) \/ IdxReload(i) \/ IdxRefresh(i) \/ IdxCrash(i)

IdxSpec == IdxInit /\ [][IdxNext]_ixVars

(* Two servers never both admit the last document of a quota, a change that   *)
(* was answered is in the index until the document is removed, and a removal  *)
(* that was answered is not undone by a copy of the index read before it      *)
(* (save_locked writes all of it): whatever the other server writes meanwhile *)
(* and whichever write fails.                                                 *)
RemovalAsked(slug) == \E c \in IdxChange :
  /\ IdxKind[c] = "remove" /\ IdxSlug[c] = slug
  /\ ixAnswer[c] # "none" \/ IdxRunning(c)
IdxAckedSurvives ==
  /\ Cardinality(IdxNamed(ixStored.entries)) <= IdxLimit
  /\ \A c \in IdxChange : ixAnswer[c] = "done" /\ IdxKind[c] # "remove" =>
       c \in ixStored.entries[IdxSlug[c]] \/ RemovalAsked(IdxSlug[c])
  /\ \A c \in ixGone : c \notin ixStored.entries[IdxSlug[c]]
=============================================================================
