--------------------------- MODULE ObjectAccounting ---------------------------
(***************************************************************************)
(* The bytes a document is charged for.  Writers reserve an object's       *)
(* growth before they write it and commit or abort the reservation         *)
(* afterwards; a publication reserves its peak, stages its measurement and *)
(* replaces the charge when it commits; maintenance deletes objects and    *)
(* gives their bytes back; a deletion gives everything back at its end.    *)
(* Every action is one immediate transaction of the catalogue.             *)
(***************************************************************************)
EXTENDS Integers, FiniteSets

CONSTANTS
  AccObject,   \* object keys
  AccWriter,   \* operation ids of object changes
  AccRequest,  \* request ids of publications
  AccBytes,    \* bound: sizes of objects, peaks and measurements
  AccHeadroom  \* metadata headroom charged for an object that is new

ASSUME AccAssumption == AccBytes \in Nat /\ AccHeadroom \in Nat

VARIABLES
  accStatus,   \* documents.status, "gone" when the row is removed
  accSize,     \* documents.size
  accCounted,  \* documents.counted_size
  accPending,  \* documents.pending_publication: a set of at most one request
  accTotal,    \* totals.bytes, this document's part
  accLedger,   \* object_accounting: key -> [bytes, meta], for accounted keys
  accReserved, \* object_reservations: [op, key, old, new, meta]
  accOps,      \* catalog_operations: request -> [status, peak, measured]
  accUsed,     \* operation ids that have been used
  accQueued,   \* pending_deletes: object keys
  accKnown,    \* whether the owner's physical bytes are known: if they are, a
               \* new object is charged its headroom
  accLoose     \* history: whether the charge has come apart from the objects:
               \* reserved under a publication's peak that no measurement has
               \* settled since, or measured, which drops the headroom that a
               \* later refund gives back a second time

accVars == <<accStatus, accSize, accCounted, accPending, accTotal, accLedger, accReserved,
             accOps, accUsed, accQueued, accKnown, accLoose>>

Positive(n) == IF n > 0 THEN n ELSE 0
Smaller(a, b) == IF a <= b THEN a ELSE b
Bigger(a, b) == IF a >= b THEN a ELSE b
Headroom == IF accKnown THEN AccHeadroom ELSE 0
\* The sum of the values of f, counted unit by unit.
Total(f) == Cardinality(UNION {{x} \X (1 .. f[x]) : x \in DOMAIN f})
LedgerBytes(ledger) == Total([k \in DOMAIN ledger |-> ledger[k].bytes])
OldBytes(k) == IF k \in DOMAIN accLedger THEN accLedger[k].bytes ELSE 0
Growth(rs) == Total([r \in rs |-> Positive(r.new - r.old)])
AccLive == accStatus \in {"creating", "active"}

\* A charge or a refund moves the document and the totals together.
AccCharge(n) == accCounted' = accCounted + n /\ accTotal' = accTotal + n
Releasable(n) == Smaller(n, Positive(accCounted - accSize))
AccRelease(n) == AccCharge(-Releasable(n))
Uncharged == UNCHANGED <<accCounted, accTotal>>

---------------------------------------------------------------------------
\* (mutant) a shrinking object is credited when it is reserved.
ReserveChargeSigned(k, new) ==
  IF accPending # {} THEN 0
  ELSE new - OldBytes(k) + (IF k \in DOMAIN accLedger THEN 0 ELSE Headroom)
\* What reserve_object_change charges: nothing while a publication is
\* prepared, whose peak covers it.
ReserveCharge(k, new) ==
  IF accPending # {} THEN 0
  ELSE Positive(new - OldBytes(k)) + (IF k \in DOMAIN accLedger THEN 0 ELSE Headroom)

ReservedMeta(k) ==
  IF accPending = {} /\ k \notin DOMAIN accLedger THEN Headroom ELSE 0

\* Writers of one key at a time write the same bytes: several change only
\* objects named by their content, which are new or there already; the
\* publication's manifest, whose size does change, is swapped under its lock.
AccReserve(op, k, new) ==
  /\ op \notin accUsed /\ accUsed' = accUsed \cup {op}
  /\ AccLive /\ k \notin accQueued
  /\ \A r \in accReserved : r.key = k => r.new = new /\ OldBytes(k) \in {0, new}
  /\ accReserved' = accReserved \cup
       {[op |-> op, key |-> k, old |-> OldBytes(k), new |-> new, meta |-> ReservedMeta(k)]}
  /\ AccCharge(ReserveCharge(k, new))
  /\ accLoose' = (accLoose \/ accPending # {})
  /\ UNCHANGED <<accStatus, accSize, accPending, accLedger, accOps, accQueued>>

\* commit_object_change: the object is written.
AccCommit(r) ==
  /\ accReserved' = accReserved \ {r}
  /\ accLedger' = [k \in DOMAIN accLedger \cup {r.key} |->
                     IF k # r.key THEN accLedger[k]
                     ELSE [bytes |-> r.new,
                           meta |-> r.meta + (IF k \in DOMAIN accLedger THEN accLedger[k].meta
                                              ELSE 0)]]
  /\ IF accPending = {} /\ r.new < r.old THEN AccRelease(r.old - r.new) ELSE Uncharged
  /\ UNCHANGED <<accStatus, accSize, accPending, accOps, accUsed, accQueued, accLoose>>

\* abort_object_change: it is not.
AccAbort(r) ==
  /\ accReserved' = accReserved \ {r}
  /\ IF accPending = {} THEN AccRelease(Positive(r.new - r.old) + r.meta) ELSE Uncharged
  /\ UNCHANGED <<accStatus, accSize, accPending, accLedger, accOps, accUsed, accQueued, accLoose>>

---------------------------------------------------------------------------
\* prepare_operation.
AccPrepare(q) ==
  /\ q \notin DOMAIN accOps /\ AccLive /\ accPending = {}
  /\ accOps' = [p \in DOMAIN accOps \cup {q} |->
                  IF p = q THEN [status |-> "prepared", peak |-> 0, measured |-> -1]
                  ELSE accOps[p]]
  /\ accPending' = {q}
  /\ UNCHANGED <<accStatus, accSize, accCounted, accTotal, accLedger, accReserved, accUsed,
                 accQueued, accLoose>>

\* reserve_publication_peak, of a replacement: the peak of a creation is charged
\* with its row.
AccReservePeak(q, peak) ==
  /\ accPending = {q} /\ accStatus = "active" /\ accOps[q].peak = 0
  /\ accOps' = [accOps EXCEPT ![q].peak = peak]
  /\ AccCharge(peak)
  /\ UNCHANGED <<accStatus, accSize, accPending, accLedger, accReserved, accUsed, accQueued,
                 accLoose>>

\* stage_publication_measurement.
AccMeasure(q, n) ==
  /\ accPending = {q} /\ accOps[q].status = "prepared" /\ accOps[q].measured = -1
  /\ accOps' = [accOps EXCEPT ![q].measured = n]
  /\ UNCHANGED <<accStatus, accSize, accCounted, accPending, accTotal, accLedger,
                 accReserved, accUsed, accQueued, accLoose>>

Measured(q) == Bigger(accOps[q].measured, LedgerBytes(accLedger))
\* The object reservations of the publication itself: its staged objects are
\* written under operation ids of their own, so there are none.
OwnReservations(q) == {r \in accReserved : r.op = q}
\* Whether headroom has been charged that is still to be given back.
HeadroomHeld ==
  (\E k \in DOMAIN accLedger : accLedger[k].meta # 0) \/ (\E r \in accReserved : r.meta # 0)
CountedAt(q) == Measured(q) + Growth(OwnReservations(q))

\* commit_operation_with_quota, with or without a staged measurement.
AccPublish(q) ==
  /\ accPending = {q} /\ accOps[q].status = "prepared" /\ AccLive
  /\ accOps' = [accOps EXCEPT ![q].status = "committed"]
  /\ accStatus' = "active" /\ accPending' = {}
  /\ IF accOps[q].measured = -1 THEN Uncharged /\ UNCHANGED <<accSize, accLoose>>
     ELSE /\ CountedAt(q) <= accCounted
          /\ accSize' = Measured(q)
          /\ AccCharge(CountedAt(q) - accCounted)
          /\ accLoose' = (accReserved # {} \/ HeadroomHeld)
  /\ UNCHANGED <<accLedger, accReserved, accUsed, accQueued>>

\* abort_operation.
AccWithdraw(q) ==
  /\ q \in DOMAIN accOps /\ accOps[q].status = "prepared"
  /\ accOps' = [accOps EXCEPT ![q].status = "aborted"]
  /\ accPending' = accPending \ {q}
  /\ AccRelease(accOps[q].peak)
  /\ UNCHANGED <<accStatus, accSize, accLedger, accReserved, accUsed, accQueued, accLoose>>

\* discard_aborted_creation.
AccDiscard ==
  /\ accStatus = "creating" /\ accPending = {} /\ DOMAIN accOps # {}
  /\ accStatus' = "gone" /\ accTotal' = accTotal - accCounted
  /\ accCounted' = 0 /\ accSize' = 0
  /\ accLedger' = [k \in {} |-> 0] /\ accReserved' = {}
  /\ UNCHANGED <<accPending, accOps, accUsed, accQueued, accLoose>>

\* record_document_measurement: the room's measurement between publications.
AccRecord(n) ==
  /\ accStatus # "gone"
  /\ LET measured == Bigger(n, LedgerBytes(accLedger))
         counted == measured + Growth(accReserved)
     IN /\ counted <= accCounted
        /\ accSize' = measured
        /\ AccCharge(counted - accCounted)
  /\ accLoose' = (accPending # {} \/ HeadroomHeld)
  /\ UNCHANGED <<accStatus, accPending, accLedger, accReserved, accOps, accUsed, accQueued>>

---------------------------------------------------------------------------
\* queue_object_delete, for an object no reservation is about.
AccQueueDelete(k) ==
  /\ k \in DOMAIN accLedger \ accQueued /\ \A r \in accReserved : r.key # k
  /\ accQueued' = accQueued \cup {k}
  /\ UNCHANGED <<accStatus, accSize, accCounted, accPending, accTotal, accLedger,
                 accReserved, accOps, accUsed, accLoose>>

\* complete_delete_object, after the store has confirmed.  A document that is
\* being deleted keeps its charge until finish_delete.
AccDeleted(k) ==
  /\ k \in accQueued /\ accQueued' = accQueued \ {k}
  /\ IF accStatus = "active"
     THEN LET rest == [j \in DOMAIN accLedger \ {k} |-> accLedger[j]]
              size == Bigger(Positive(accSize - OldBytes(k)), LedgerBytes(rest))
          IN /\ accLedger' = rest
             /\ accSize' = size
             /\ AccCharge(Bigger(Positive(accCounted - OldBytes(k)), size + Growth(accReserved))
                         - accCounted)
     ELSE UNCHANGED <<accLedger, accSize, accCounted, accTotal>>
  /\ UNCHANGED <<accStatus, accPending, accReserved, accOps, accUsed, accLoose>>

\* release_object_accounting_key, for a retired journal object.
AccRetired(k) ==
  /\ k \in DOMAIN accLedger \ accQueued /\ \A r \in accReserved : r.key # k
  /\ accLedger' = [j \in DOMAIN accLedger \ {k} |-> accLedger[j]]
  /\ IF accStatus = "active"
     THEN AccCharge(Bigger(accSize, accCounted - accLedger[k].bytes - accLedger[k].meta)
                   - accCounted)
     ELSE Uncharged
  /\ UNCHANGED <<accStatus, accSize, accPending, accReserved, accOps, accUsed, accQueued, accLoose>>

\* begin_delete withdraws the prepared publication without its refund.
AccBeginDelete ==
  /\ AccLive /\ accStatus' = "deleting" /\ accPending' = {}
  /\ accOps' = [q \in DOMAIN accOps |->
                  IF accOps[q].status = "prepared" THEN [accOps[q] EXCEPT !.status = "aborted"]
                  ELSE accOps[q]]
  /\ UNCHANGED <<accSize, accCounted, accTotal, accLedger, accReserved, accUsed, accQueued,
                 accLoose>>

\* finish_delete.
AccFinishDelete ==
  /\ accStatus = "deleting" /\ accQueued = {}
  /\ \A q \in DOMAIN accOps : accOps[q].status # "prepared"
  /\ accStatus' = "gone" /\ accTotal' = accTotal - accCounted
  /\ accCounted' = 0 /\ accSize' = 0
  /\ accLedger' = [k \in {} |-> 0] /\ accReserved' = {}
  /\ UNCHANGED <<accPending, accOps, accUsed, accQueued, accLoose>>

---------------------------------------------------------------------------
\* A new document, whose creation is charged its peak, or one that exists.
AccInit ==
  /\ accStatus \in {"creating", "active"}
  /\ accSize = 0 /\ accPending = {}
  /\ accCounted = IF accStatus = "creating" THEN AccBytes ELSE 0
  /\ accTotal = accCounted
  /\ accLedger = [k \in {} |-> 0] /\ accReserved = {} /\ accOps = [q \in {} |-> 0]
  /\ accUsed = {} /\ accQueued = {} /\ accKnown \in BOOLEAN /\ accLoose = FALSE

AccStep ==
  \/ \E op \in AccWriter, k \in AccObject, n \in 0..AccBytes : AccReserve(op, k, n)
  \/ \E r \in accReserved : AccCommit(r)
  \/ \E r \in accReserved : AccAbort(r)
  \/ \E q \in AccRequest : AccPrepare(q)
  \/ \E q \in AccRequest, n \in 1..AccBytes : AccReservePeak(q, n)
  \/ \E q \in AccRequest, n \in 0..AccBytes : AccMeasure(q, n)
  \/ \E q \in AccRequest : AccPublish(q)
  \/ \E q \in AccRequest : AccWithdraw(q)
  \/ AccDiscard
  \/ \E n \in 0..AccBytes : AccRecord(n)
  \/ \E k \in AccObject : AccQueueDelete(k)
  \/ \E k \in AccObject : AccDeleted(k)
  \/ \E k \in AccObject : AccRetired(k)
  \/ AccBeginDelete
  \/ AccFinishDelete

AccNext == AccStep /\ UNCHANGED accKnown

AccSpec == AccInit /\ [][AccNext]_accVars

---------------------------------------------------------------------------
\* The totals hold exactly what the document is charged, nothing when it is
\* gone; and the charge covers its measured size.
AccTotalsMatch == accTotal = accCounted /\ (accStatus = "gone" => accTotal = 0)
AccSizeIsCharged == accCounted >= accSize

\* It covers the objects the document holds and the growth it has reserved too,
\* unless a publication or a measurement took the charge away under a writer
\* (accLoose).
AccHoldingsAreCharged ==
  /\ AccTotalsMatch /\ AccSizeIsCharged
  /\ accStatus = "active" /\ accPending = {} /\ ~accLoose =>
       accCounted >= LedgerBytes(accLedger) + Growth(accReserved)

\* The next checkpoint repairs the entry (checkpoint.rs): with no publication
\* pending and no object being written, the document can be measured.
AccNextMeasureRepairs ==
  accStatus = "active" /\ accPending = {} /\ accReserved = {} =>
    LedgerBytes(accLedger) <= accCounted
=============================================================================
