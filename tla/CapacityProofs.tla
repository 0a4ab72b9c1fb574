---------- MODULE CapacityProofs ----------
(***************************************************************************)
(* The two components that count what others take and give back: the       *)
(* journal's memory budget and the admission in front of the catalogue.    *)
(***************************************************************************)
EXTENDS MemoryBudget, CatalogExecution, FiniteSetTheorems, TLAPS

---------------------------------------------------------------------------
(***************************************************************************)
(* For every finite set of producers and every capacity: what the budget   *)
(* says is held is what its permits own, the same for the waiting set, and *)
(* no wakeup is lost.                                                      *)
(***************************************************************************)

\* The bytes of one producer.
Bytes(p, n) == {p} \X (1 .. n)

\* Bytes(p, n) has n elements.
LEMMA BytesCount ==
  ASSUME NEW p, NEW n \in Nat
  PROVE  IsFiniteSet(Bytes(p, n)) /\ Cardinality(Bytes(p, n)) = n
<1>1. IsFiniteSet({p}) /\ Cardinality({p}) = 1
  BY FS_Singleton
<1>2. IsFiniteSet(1 .. n) /\ Cardinality(1 .. n) = n
  <2>1. CASE n = 0
    BY <2>1, FS_Interval
  <2>2. CASE n # 0
    BY <2>2, FS_Interval
  <2> QED BY <2>1, <2>2
<1>3. /\ IsFiniteSet({p} \X (1 .. n))
      /\ Cardinality({p} \X (1 .. n)) = Cardinality({p}) * Cardinality(1 .. n)
  <2> DEFINE S == {p}
             T == 1 .. n
  <2>1. IsFiniteSet(S) /\ IsFiniteSet(T)
    BY <1>1, <1>2
  <2> HIDE DEF S, T
  <2>2. IsFiniteSet(S \X T) /\ Cardinality(S \X T) = Cardinality(S) * Cardinality(T)
    BY <2>1, FS_Product
  <2> QED BY <2>2 DEF S, T
<1> QED BY <1>1, <1>2, <1>3 DEF Bytes

\* What any phase owns is a finite set of bytes.
LEMMA OwnedFinite ==
  ASSUME NEW ph
  PROVE  IsFiniteSet(Owned(ph)) /\ Cardinality(Owned(ph)) \in Nat
<1>1. IsFiniteSet(1 .. Capacity)
  BY BudgetAssumption, FS_Interval
<1>2. IsFiniteSet(Producer \X (1 .. Capacity))
  BY <1>1, BudgetAssumption, FS_Product
<1>3. Owned(ph) \subseteq Producer \X (1 .. Capacity)
  BY DEF Owned
<1>4. IsFiniteSet(Owned(ph))
  BY <1>2, <1>3, FS_Subset
<1> QED BY <1>4, FS_CardinalityType

\* A disjoint union adds up.
LEMMA DisjointUnionCount ==
  ASSUME NEW S, NEW T, IsFiniteSet(S), IsFiniteSet(T), S \cap T = {}
  PROVE  Cardinality(S \cup T) = Cardinality(S) + Cardinality(T)
<1>1. Cardinality(S \cup T) = Cardinality(S) + Cardinality(T) - Cardinality(S \cap T)
  BY FS_Union
<1>2. Cardinality(S \cap T) = 0
  BY FS_EmptySet
<1>3. Cardinality(S) \in Nat /\ Cardinality(T) \in Nat
  BY FS_CardinalityType
<1> QED BY <1>1, <1>2, <1>3

\* What every producer that is past its request asked for fits the budget.
WantFits == \A p \in Producer : want[p] <= Capacity

\* The inductive invariant.
BudgetInv == TypeOK /\ WantFits /\ HeldIsOwned /\ WaitingIsParked /\ NoLostWakeup

---------------------------------------------------------------------------
\* How a step that moves one producer from one phase to another changes Owned.

\* A phase neither left nor entered keeps what it owns.
LEMMA OwnedKept ==
  ASSUME TypeOK, NEW p \in Producer, NEW to, NEW ph,
         phase' = [phase EXCEPT ![p] = to],
         \A q \in Producer \ {p} : want'[q] = want[q],
         phase[p] # ph, to # ph
  PROVE  Owned(ph)' = Owned(ph)
BY DEF Owned, TypeOK

\* A phase entered gains the bytes of the producer that enters.
LEMMA OwnedGained ==
  ASSUME TypeOK, NEW p \in Producer, NEW to,
         phase' = [phase EXCEPT ![p] = to],
         \A q \in Producer \ {p} : want'[q] = want[q],
         want'[p] \in Nat, want'[p] <= Capacity,
         phase[p] # to
  PROVE  Cardinality(Owned(to)') = Cardinality(Owned(to)) + want'[p]
<1>1. Owned(to)' = Owned(to) \cup Bytes(p, want'[p])
  BY BudgetAssumption DEF Owned, TypeOK, Bytes
<1>2. Owned(to) \cap Bytes(p, want'[p]) = {}
  BY DEF Owned, Bytes
<1>3. Cardinality(Owned(to) \cup Bytes(p, want'[p]))
        = Cardinality(Owned(to)) + Cardinality(Bytes(p, want'[p]))
  BY <1>2, OwnedFinite, BytesCount, DisjointUnionCount
<1> QED BY <1>1, <1>3, BytesCount

\* A phase left loses the bytes of the producer that leaves.
LEMMA OwnedLost ==
  ASSUME TypeOK, WantFits, NEW p \in Producer, NEW from, NEW to,
         phase' = [phase EXCEPT ![p] = to], want' = want,
         phase[p] = from, from # to
  PROVE  /\ Cardinality(Owned(from)') \in Nat
         /\ Cardinality(Owned(from)) = Cardinality(Owned(from)') + want[p]
<1>1. Owned(from) = Owned(from)' \cup Bytes(p, want[p])
  BY BudgetAssumption DEF Owned, TypeOK, Bytes, WantFits
<1>2. Owned(from)' \cap Bytes(p, want[p]) = {}
  BY DEF Owned, Bytes, TypeOK
<1>3. IsFiniteSet(Owned(from)')
  <2>1. Owned(from)' \subseteq Owned(from)
    BY <1>1
  <2> QED BY <2>1, OwnedFinite, FS_Subset
<1>4. IsFiniteSet(Bytes(p, want[p])) /\ Cardinality(Bytes(p, want[p])) = want[p]
  <2>1. want[p] \in Nat
    BY DEF TypeOK
  <2> QED BY <2>1, BytesCount
<1>5. Cardinality(Owned(from)' \cup Bytes(p, want[p]))
        = Cardinality(Owned(from)') + Cardinality(Bytes(p, want[p]))
  BY <1>2, <1>3, <1>4, DisjointUnionCount
<1> QED BY <1>1, <1>3, <1>4, <1>5, FS_CardinalityType

---------------------------------------------------------------------------
\* The inductive invariant holds initially ...
LEMMA BudgetStarts == Init => BudgetInv
<1> SUFFICES ASSUME Init PROVE BudgetInv
  OBVIOUS
<1>1. TypeOK /\ WantFits /\ NoLostWakeup
  BY BudgetAssumption DEF Init, TypeOK, WantFits, NoLostWakeup, Phase
<1>2. Owned("holding") = {} /\ Owned("parked") = {}
  BY DEF Init, Owned
<1>3. HeldIsOwned /\ WaitingIsParked
  BY <1>2, BudgetAssumption, FS_EmptySet DEF Init, HeldIsOwned, WaitingIsParked
<1> QED BY <1>1, <1>3 DEF BudgetInv

\* ... and every step preserves it.
LEMMA BudgetSteps == BudgetInv /\ [Next]_vars => BudgetInv'
<1> SUFFICES ASSUME BudgetInv, [Next]_vars PROVE BudgetInv'
  OBVIOUS
<1> USE BudgetAssumption DEF BudgetInv
<1>1. ASSUME NEW p \in Producer, NEW n \in Sizes, Begin(p, n) PROVE BudgetInv'
  <2>1. TypeOK' /\ WantFits' /\ NoLostWakeup'
    BY <1>1 DEF Begin, Goto, TypeOK, WantFits, NoLostWakeup, Phase, Fits
  <2>2. Owned("holding")' = Owned("holding") /\ Owned("parked")' = Owned("parked")
    BY <1>1, OwnedKept DEF Begin, Goto, TypeOK
  <2> QED BY <1>1, <2>1, <2>2 DEF Begin, HeldIsOwned, WaitingIsParked
<1>2. ASSUME NEW p \in Producer, NEW n \in Sizes, TryAcquire(p, n) PROVE BudgetInv'
  <2>1. TypeOK' /\ WantFits'
    BY <1>2 DEF TryAcquire, Goto, TypeOK, WantFits, Phase
  <2>2. NoLostWakeup'
    BY <1>2 DEF TryAcquire, Goto, TypeOK, NoLostWakeup, Fits, HeldIsOwned, WantFits, Phase
  <2>3. Cardinality(Owned("holding")') = Cardinality(Owned("holding")) + n
    BY <1>2, OwnedGained DEF TryAcquire, Goto, TypeOK
  <2>4. Owned("parked")' = Owned("parked")
    BY <1>2, OwnedKept DEF TryAcquire, Goto, TypeOK
  <2> QED BY <1>2, <2>1, <2>2, <2>3, <2>4 DEF TryAcquire, HeldIsOwned, WaitingIsParked, Fits
<1>3. ASSUME NEW p \in Producer, Enrol(p) PROVE BudgetInv'
  <2>1. TypeOK' /\ WantFits' /\ NoLostWakeup'
    BY <1>3 DEF Enrol, Goto, TypeOK, WantFits, NoLostWakeup, Phase, Fits
  <2>2. Owned("holding")' = Owned("holding") /\ Owned("parked")' = Owned("parked")
    BY <1>3, OwnedKept DEF Enrol, Goto, TypeOK
  <2> QED BY <1>3, <2>1, <2>2 DEF Enrol, HeldIsOwned, WaitingIsParked
<1>4. ASSUME NEW p \in Producer, Admit(p) PROVE BudgetInv'
  <2>1. TypeOK' /\ WantFits'
    BY <1>4 DEF Admit, Goto, TypeOK, WantFits, Phase
  <2>2. NoLostWakeup'
    BY <1>4 DEF Admit, Goto, TypeOK, NoLostWakeup, Fits, WantFits, Phase
  <2>3. Cardinality(Owned("holding")') = Cardinality(Owned("holding")) + want[p]
    BY <1>4, OwnedGained DEF Admit, Goto, TypeOK, WantFits
  <2>4. Owned("parked")' = Owned("parked")
    BY <1>4, OwnedKept DEF Admit, Goto, TypeOK
  <2> QED BY <1>4, <2>1, <2>2, <2>3, <2>4 DEF Admit, HeldIsOwned, WaitingIsParked, Fits
<1>5. ASSUME NEW p \in Producer, RefuseBusy(p) PROVE BudgetInv'
  <2>1. TypeOK' /\ WantFits' /\ NoLostWakeup'
    BY <1>5 DEF RefuseBusy, Goto, TypeOK, WantFits, NoLostWakeup, Phase, Fits
  <2>2. Owned("holding")' = Owned("holding") /\ Owned("parked")' = Owned("parked")
    BY <1>5, OwnedKept DEF RefuseBusy, Goto, TypeOK
  <2> QED BY <1>5, <2>1, <2>2 DEF RefuseBusy, HeldIsOwned, WaitingIsParked
<1>6. ASSUME NEW p \in Producer, Park(p) PROVE BudgetInv'
  <2>1. TypeOK' /\ WantFits' /\ NoLostWakeup'
    BY <1>6 DEF Park, Goto, TypeOK, WantFits, NoLostWakeup, Phase, Fits
  <2>2. Cardinality(Owned("parked")') = Cardinality(Owned("parked")) + want[p]
    BY <1>6, OwnedGained DEF Park, Goto, TypeOK, WantFits
  <2>3. Owned("holding")' = Owned("holding")
    BY <1>6, OwnedKept DEF Park, Goto, TypeOK
  <2> QED BY <1>6, <2>1, <2>2, <2>3 DEF Park, HeldIsOwned, WaitingIsParked
<1>7. ASSUME NEW p \in Producer, Wake(p) PROVE BudgetInv'
  <2>1. TypeOK' /\ WantFits' /\ NoLostWakeup'
    BY <1>7 DEF Wake, Goto, TypeOK, WantFits, NoLostWakeup, Phase, Fits, Minus
  <2>2. /\ Cardinality(Owned("parked")') \in Nat
        /\ Cardinality(Owned("parked")) = Cardinality(Owned("parked")') + want[p]
    BY <1>7, OwnedLost DEF Wake, Goto
  <2>3. Owned("holding")' = Owned("holding")
    BY <1>7, OwnedKept DEF Wake, Goto, TypeOK
  <2> QED BY <1>7, <2>1, <2>2, <2>3 DEF Wake, HeldIsOwned, WaitingIsParked, Minus, TypeOK
<1>8. ASSUME NEW p \in Producer, Cancel(p) PROVE BudgetInv'
  <2>1. TypeOK' /\ WantFits' /\ NoLostWakeup'
    BY <1>8 DEF Cancel, Goto, TypeOK, WantFits, NoLostWakeup, Phase, Fits, Minus
  <2>2. Owned("holding")' = Owned("holding")
    BY <1>8, OwnedKept DEF Cancel, Goto, TypeOK
  <2>3. CASE phase[p] = "parked"
    <3>1. /\ Cardinality(Owned("parked")') \in Nat
          /\ Cardinality(Owned("parked")) = Cardinality(Owned("parked")') + want[p]
      BY <1>8, <2>3, OwnedLost DEF Cancel, Goto
    <3> QED BY <1>8, <2>1, <2>2, <2>3, <3>1 DEF Cancel, HeldIsOwned, WaitingIsParked, Minus, TypeOK
  <2>4. CASE phase[p] # "parked"
    <3>1. Owned("parked")' = Owned("parked")
      BY <1>8, <2>4, OwnedKept DEF Cancel, Goto, TypeOK
    <3> QED BY <1>8, <2>1, <2>2, <2>4, <3>1 DEF Cancel, HeldIsOwned, WaitingIsParked
  <2> QED BY <2>3, <2>4
<1>9. ASSUME NEW p \in Producer, Release(p) PROVE BudgetInv'
  <2>1. TypeOK' /\ WantFits'
    BY <1>9 DEF Release, Goto, TypeOK, WantFits, Phase, Minus
  <2>2. NoLostWakeup'
    BY <1>9 DEF Release, Goto, TypeOK, NoLostWakeup
  <2>3. /\ Cardinality(Owned("holding")') \in Nat
        /\ Cardinality(Owned("holding")) = Cardinality(Owned("holding")') + want[p]
    BY <1>9, OwnedLost DEF Release, Goto
  <2>4. Owned("parked")' = Owned("parked")
    BY <1>9, OwnedKept DEF Release, Goto, TypeOK
  <2> QED BY <1>9, <2>1, <2>2, <2>3, <2>4 DEF Release, HeldIsOwned, WaitingIsParked, Minus, TypeOK
<1>10. ASSUME NEW p \in Producer, NotifyWaiters(p) PROVE BudgetInv'
  <2>1. TypeOK' /\ WantFits' /\ NoLostWakeup'
    BY <1>10 DEF NotifyWaiters, Goto, TypeOK, WantFits, NoLostWakeup, Phase
  <2>2. Owned("holding")' = Owned("holding") /\ Owned("parked")' = Owned("parked")
    BY <1>10, OwnedKept DEF NotifyWaiters, Goto, TypeOK
  <2> QED BY <1>10, <2>1, <2>2 DEF NotifyWaiters, HeldIsOwned, WaitingIsParked
<1>11. CASE UNCHANGED vars
  <2>1. Owned("holding")' = Owned("holding") /\ Owned("parked")' = Owned("parked")
    BY <1>11 DEF vars, Owned
  <2> QED BY <1>11, <2>1 DEF vars, TypeOK, WantFits, HeldIsOwned, WaitingIsParked, NoLostWakeup, Fits
<1> QED BY <1>1, <1>2, <1>3, <1>4, <1>5, <1>6, <1>7, <1>8, <1>9, <1>10, <1>11 DEF Next, Advance

\* Every reachable state satisfies the inductive invariant.
THEOREM BudgetInvariant == Spec => []BudgetInv
<1>1. Init => BudgetInv
  BY BudgetStarts
<1>2. BudgetInv /\ [Next]_vars => BudgetInv'
  BY BudgetSteps
<1> QED BY <1>1, <1>2, PTL DEF Spec

\* The state is well-typed.
THEOREM TypeCorrect == Spec => []TypeOK
<1>1. BudgetInv => TypeOK
  BY DEF BudgetInv
<1> QED BY <1>1, BudgetInvariant, PTL

\* held is exactly what the permits own and never passes the capacity, whatever
\* is cancelled or refused.
THEOREM HeldExact == Spec => []HeldIsOwned
<1>1. BudgetInv => HeldIsOwned
  BY DEF BudgetInv
<1> QED BY <1>1, BudgetInvariant, PTL

\* waiting is exactly what the parked producers asked for: a cancelled one
\* leaves nothing behind that refuses later ones.
THEOREM WaitingExact == Spec => []WaitingIsParked
<1>1. BudgetInv => WaitingIsParked
  BY DEF BudgetInv
<1> QED BY <1>1, BudgetInvariant, PTL

\* No producer sleeps with room for it and nobody left to wake it.
THEOREM WakeupsReachSleepers == Spec => []NoLostWakeup
<1>1. BudgetInv => NoLostWakeup
  BY DEF BudgetInv
<1> QED BY <1>1, BudgetInvariant, PTL

---------------------------------------------------------------------------
(***************************************************************************)
(* For every finite set of callers and every limit: the permits that are   *)
(* out and the counters shutdown reads are exactly what the requests in    *)
(* flight have taken, and the connection is closed after the last job.     *)
(* A semaphore that is over-released, or a counter that wraps, would be a  *)
(* request that gave back what it did not have.                            *)
(***************************************************************************)

Semaphores == {"admission", "bytes", "executing"}

\* What a request has at each phase: each set is of the phases after one step
\* of the code and before the step that undoes it.
HasExecuting == {"counted", "dispatched", "running", "completing", "completed"}
HasSlot == {"slotted", "releasing"} \cup HasExecuting
InQueue == {"reserved", "submitted", "rejecting", "slotted", "counted"}
HasQueuedBytes == {"reserved", "submitted", "rejecting"} \cup HasSlot
HasBytes == {"granted", "admitted"} \cup HasQueuedBytes
HasAdmission == {"tryBytes", "waitBytes", "refusedBytes"} \cup HasBytes
Phases == {"idle", "tryAdmission", "waitAdmission", "refusedAdmission"} \cup HasAdmission

\* The phases from which a job may still reach SQL.
MayRun == {"slotted", "counted", "dispatched", "running", "completing"}

ExecTypeOK ==
  /\ execPhase \in [Caller -> Phases] /\ size \in [Caller -> 1 .. MaxBytes]
  /\ free \in [Semaphores -> Nat] /\ closed \in SUBSET Semaphores
  /\ queued \in Int /\ queuedBytes \in Int /\ executing \in Int
  /\ drain \in {"serving", "closing", "enrol", "readQueued", "readExecuting", "wait",
                "close", "closed"}

\* The units of semaphore s that the requests in the phases of P account for,
\* one pair for each: a request counts once as an admission, and with its bytes.
Taken(s, P) ==
  {x \in Caller \X (1 .. MaxBytes) : execPhase[x[1]] \in P /\ x[2] <= Needs(x[1], s)}
Requests(P) == Cardinality(Taken("admission", P))
BytesOf(P) == Cardinality(Taken("bytes", P))

Accounted ==
  /\ free["admission"] + Requests(HasAdmission) = MaxAdmitted
  /\ free["bytes"] + BytesOf(HasBytes) = MaxBytes
  /\ free["executing"] + Requests(HasSlot) = MaxExecuting
  /\ queued = Requests(InQueue)
  /\ queuedBytes = BytesOf(HasQueuedBytes)
  /\ executing = Requests(HasExecuting)

\* Once the slots are closed nobody takes one, so what shutdown read of the
\* counters stays true of the phases: first of those before SQL, then of all.
Nobody(P) == \A c \in Caller : execPhase[c] \notin P
DrainIsSound ==
  /\ drain \notin {"serving", "closing"} => "executing" \in closed
  /\ drain = "readExecuting" => Nobody({"slotted", "counted"})
  /\ drain \in {"close", "closed"} => Nobody(MayRun)
  /\ drain # "closed" => connection

\* The inductive invariant.
ExecInv == ExecTypeOK /\ Accounted /\ DrainIsSound

---------------------------------------------------------------------------
(* Counting what requests have taken.                                      *)

\* A set of pairs of a caller and a unit is finite.
LEMMA PairsFinite ==
  ASSUME NEW S, S \subseteq Caller \X (1 .. MaxBytes)
  PROVE  IsFiniteSet(S) /\ Cardinality(S) \in Nat
<1>1. IsFiniteSet(1 .. MaxBytes)
  BY ExecutionAssumption, FS_Interval
<1>2. IsFiniteSet(Caller \X (1 .. MaxBytes))
  BY <1>1, ExecutionAssumption, FS_Product
<1>3. IsFiniteSet(S)
  BY <1>2, FS_Subset
<1>. QED  BY <1>3, FS_CardinalityType

\* The units of one request.
Units(c, n) == {c} \X (1 .. n)

\* There are n of them.
LEMMA UnitsCount ==
  ASSUME NEW c, NEW n \in Nat
  PROVE  IsFiniteSet(Units(c, n)) /\ Cardinality(Units(c, n)) = n
<1>1. IsFiniteSet({c}) /\ Cardinality({c}) = 1
  BY FS_Singleton
<1>2. IsFiniteSet(1 .. n) /\ Cardinality(1 .. n) = n
  <2>1. CASE n = 0
    BY <2>1, FS_Interval
  <2>2. CASE n # 0
    BY <2>2, FS_Interval
  <2>. QED  BY <2>1, <2>2
<1>. DEFINE S == {c}  T == 1 .. n
<1>3. IsFiniteSet(S) /\ IsFiniteSet(T) /\ Cardinality(S) = 1 /\ Cardinality(T) = n
  BY <1>1, <1>2
<1>4. Units(c, n) = S \X T
  BY DEF Units
<1>. HIDE DEF S, T
<1>5. IsFiniteSet(S \X T) /\ Cardinality(S \X T) = Cardinality(S) * Cardinality(T)
  BY <1>3, FS_Product
<1>. QED  BY <1>3, <1>4, <1>5

\* Pairs without the units of a request, and with them.
LEMMA UnitsAdded ==
  ASSUME NEW S, S \subseteq Caller \X (1 .. MaxBytes), NEW c \in Caller, NEW n \in Nat,
         S \cap Units(c, n) = {}
  PROVE  Cardinality(S \cup Units(c, n)) = Cardinality(S) + n
<1>1. IsFiniteSet(S) /\ Cardinality(S) \in Nat
  BY PairsFinite
<1>2. IsFiniteSet(Units(c, n)) /\ Cardinality(Units(c, n)) = n
  BY UnitsCount
<1>3. Cardinality(S \cup Units(c, n)) = Cardinality(S) + n - Cardinality(S \cap Units(c, n))
  BY <1>1, <1>2, FS_Union
<1>4. Cardinality(S \cap Units(c, n)) = 0
  BY FS_EmptySet
<1>. QED  BY <1>1, <1>3, <1>4

\* The pairs of everybody but c are not changed by what c does; c's own are its
\* units when its phase is one of P.
Others(c, s, P) == {x \in Taken(s, P) : x[1] # c}
Share(c, s, p, P) == IF p \in P THEN Needs(c, s) ELSE 0
\* The pairs of a phase set are those of the others and c's share of units.
LEMMA SharesAdd ==
  ASSUME ExecTypeOK, NEW c \in Caller, NEW s, NEW P, NEW p, NEW T,
         T = Others(c, s, P) \cup IF p \in P THEN Units(c, Needs(c, s)) ELSE {}
  PROVE  /\ Cardinality(Others(c, s, P)) \in Nat
         /\ Cardinality(T) = Cardinality(Others(c, s, P)) + Share(c, s, p, P)
<1>1. PICK O : O = Others(c, s, P)
  OBVIOUS
<1>2. PICK n : n = Needs(c, s)
  OBVIOUS
<1>3. n \in Nat
  BY <1>2, ExecutionAssumption DEF ExecTypeOK, Needs
<1>4. O \subseteq Caller \X (1 .. MaxBytes) /\ O \cap Units(c, n) = {}
  BY <1>1 DEF Others, Taken, Units
<1>5. Cardinality(O) \in Nat
  BY <1>4, PairsFinite
<1>6. Cardinality(O \cup Units(c, n)) = Cardinality(O) + n
  BY <1>3, <1>4, UnitsAdded
<1>7. CASE p \in P
  BY <1>1, <1>2, <1>5, <1>6, <1>7 DEF Share
<1>8. CASE p \notin P
  <2>1. T = O
    BY <1>1, <1>8
  <2>. QED  BY <1>1, <1>5, <1>8, <2>1 DEF Share
<1>. QED  BY <1>7, <1>8

\* A request that goes from one phase to another takes what the phases it enters
\* have and gives back what the phases it leaves had.
Goes(c, q) == execPhase' = [execPhase EXCEPT ![c] = q] /\ size' = size
Gain(c, s, q, P) == Share(c, s, q, P) - Share(c, s, execPhase[c], P)
\* A count grows by what c gains of its phases, and by nothing else.
LEMMA CountMoves ==
  ASSUME ExecTypeOK, NEW c \in Caller, NEW q, Goes(c, q), NEW s, NEW P
  PROVE  /\ Cardinality(Taken(s, P)) \in Nat
         /\ Cardinality(Taken(s, P))' = Cardinality(Taken(s, P)) + Gain(c, s, q, P)
<1>1. Needs(c, s) \in 1 .. MaxBytes
  BY ExecutionAssumption DEF ExecTypeOK, Needs
<1>2. PICK p : p = execPhase[c]
  OBVIOUS
<1>3. PICK T : T = Taken(s, P)
  OBVIOUS
<1>4. PICK U : U = Taken(s, P)'
  OBVIOUS
<1>5. T = Others(c, s, P) \cup IF p \in P THEN Units(c, Needs(c, s)) ELSE {}
  BY <1>1, <1>2, <1>3, ExecutionAssumption DEF Others, Taken, Units
<1>6. U = Others(c, s, P) \cup IF q \in P THEN Units(c, Needs(c, s)) ELSE {}
  BY <1>1, <1>4, ExecutionAssumption DEF Others, Taken, Units, Goes, Needs, ExecTypeOK
<1>7. /\ Cardinality(Others(c, s, P)) \in Nat
      /\ Cardinality(T) = Cardinality(Others(c, s, P)) + Share(c, s, p, P)
  BY <1>5, SharesAdd
<1>8. Cardinality(U) = Cardinality(Others(c, s, P)) + Share(c, s, q, P)
  BY <1>6, SharesAdd
<1>9. Share(c, s, p, P) \in Nat /\ Share(c, s, q, P) \in Nat
  BY <1>1, ExecutionAssumption DEF Share
<1>. QED  BY <1>2, <1>3, <1>4, <1>7, <1>8, <1>9 DEF Gain

---------------------------------------------------------------------------
(* The steps of a request.                                                 *)

\* What it takes and gives back is what its phases say.
Balanced(c, q) ==
  /\ free'["admission"] = free["admission"] - Gain(c, "admission", q, HasAdmission)
  /\ free'["bytes"] = free["bytes"] - Gain(c, "bytes", q, HasBytes)
  /\ free'["executing"] = free["executing"] - Gain(c, "admission", q, HasSlot)
  /\ queued' = queued + Gain(c, "admission", q, InQueue)
  /\ queuedBytes' = queuedBytes + Gain(c, "bytes", q, HasQueuedBytes)
  /\ executing' = executing + Gain(c, "admission", q, HasExecuting)

\* It comes nearer to SQL only through a slot.
ThroughSlot(c, q) ==
  "executing" \in closed => /\ q \in MayRun => execPhase[c] \in MayRun
                            /\ q \in {"slotted", "counted"} => execPhase[c] \in {"slotted", "counted"}

Moves(c, q) ==
  /\ q \in Phases /\ Goes(c, q) /\ Balanced(c, q) /\ ThroughSlot(c, q)
  /\ free' \in [Semaphores -> Nat]
  /\ UNCHANGED shutdownVars

\* A request's step that takes and gives back what its phases say keeps the invariant.
LEMMA MovesKeep ==
  ASSUME ExecInv, NEW c \in Caller, NEW q, Moves(c, q)
  PROVE  ExecInv'
<1>1. /\ ExecTypeOK /\ Goes(c, q) /\ q \in Phases /\ free' \in [Semaphores -> Nat]
      /\ UNCHANGED shutdownVars /\ ThroughSlot(c, q)
  BY DEF ExecInv, Moves
<1>2. Accounted'
  <2> DEFINE N(s, P) == Cardinality(Taken(s, P))
  <2>1. \A s, P : /\ N(s, P) \in Nat
                  /\ N(s, P)' = N(s, P) + Gain(c, s, q, P)
    BY <1>1, CountMoves
  <2>2. Accounted /\ Balanced(c, q)
    BY DEF ExecInv, Moves
  <2>3. /\ free["admission"] \in Nat /\ free["bytes"] \in Nat /\ free["executing"] \in Nat
        /\ free'["admission"] \in Nat /\ free'["bytes"] \in Nat /\ free'["executing"] \in Nat
    BY <1>1 DEF ExecTypeOK, Semaphores
  <2>4. \A s, P : Gain(c, s, q, P) \in Int
    <3>1. \A s : Needs(c, s) \in Int
      BY <1>1, ExecutionAssumption DEF ExecTypeOK, Needs
    <3>. QED  BY <3>1 DEF Gain, Share
  <2>5. /\ free["admission"] + N("admission", HasAdmission) = MaxAdmitted
        /\ free["bytes"] + N("bytes", HasBytes) = MaxBytes
        /\ free["executing"] + N("admission", HasSlot) = MaxExecuting
        /\ queued = N("admission", InQueue) /\ queuedBytes = N("bytes", HasQueuedBytes)
        /\ executing = N("admission", HasExecuting)
    BY <2>2 DEF Accounted, Requests, BytesOf
  <2> HIDE DEF N
  <2>6. /\ free'["admission"] + N("admission", HasAdmission)' = MaxAdmitted
        /\ free'["bytes"] + N("bytes", HasBytes)' = MaxBytes
        /\ free'["executing"] + N("admission", HasSlot)' = MaxExecuting
    BY <2>1, <2>2, <2>3, <2>4, <2>5, ExecutionAssumption DEF Balanced
  <2>7. /\ queued' = N("admission", InQueue)' /\ queuedBytes' = N("bytes", HasQueuedBytes)'
        /\ executing' = N("admission", HasExecuting)'
    BY <2>1, <2>2, <2>4, <2>5 DEF Balanced
  <2>. QED  BY <2>6, <2>7 DEF Accounted, Requests, BytesOf, N
<1>3. ExecTypeOK'
  <2>1. execPhase' \in [Caller -> Phases] /\ size' \in [Caller -> 1 .. MaxBytes]
    BY <1>1 DEF ExecTypeOK, Goes
  <2>2. queued' \in Int /\ queuedBytes' \in Int /\ executing' \in Int
    <3>1. \A s, P : Cardinality(Taken(s, P)) \in Nat /\ Gain(c, s, q, P) \in Int
      <4>1. \A s : Needs(c, s) \in Int
        BY <1>1, ExecutionAssumption DEF ExecTypeOK, Needs
      <4>. QED  BY <1>1, <4>1, CountMoves DEF Gain, Share
    <3>. QED  BY <1>1, <3>1 DEF Moves, Balanced, ExecTypeOK
  <2>. QED  BY <1>1, <2>1, <2>2 DEF ExecTypeOK, shutdownVars
<1>4. DrainIsSound'
  <2>1. \A d \in Caller : d # c => execPhase'[d] = execPhase[d]
    BY <1>1 DEF Goes, ExecTypeOK
  <2>2. execPhase'[c] = q
    BY <1>1 DEF Goes, ExecTypeOK
  <2>3. "executing" \in closed /\ Nobody({"slotted", "counted"}) => Nobody({"slotted", "counted"})'
    BY <1>1, <2>1, <2>2 DEF Nobody, ThroughSlot
  <2>4. "executing" \in closed /\ Nobody(MayRun) => Nobody(MayRun)'
    BY <1>1, <2>1, <2>2 DEF Nobody, ThroughSlot
  <2>. QED  BY <1>1, <2>3, <2>4 DEF ExecInv, DrainIsSound, shutdownVars
<1>. QED  BY <1>2, <1>3, <1>4 DEF ExecInv

\* A gain, in numbers.
LEMMA Gains ==
  ASSUME ExecTypeOK, NEW c \in Caller, NEW q, NEW P
  PROVE  /\ (q \in P <=> execPhase[c] \in P) =>
              Gain(c, "admission", q, P) = 0 /\ Gain(c, "bytes", q, P) = 0
         /\ q \in P /\ execPhase[c] \notin P =>
              Gain(c, "admission", q, P) = 1 /\ Gain(c, "bytes", q, P) = size[c]
         /\ q \notin P /\ execPhase[c] \in P =>
              Gain(c, "admission", q, P) = -1 /\ Gain(c, "bytes", q, P) = -size[c]
<1>. size[c] \in Nat
  BY ExecutionAssumption DEF ExecTypeOK
<1>. QED  BY DEF Gain, Share, Needs

\* Which of the six sets two phases are both in, or neither.
Same(c, q, P) == q \in P <=> execPhase[c] \in P
\* A set both phases are in, or neither, is counted as before.
LEMMA SameGains ==
  ASSUME ExecTypeOK, NEW c \in Caller, NEW q, NEW P, Same(c, q, P)
  PROVE  Gain(c, "admission", q, P) = 0 /\ Gain(c, "bytes", q, P) = 0
BY Gains DEF Same

\* Numbers.
LEMMA Numbers ==
  ASSUME ExecTypeOK, NEW c \in Caller
  PROVE  /\ size[c] \in Nat /\ free \in [Semaphores -> Nat]
         /\ free["admission"] \in Nat /\ free["bytes"] \in Nat /\ free["executing"] \in Nat
         /\ queued \in Int /\ queuedBytes \in Int /\ executing \in Int
         /\ Needs(c, "admission") = 1 /\ Needs(c, "bytes") = size[c]
<1>. free \in [Semaphores -> Nat] /\ size[c] \in Nat
  BY ExecutionAssumption DEF ExecTypeOK
<1>. QED  BY DEF ExecTypeOK, Semaphores, Needs

\* What is free after permits are taken, and after they are dropped.
LEMMA Takes ==
  ASSUME ExecTypeOK, NEW s \in Semaphores, NEW n \in Nat, free[s] >= n, Take(s, n)
  PROVE  /\ free' \in [Semaphores -> Nat] /\ free'[s] = free[s] - n
         /\ \A r \in Semaphores \ {s} : free'[r] = free[r]
BY DEF ExecTypeOK, Take

\* What is free after c drops its permits of the semaphores of S.
LEMMA Drops ==
  ASSUME ExecTypeOK, NEW c \in Caller, NEW S, Drop(c, S), "executing" \notin S
  PROVE  /\ free' \in [Semaphores -> Nat]
         /\ free'["admission"] = IF "admission" \in S THEN free["admission"] + 1 ELSE free["admission"]
         /\ free'["bytes"] = IF "bytes" \in S THEN free["bytes"] + size[c] ELSE free["bytes"]
         /\ free'["executing"] = free["executing"]
<1>1. DOMAIN free = Semaphores /\ size[c] \in Nat /\ \A s \in Semaphores : free[s] \in Nat
  BY ExecutionAssumption DEF ExecTypeOK
<1>2. \A s \in Semaphores : Needs(c, s) \in Nat
  BY <1>1 DEF Needs
<1>3. free' = [s \in Semaphores |-> IF s \in S THEN free[s] + Needs(c, s) ELSE free[s]]
  BY <1>1 DEF Drop
<1>4. free' \in [Semaphores -> Nat]
  BY <1>1, <1>2, <1>3
<1>. QED  BY <1>3, <1>4 DEF Semaphores, Needs

\* A request that gives up returns what its phase says it holds.
LEMMA GivesUp ==
  ASSUME ExecTypeOK, NEW c \in Caller, Drop(c, Holds(c)), Goes(c, "idle"),
         execPhase[c] \in {"tryAdmission", "waitAdmission", "refusedAdmission",
                           "tryBytes", "waitBytes", "refusedBytes", "granted"},
         UNCHANGED <<queued, queuedBytes, executing, shutdownVars>>
  PROVE  Moves(c, "idle")
<1>1. PICK S : S = Holds(c)
  OBVIOUS
<1>2. "executing" \notin S
  BY <1>1 DEF Holds
<1>3. /\ free' \in [Semaphores -> Nat]
      /\ free'["admission"] = IF "admission" \in S THEN free["admission"] + 1 ELSE free["admission"]
      /\ free'["bytes"] = IF "bytes" \in S THEN free["bytes"] + size[c] ELSE free["bytes"]
      /\ free'["executing"] = free["executing"]
  BY <1>1, <1>2, Drops
<1>4. size[c] \in Nat /\ free \in [Semaphores -> Nat]
  BY ExecutionAssumption DEF ExecTypeOK
<1>5. free["admission"] \in Nat /\ free["bytes"] \in Nat /\ free["executing"] \in Nat
  BY <1>4 DEF Semaphores
<1>6. /\ free'["admission"] = free["admission"] - Gain(c, "admission", "idle", HasAdmission)
      /\ free'["bytes"] = free["bytes"] - Gain(c, "bytes", "idle", HasBytes)
      /\ free'["executing"] = free["executing"] - Gain(c, "admission", "idle", HasSlot)
  <2>1. /\ "idle" \notin HasAdmission /\ "idle" \notin HasBytes /\ Same(c, "idle", HasSlot)
        /\ execPhase[c] \in HasAdmission <=> "admission" \in S
        /\ execPhase[c] \in HasBytes <=> "bytes" \in S
    BY <1>1 DEF Holds, Same, HasAdmission, HasBytes, HasQueuedBytes, HasSlot, HasExecuting
  <2>. QED  BY <1>3, <1>4, <1>5, <2>1, Gains, SameGains
<1>7. /\ queued' = queued + Gain(c, "admission", "idle", InQueue)
      /\ queuedBytes' = queuedBytes + Gain(c, "bytes", "idle", HasQueuedBytes)
      /\ executing' = executing + Gain(c, "admission", "idle", HasExecuting)
  <2>1. Same(c, "idle", InQueue) /\ Same(c, "idle", HasQueuedBytes) /\ Same(c, "idle", HasExecuting)
    BY DEF Same, InQueue, HasQueuedBytes, HasSlot, HasExecuting
  <2>. QED  BY <2>1, SameGains, Numbers
<1>8. ThroughSlot(c, "idle") /\ "idle" \in Phases
  BY DEF ThroughSlot, MayRun, Phases
<1>. QED  BY <1>3, <1>6, <1>7, <1>8 DEF Moves, Balanced

\* Acquiring an admission and then bytes.
LEMMA AcquireMoves ==
  ASSUME ExecTypeOK, NEW c \in Caller, NEW s \in {"admission", "bytes"},
         AcquireNow(c, s) \/ AcquireRefused(c, s) \/ StartWaiting(c, s) \/ TurnAway(c, s)
           \/ WaitEnds(c, s) \/ CancelWaiting(c, s)
  PROVE  \E q : Moves(c, q)
<1>t. size[c] \in Nat /\ free \in [Semaphores -> Nat] /\ s \in Semaphores
  BY ExecutionAssumption DEF ExecTypeOK, Semaphores
<1>u. free["admission"] \in Nat /\ free["bytes"] \in Nat /\ free["executing"] \in Nat
  BY <1>t DEF Semaphores
<1>n. Needs(c, s) \in Nat /\ Needs(c, "admission") = 1 /\ Needs(c, "bytes") = size[c]
  BY <1>t DEF Needs
<1>1. ASSUME Take(s, Needs(c, s)), free[s] >= Needs(c, s), ExecGoto(c, Granted[s]), size' = size,
             execPhase[c] \in {Trying[s], Waiting[s]},
             UNCHANGED <<queued, queuedBytes, executing, shutdownVars>>
      PROVE  Moves(c, Granted[s])
  <2>1. PICK n : n = Needs(c, s)
    OBVIOUS
  <2>2. /\ free' \in [Semaphores -> Nat] /\ free'[s] = free[s] - n
        /\ \A r \in Semaphores \ {s} : free'[r] = free[r]
    BY <1>1, <1>n, <1>t, <2>1, Takes
  <2>3. CASE s = "admission"
    <3>1. execPhase[c] \in {"tryAdmission", "waitAdmission"} /\ Granted[s] = "tryBytes" /\ n = 1
      BY <1>1, <1>n, <2>1, <2>3 DEF Trying, Waiting, Granted
    <3>2. free'["admission"] = free["admission"] - 1 /\ free'["bytes"] = free["bytes"]
          /\ free'["executing"] = free["executing"]
      BY <2>2, <2>3, <3>1 DEF Semaphores
    <3>3. Balanced(c, "tryBytes")
      <4>1. /\ "tryBytes" \in HasAdmission /\ execPhase[c] \notin HasAdmission
            /\ \A P \in {HasBytes, HasSlot, InQueue, HasQueuedBytes, HasExecuting} : Same(c, "tryBytes", P)
        BY <3>1 DEF Same, HasAdmission, HasBytes, HasQueuedBytes, HasSlot, HasExecuting, InQueue
      <4>. QED  BY <1>1, <3>2, <4>1, Gains, SameGains, Numbers DEF Balanced
    <3>4. ThroughSlot(c, "tryBytes") /\ "tryBytes" \in Phases
      BY DEF ThroughSlot, MayRun, Phases, HasAdmission
    <3>. QED  BY <1>1, <2>2, <3>1, <3>3, <3>4 DEF Moves, Goes, ExecGoto
  <2>4. CASE s = "bytes"
    <3>1. execPhase[c] \in {"tryBytes", "waitBytes"} /\ Granted[s] = "granted" /\ n = size[c]
      BY <1>1, <1>n, <2>1, <2>4 DEF Trying, Waiting, Granted
    <3>2. free'["admission"] = free["admission"] /\ free'["bytes"] = free["bytes"] - size[c]
          /\ free'["executing"] = free["executing"]
      BY <2>2, <2>4, <3>1 DEF Semaphores
    <3>3. Balanced(c, "granted")
      <4>1. /\ "granted" \in HasBytes /\ execPhase[c] \notin HasBytes
            /\ \A P \in {HasAdmission, HasSlot, InQueue, HasQueuedBytes, HasExecuting} : Same(c, "granted", P)
        BY <3>1 DEF Same, HasAdmission, HasBytes, HasQueuedBytes, HasSlot, HasExecuting, InQueue
      <4>. QED  BY <1>1, <3>2, <4>1, Gains, SameGains, Numbers DEF Balanced
    <3>4. ThroughSlot(c, "granted") /\ "granted" \in Phases
      BY DEF ThroughSlot, MayRun, Phases, HasAdmission, HasBytes
    <3>. QED  BY <1>1, <2>2, <3>1, <3>3, <3>4 DEF Moves, Goes, ExecGoto
  <2>. QED  BY <2>3, <2>4
<1>2. CASE AcquireNow(c, s)
  BY <1>1, <1>2 DEF AcquireNow, counters
<1>3. CASE AcquireRefused(c, s)
  <2>1. execPhase[c] \in {"tryAdmission", "tryBytes"}
    BY <1>3 DEF AcquireRefused, Trying
  <2>. QED  BY <1>3, <2>1, GivesUp DEF AcquireRefused, Goes, ExecGoto, counters
<1>4. CASE StartWaiting(c, s)
  <2>1. PICK q \in {ExecRefused[s], Waiting[s]} : ExecGoto(c, q)
    BY <1>4 DEF StartWaiting
  <2>2. /\ <<execPhase[c], q>> \in {<<"tryAdmission", "refusedAdmission">>, <<"tryAdmission", "waitAdmission">>,
                                    <<"tryBytes", "refusedBytes">>, <<"tryBytes", "waitBytes">>}
        /\ UNCHANGED <<size, free, queued, queuedBytes, executing, shutdownVars>>
    BY <1>4, <2>1 DEF StartWaiting, Trying, Waiting, ExecRefused
  <2>3. Balanced(c, q)
    <3>1. \A P \in {HasAdmission, HasBytes, HasSlot, InQueue, HasQueuedBytes, HasExecuting} : Same(c, q, P)
      BY <2>2 DEF Same, HasAdmission, HasBytes, HasQueuedBytes, HasSlot, HasExecuting, InQueue
    <3>. QED  BY <2>2, <3>1, SameGains, Numbers DEF Balanced
  <2>4. ThroughSlot(c, q) /\ q \in Phases
    BY <2>2 DEF ThroughSlot, MayRun, Phases, HasAdmission
  <2>. QED  BY <1>t, <2>1, <2>2, <2>3, <2>4 DEF Moves, Goes, ExecGoto
<1>5. CASE TurnAway(c, s)
  <2>1. execPhase[c] \in {"refusedAdmission", "refusedBytes"}
    BY <1>5 DEF TurnAway, ExecRefused
  <2>. QED  BY <1>5, <2>1, GivesUp DEF TurnAway, Goes, ExecGoto
<1>6. CASE WaitEnds(c, s)
  <2>1. execPhase[c] \in {"waitAdmission", "waitBytes"}
    BY <1>6 DEF WaitEnds, Waiting
  <2>2. CASE s \notin closed /\ free[s] >= Needs(c, s) /\ Take(s, Needs(c, s)) /\ ExecGoto(c, Granted[s])
    BY <1>1, <1>6, <2>2 DEF WaitEnds
  <2>3. CASE s \in closed /\ Drop(c, Holds(c)) /\ ExecGoto(c, "idle")
    BY <1>6, <2>1, <2>3, GivesUp DEF WaitEnds, Goes, ExecGoto
  <2>. QED  BY <1>6, <2>2, <2>3 DEF WaitEnds
<1>7. CASE CancelWaiting(c, s)
  <2>1. execPhase[c] \in {"waitAdmission", "waitBytes"}
    BY <1>7 DEF CancelWaiting, Waiting
  <2>. QED  BY <1>7, <2>1, GivesUp DEF CancelWaiting, Goes, ExecGoto, counters
<1>. QED  BY <1>2, <1>3, <1>4, <1>5, <1>6, <1>7

\* A step between two phases that have the same takes and gives nothing.
LEMMA GoesOn ==
  ASSUME ExecTypeOK, NEW c \in Caller, NEW q \in Phases, Goes(c, q), ThroughSlot(c, q),
         \A P \in {HasAdmission, HasBytes, HasSlot, InQueue, HasQueuedBytes, HasExecuting} :
           Same(c, q, P),
         UNCHANGED <<free, queued, queuedBytes, executing, shutdownVars>>
  PROVE  Moves(c, q)
<1>1. Balanced(c, q)
  BY SameGains, Numbers DEF Balanced
<1>. QED  BY <1>1, Numbers DEF Moves

\* A reservation that is dropped gives back its admission, its bytes and its
\* place in the queue.
LEMMA DropsReservation ==
  ASSUME ExecTypeOK, NEW c \in Caller, execPhase[c] \in {"reserved", "submitted", "rejecting"},
         DropReservation(c)
  PROVE  Moves(c, "idle")
<1>1. PICK S : S = Holds(c)
  OBVIOUS
<1>2. S = {"admission", "bytes"}
  BY <1>1 DEF Holds
<1>3. /\ free' \in [Semaphores -> Nat]
      /\ free'["admission"] = IF "admission" \in S THEN free["admission"] + 1 ELSE free["admission"]
      /\ free'["bytes"] = IF "bytes" \in S THEN free["bytes"] + size[c] ELSE free["bytes"]
      /\ free'["executing"] = free["executing"]
  BY <1>1, <1>2, Drops DEF DropReservation
<1>4. /\ execPhase[c] \in HasAdmission /\ "idle" \notin HasAdmission
      /\ execPhase[c] \in HasBytes /\ "idle" \notin HasBytes
      /\ execPhase[c] \in InQueue /\ "idle" \notin InQueue
      /\ execPhase[c] \in HasQueuedBytes /\ "idle" \notin HasQueuedBytes
      /\ Same(c, "idle", HasSlot) /\ Same(c, "idle", HasExecuting)
  BY DEF Same, HasAdmission, HasBytes, HasQueuedBytes, HasSlot, HasExecuting, InQueue
<1>5. /\ queued' = queued - 1 /\ queuedBytes' = queuedBytes - size[c] /\ executing' = executing
      /\ Goes(c, "idle") /\ UNCHANGED shutdownVars
  BY DEF DropReservation, Goes, ExecGoto
<1>6. Balanced(c, "idle")
  BY <1>2, <1>3, <1>4, <1>5, Gains, SameGains, Numbers DEF Balanced
<1>7. ThroughSlot(c, "idle") /\ "idle" \in Phases
  BY DEF ThroughSlot, MayRun, Phases
<1>. QED  BY <1>3, <1>5, <1>6, <1>7 DEF Moves

\* From the second look at shutting_down to the end of the job.
LEMMA RequestMoves ==
  ASSUME ExecTypeOK, NEW c \in Caller,
         \/ Recheck(c) \/ CountQueued(c) \/ (\E withHook \in BOOLEAN : Submit(c, withHook))
         \/ TakeSlot(c) \/ RejectSubmitted(c) \/ CountExecuting(c) \/ Dispatch(c)
         \/ Start(c) \/ RunJob(c) \/ ExecComplete(c) \/ CountFinished(c) \/ ExecRelease(c)
         \/ CompleteRejected(c) \/ CancelReserved(c)
  PROVE  \E q : Moves(c, q)
<1> DEFINE Sets == {HasAdmission, HasBytes, HasSlot, InQueue, HasQueuedBytes, HasExecuting}
<1>0. \A q : q \notin MayRun => ThroughSlot(c, q)
  BY DEF ThroughSlot, MayRun
<1>1. CASE Recheck(c)
  <2>1. CASE shuttingDown
    BY <1>1, <2>1, GivesUp DEF Recheck, Goes, ExecGoto, counters
  <2>2. CASE ~shuttingDown
    <3>1. \A P \in Sets : Same(c, "admitted", P)
      BY <1>1 DEF Recheck, Same, HasAdmission, HasBytes, HasQueuedBytes, HasSlot, HasExecuting, InQueue
    <3>2. "admitted" \in Phases /\ "admitted" \notin MayRun
      BY DEF MayRun, Phases, HasAdmission, HasBytes
    <3>. QED  BY <1>0, <1>1, <2>2, <3>1, <3>2, GoesOn DEF Recheck, Goes, ExecGoto, counters
  <2>. QED  BY <2>1, <2>2
<1>2. CASE CountQueued(c)
  <2>1. /\ "reserved" \in InQueue /\ execPhase[c] \notin InQueue
        /\ "reserved" \in HasQueuedBytes /\ execPhase[c] \notin HasQueuedBytes
        /\ \A P \in {HasAdmission, HasBytes, HasSlot, HasExecuting} : Same(c, "reserved", P)
        /\ "reserved" \in Phases /\ "reserved" \notin MayRun
    BY <1>2 DEF CountQueued, Same, Phases, MayRun, HasAdmission, HasBytes, HasQueuedBytes, HasSlot,
       HasExecuting, InQueue
  <2>2. /\ queued' = queued + 1 /\ queuedBytes' = queuedBytes + size[c]
        /\ Goes(c, "reserved") /\ UNCHANGED <<free, executing, shutdownVars>>
    BY <1>2 DEF CountQueued, Goes, ExecGoto
  <2>3. Balanced(c, "reserved")
    BY <2>1, <2>2, Gains, SameGains, Numbers DEF Balanced
  <2>. QED  BY <1>0, <2>1, <2>2, <2>3, Numbers DEF Moves
<1>3. ASSUME NEW withHook \in BOOLEAN, Submit(c, withHook) PROVE Moves(c, "submitted")
  <2>1. \A P \in Sets : Same(c, "submitted", P)
    BY <1>3 DEF Submit, Same, HasAdmission, HasBytes, HasQueuedBytes, HasSlot, HasExecuting, InQueue
  <2>2. "submitted" \in Phases /\ "submitted" \notin MayRun
    BY DEF MayRun, Phases, HasAdmission, HasBytes, HasQueuedBytes
  <2>. QED  BY <1>0, <1>3, <2>1, <2>2, GoesOn DEF Submit, Goes, ExecGoto, counters
<1>4. CASE TakeSlot(c)
  <2>1. /\ "slotted" \in HasSlot /\ execPhase[c] \notin HasSlot
        /\ \A P \in {HasAdmission, HasBytes, InQueue, HasQueuedBytes, HasExecuting} : Same(c, "slotted", P)
        /\ "slotted" \in Phases
    BY <1>4 DEF TakeSlot, Same, Phases, HasAdmission, HasBytes, HasQueuedBytes, HasSlot,
       HasExecuting, InQueue
  <2>2. /\ Take("executing", 1) /\ free["executing"] >= 1 /\ "executing" \notin closed
        /\ Goes(c, "slotted") /\ UNCHANGED <<queued, queuedBytes, executing, shutdownVars>>
    BY <1>4, Numbers DEF TakeSlot, Goes, ExecGoto, counters
  <2>3. /\ free' \in [Semaphores -> Nat] /\ free'["executing"] = free["executing"] - 1
        /\ free'["admission"] = free["admission"] /\ free'["bytes"] = free["bytes"]
    BY <2>2, Takes DEF Semaphores
  <2>4. Balanced(c, "slotted")
    BY <2>1, <2>2, <2>3, Gains, SameGains, Numbers DEF Balanced
  <2>. QED  BY <2>1, <2>2, <2>3, <2>4 DEF Moves, ThroughSlot
<1>5. CASE RejectSubmitted(c)
  <2>1. CASE hook[c] = "pending"
    <3>1. \A P \in Sets : Same(c, "rejecting", P)
      BY <1>5 DEF RejectSubmitted, Same, HasAdmission, HasBytes, HasQueuedBytes, HasSlot, HasExecuting, InQueue
    <3>2. "rejecting" \in Phases /\ "rejecting" \notin MayRun
      BY DEF MayRun, Phases, HasAdmission, HasBytes, HasQueuedBytes
    <3>. QED  BY <1>0, <1>5, <2>1, <3>1, <3>2, GoesOn DEF RejectSubmitted, Goes, ExecGoto, counters
  <2>2. CASE hook[c] # "pending"
    BY <1>5, <2>2, DropsReservation DEF RejectSubmitted
  <2>. QED  BY <2>1, <2>2
<1>6. CASE CountExecuting(c)
  <2>1. /\ "counted" \in HasExecuting /\ execPhase[c] \notin HasExecuting
        /\ \A P \in {HasAdmission, HasBytes, HasSlot, InQueue, HasQueuedBytes} : Same(c, "counted", P)
        /\ "counted" \in Phases /\ ThroughSlot(c, "counted")
    BY <1>6 DEF CountExecuting, Same, Phases, HasAdmission, HasBytes, HasQueuedBytes, HasSlot,
       HasExecuting, InQueue, ThroughSlot, MayRun
  <2>2. /\ executing' = executing + 1 /\ Goes(c, "counted")
        /\ UNCHANGED <<free, queued, queuedBytes, shutdownVars>>
    BY <1>6 DEF CountExecuting, Goes, ExecGoto
  <2>3. Balanced(c, "counted")
    BY <2>1, <2>2, Gains, SameGains, Numbers DEF Balanced
  <2>. QED  BY <2>1, <2>2, <2>3, Numbers DEF Moves
<1>7. CASE Dispatch(c)
  <2>1. /\ "dispatched" \notin InQueue /\ execPhase[c] \in InQueue
        /\ \A P \in {HasAdmission, HasBytes, HasSlot, HasExecuting, HasQueuedBytes} : Same(c, "dispatched", P)
        /\ "dispatched" \in Phases /\ ThroughSlot(c, "dispatched")
    BY <1>7 DEF Dispatch, Same, Phases, HasAdmission, HasBytes, HasQueuedBytes, HasSlot,
       HasExecuting, InQueue, ThroughSlot, MayRun
  <2>2. /\ queued' = queued - 1 /\ Goes(c, "dispatched")
        /\ UNCHANGED <<free, executing, queuedBytes, shutdownVars>>
    BY <1>7 DEF Dispatch, Goes, ExecGoto
  <2>3. Balanced(c, "dispatched")
    BY <2>1, <2>2, Gains, SameGains, Numbers DEF Balanced
  <2>. QED  BY <2>1, <2>2, <2>3, Numbers DEF Moves
<1>8. CASE Start(c) \/ RunJob(c) \/ ExecComplete(c)
  <2>1. PICK q : ExecGoto(c, q) /\
          <<execPhase[c], q>> \in {<<"dispatched", "completing">>, <<"dispatched", "running">>,
                                   <<"running", "completing">>, <<"completing", "completed">>}
    BY <1>8 DEF Start, RunJob, ExecComplete
  <2>2. \A P \in Sets : Same(c, q, P)
    BY <2>1 DEF Same, HasAdmission, HasBytes, HasQueuedBytes, HasSlot, HasExecuting, InQueue
  <2>3. q \in Phases /\ ThroughSlot(c, q)
    BY <2>1 DEF ThroughSlot, MayRun, Phases, HasAdmission, HasBytes, HasQueuedBytes, HasSlot, HasExecuting
  <2>4. UNCHANGED <<size, free, queued, queuedBytes, executing, shutdownVars>>
    BY <1>8 DEF Start, RunJob, ExecComplete, counters
  <2>. QED  BY <2>1, <2>2, <2>3, <2>4, GoesOn DEF Goes, ExecGoto
<1>9. CASE CountFinished(c)
  <2>1. /\ "releasing" \notin HasExecuting /\ execPhase[c] \in HasExecuting
        /\ \A P \in {HasAdmission, HasBytes, HasSlot, InQueue, HasQueuedBytes} : Same(c, "releasing", P)
        /\ "releasing" \in Phases /\ "releasing" \notin MayRun
    BY <1>9 DEF CountFinished, Same, Phases, HasAdmission, HasBytes, HasQueuedBytes, HasSlot,
       HasExecuting, InQueue, MayRun
  <2>2. /\ executing' = executing - 1 /\ Goes(c, "releasing")
        /\ UNCHANGED <<free, queued, queuedBytes, shutdownVars>>
    BY <1>9 DEF CountFinished, Goes, ExecGoto
  <2>3. Balanced(c, "releasing")
    BY <2>1, <2>2, Gains, SameGains, Numbers DEF Balanced
  <2>. QED  BY <1>0, <2>1, <2>2, <2>3, Numbers DEF Moves
<1>10. CASE ExecRelease(c)
  <2>1. /\ \A P \in {HasAdmission, HasBytes, HasSlot, HasQueuedBytes} : execPhase[c] \in P /\ "idle" \notin P
        /\ Same(c, "idle", InQueue) /\ Same(c, "idle", HasExecuting)
        /\ "idle" \in Phases /\ "idle" \notin MayRun
    BY <1>10 DEF ExecRelease, Same, Phases, HasAdmission, HasBytes, HasQueuedBytes, HasSlot,
       HasExecuting, InQueue, MayRun
  <2>2. /\ queuedBytes' = queuedBytes - size[c] /\ Goes(c, "idle")
        /\ UNCHANGED <<queued, executing, shutdownVars>>
    BY <1>10 DEF ExecRelease, Goes, ExecGoto
  <2>3. /\ free' \in [Semaphores -> Nat] /\ free'["executing"] = free["executing"] + 1
        /\ free'["admission"] = free["admission"] + 1 /\ free'["bytes"] = free["bytes"] + size[c]
    BY <1>10, Numbers DEF ExecRelease, Semaphores
  <2>4. Balanced(c, "idle")
    BY <2>1, <2>2, <2>3, Gains, SameGains, Numbers DEF Balanced
  <2>. QED  BY <1>0, <2>1, <2>2, <2>3, <2>4 DEF Moves
<1>11. CASE CompleteRejected(c) \/ CancelReserved(c)
  BY <1>11, DropsReservation DEF CompleteRejected, CancelReserved
<1>. QED  BY <1>1, <1>2, <1>3, <1>4, <1>5, <1>6, <1>7, <1>8, <1>9, <1>10, <1>11

\* A request that begins has taken nothing yet, so its new size counts nowhere.
LEMMA ReserveKeeps ==
  ASSUME ExecInv, NEW c \in Caller, NEW n \in ExecSizes, Reserve(c, n)
  PROVE  ExecInv'
<1>1. /\ ExecTypeOK /\ execPhase[c] = "idle" /\ n \in 1 .. MaxBytes
      /\ size' = [size EXCEPT ![c] = n] /\ execPhase' = [execPhase EXCEPT ![c] = "tryAdmission"]
      /\ UNCHANGED <<free, counters, shutdownVars>>
  BY ExecutionAssumption DEF ExecInv, Reserve, ExecGoto
<1>2. /\ execPhase'[c] = "tryAdmission" /\ execPhase' \in [Caller -> Phases]
      /\ size' \in [Caller -> 1 .. MaxBytes]
      /\ \A d \in Caller : d # c => execPhase'[d] = execPhase[d] /\ size'[d] = size[d]
  BY <1>1 DEF ExecTypeOK, Phases
<1>3. ASSUME NEW s, NEW P, "idle" \notin P, "tryAdmission" \notin P
      PROVE  Taken(s, P)' = Taken(s, P)
  BY <1>1, <1>2, <1>3 DEF Taken, Needs
<1>4. \A P \in {HasAdmission, HasBytes, HasSlot, InQueue, HasQueuedBytes, HasExecuting} :
        "idle" \notin P /\ "tryAdmission" \notin P
  BY DEF HasAdmission, HasBytes, HasQueuedBytes, HasSlot, HasExecuting, InQueue
<1>5. /\ Requests(HasAdmission)' = Requests(HasAdmission) /\ BytesOf(HasBytes)' = BytesOf(HasBytes)
      /\ Requests(HasSlot)' = Requests(HasSlot) /\ Requests(InQueue)' = Requests(InQueue)
      /\ BytesOf(HasQueuedBytes)' = BytesOf(HasQueuedBytes)
      /\ Requests(HasExecuting)' = Requests(HasExecuting)
  BY <1>3, <1>4 DEF Requests, BytesOf
<1>6. Accounted'
  BY <1>1, <1>5 DEF ExecInv, Accounted, counters
<1>7. ExecTypeOK'
  BY <1>1, <1>2 DEF ExecTypeOK, counters, shutdownVars
<1>8. DrainIsSound'
  <2>1. ASSUME NEW P, "tryAdmission" \notin P, Nobody(P) PROVE Nobody(P)'
    BY <1>2, <2>1 DEF Nobody
  <2>2. "tryAdmission" \notin MayRun /\ "tryAdmission" \notin {"slotted", "counted"}
    BY DEF MayRun
  <2>. QED  BY <1>1, <2>1, <2>2 DEF ExecInv, DrainIsSound, shutdownVars
<1>. QED  BY <1>6, <1>7, <1>8 DEF ExecInv

---------------------------------------------------------------------------
(* The steps of shutdown.                                                  *)

\* A counter at zero: nobody is in its phases.
LEMMA ZeroIsNobody ==
  ASSUME ExecTypeOK, NEW P, Requests(P) = 0
  PROVE  Nobody(P)
<1>1. PICK S : S = Taken("admission", P)
  OBVIOUS
<1>2. S \subseteq Caller \X (1 .. MaxBytes)
  BY <1>1 DEF Taken
<1>3. IsFiniteSet(S) /\ Cardinality(S) = 0
  BY <1>1, <1>2, PairsFinite DEF Requests
<1>4. S = {}
  BY <1>3, FS_EmptySet
<1>5. ASSUME NEW c \in Caller, execPhase[c] \in P
      PROVE  <<c, 1>> \in S
  <2>1. 1 \in 1 .. MaxBytes /\ 1 <= Needs(c, "admission")
    BY ExecutionAssumption DEF Needs
  <2>. QED  BY <1>1, <1>5, <2>1 DEF Taken
<1>. QED  BY <1>4, <1>5 DEF Nobody

\* What no request's step changes the accounts by.
LEMMA AccountsStay ==
  ASSUME ExecInv, UNCHANGED <<execPhase, size, free, counters>>
  PROVE  /\ Accounted'
         /\ \A P : Nobody(P) => Nobody(P)'
<1>1. Accounted'
  BY DEF ExecInv, Accounted, Requests, BytesOf, Taken, Needs, counters
<1>. QED  BY <1>1 DEF Nobody

\* Shutdown closes what nobody needs any more.
LEMMA ShutdownKeeps ==
  ASSUME ExecInv, Shutdown
  PROVE  ExecInv'
<1>1. UNCHANGED <<execPhase, size, free, counters>>
  BY DEF Shutdown, StopAdmission, CloseSemaphore, EnrolIdle, ReadQueued, ReadExecuting,
     IdleNotified, CloseConnection, requestVars
<1>2. Accounted' /\ \A P : Nobody(P) => Nobody(P)'
  BY <1>1, AccountsStay
<1>3. ExecTypeOK'
  <2>1. closed' \in SUBSET Semaphores
    BY DEF ExecInv, ExecTypeOK, Shutdown, StopAdmission, CloseSemaphore, EnrolIdle, ReadQueued,
       ReadExecuting, IdleNotified, CloseConnection
  <2>2. drain' \in {"serving", "closing", "enrol", "readQueued", "readExecuting", "wait",
                    "close", "closed"}
    BY DEF ExecInv, ExecTypeOK, Shutdown, StopAdmission, CloseSemaphore, EnrolIdle, ReadQueued,
       ReadExecuting, IdleNotified, CloseConnection
  <2>. QED  BY <1>1, <2>1, <2>2 DEF ExecInv, ExecTypeOK, counters
<1>4. DrainIsSound /\ ExecTypeOK /\ Accounted
  BY DEF ExecInv
<1>5. DrainIsSound'
  <2>1. CASE StopAdmission
    BY <1>4, <2>1 DEF StopAdmission, DrainIsSound
  <2>2. ASSUME NEW s \in DOMAIN free, CloseSemaphore(s) PROVE DrainIsSound'
    BY <1>4, <2>2 DEF CloseSemaphore, DrainIsSound
  <2>3. CASE EnrolIdle \/ IdleNotified
    BY <1>4, <2>3 DEF EnrolIdle, IdleNotified, DrainIsSound
  <2>4. CASE ReadQueued
    <3>1. queued = 0 => Nobody({"slotted", "counted"})
      BY <1>4, ZeroIsNobody DEF Accounted, InQueue, Nobody
    <3>. QED  BY <1>2, <1>4, <2>4, <3>1 DEF ReadQueued, DrainIsSound
  <2>5. CASE ReadExecuting
    <3>1. executing = 0 => Nobody(HasExecuting)
      BY <1>4, ZeroIsNobody DEF Accounted
    <3>2. executing = 0 => Nobody(MayRun)
      BY <1>4, <2>5, <3>1 DEF ReadExecuting, DrainIsSound, Nobody, MayRun, HasExecuting
    <3>. QED  BY <1>2, <1>4, <2>5, <3>2 DEF ReadExecuting, DrainIsSound
  <2>6. CASE CloseConnection
    BY <1>2, <1>4, <2>6 DEF CloseConnection, DrainIsSound
  <2>. QED  BY <2>1, <2>2, <2>3, <2>4, <2>5, <2>6 DEF Shutdown
<1>. QED  BY <1>2, <1>3, <1>5 DEF ExecInv

---------------------------------------------------------------------------
\* At the start nothing is taken.
LEMMA ExecInitSound == ExecInit => ExecInv
<1> SUFFICES ASSUME ExecInit PROVE ExecInv
  OBVIOUS
<1>1. \A c \in Caller : execPhase[c] = "idle"
  BY DEF ExecInit
<1>2. ExecTypeOK
  <2>1. execPhase \in [Caller -> Phases] /\ size \in [Caller -> 1 .. MaxBytes]
    BY ExecutionAssumption DEF ExecInit, Phases
  <2>2. free \in [Semaphores -> Nat]
    BY ExecutionAssumption DEF ExecInit, AllFree, Semaphores
  <2>. QED  BY <2>1, <2>2 DEF ExecInit, ExecTypeOK
<1>3. \A s, P : "idle" \notin P => Taken(s, P) = {}
  BY <1>1 DEF Taken
<1>4. Cardinality({}) = 0
  BY FS_EmptySet
<1>5. \A P : "idle" \notin P => Requests(P) = 0 /\ BytesOf(P) = 0
  BY <1>3, <1>4 DEF Requests, BytesOf
<1>6. \A P \in {HasAdmission, HasBytes, HasSlot, InQueue, HasQueuedBytes, HasExecuting} : "idle" \notin P
  BY DEF HasAdmission, HasBytes, HasQueuedBytes, HasSlot, HasExecuting, InQueue
<1>7. /\ free["admission"] = MaxAdmitted /\ free["bytes"] = MaxBytes
      /\ free["executing"] = MaxExecuting
  BY DEF ExecInit, AllFree
<1>8. Accounted
  <2>1. /\ Requests(HasAdmission) = 0 /\ BytesOf(HasBytes) = 0 /\ Requests(HasSlot) = 0
        /\ Requests(InQueue) = 0 /\ BytesOf(HasQueuedBytes) = 0 /\ Requests(HasExecuting) = 0
    BY <1>5, <1>6
  <2>. QED  BY <1>7, <2>1, ExecutionAssumption DEF Accounted, ExecInit
<1>9. DrainIsSound
  BY DEF ExecInit, DrainIsSound
<1>. QED  BY <1>2, <1>8, <1>9 DEF ExecInv

\* Every step keeps the invariant.
LEMMA ExecNextSound == ExecInv /\ [ExecNext]_execVars => ExecInv'
<1> SUFFICES ASSUME ExecInv, [ExecNext]_execVars PROVE ExecInv'
  OBVIOUS
<1>0. ExecTypeOK
  BY DEF ExecInv
<1>1. ASSUME NEW c \in Caller, NEW n \in ExecSizes, Reserve(c, n) PROVE ExecInv'
  BY <1>1, ReserveKeeps
<1>2. ASSUME NEW c \in Caller, \E q : Moves(c, q) PROVE ExecInv'
  BY <1>2, MovesKeep
<1>3. ASSUME UNCHANGED <<execPhase, size, free, counters, shutdownVars>> PROVE ExecInv'
  <2>1. Accounted' /\ \A P : Nobody(P) => Nobody(P)'
    BY <1>3, AccountsStay
  <2>2. ExecTypeOK'
    BY <1>0, <1>3 DEF ExecTypeOK, counters, shutdownVars
  <2>3. DrainIsSound'
    BY <1>3, <2>1 DEF ExecInv, DrainIsSound, shutdownVars
  <2>. QED  BY <2>1, <2>2, <2>3 DEF ExecInv
<1>4. ASSUME NEW c \in Caller, ExecAdvance(c) PROVE ExecInv'
  <2>1. CASE Acquire(c)
    <3>1. \E q : Moves(c, q)
      BY <1>0, <2>1, AcquireMoves DEF Acquire
    <3>. QED  BY <1>2, <3>1
  <2>2. CASE CompleteOrphan(c)
    BY <1>3, <2>2 DEF CompleteOrphan
  <2>3. CASE ~Acquire(c) /\ ~CompleteOrphan(c)
    <3>1. \E q : Moves(c, q)
      BY <1>0, <1>4, <2>3, RequestMoves DEF ExecAdvance
    <3>. QED  BY <1>2, <3>1
  <2>. QED  BY <2>1, <2>2, <2>3
<1>5. ASSUME NEW c \in Caller,
             CancelReserved(c) \/ \E s \in {"admission", "bytes"} : CancelWaiting(c, s)
      PROVE  ExecInv'
  <2>1. CASE CancelReserved(c)
    <3>1. \E q : Moves(c, q)
      BY <1>0, <2>1, RequestMoves
    <3>. QED  BY <1>2, <3>1
  <2>2. ASSUME NEW s \in {"admission", "bytes"}, CancelWaiting(c, s) PROVE ExecInv'
    <3>1. \E q : Moves(c, q)
      BY <1>0, <2>2, AcquireMoves
    <3>. QED  BY <1>2, <3>1
  <2>. QED  BY <1>5, <2>1, <2>2
<1>6. CASE Shutdown
  BY <1>6, ShutdownKeeps
<1>7. CASE UNCHANGED execVars
  BY <1>3, <1>7 DEF execVars, requestVars
<1>. QED  BY <1>1, <1>4, <1>5, <1>6, <1>7 DEF ExecNext

\* The invariant: what is out of the semaphores and in the counters is what the
\* requests in flight have, and what shutdown read of them holds of the phases.
THEOREM ExecutionInvariant == ExecSpec => []ExecInv
BY ExecInitSound, ExecNextSound, PTL DEF ExecSpec

\* What the invariant says of the connection and of the capacity.
LEMMA InvariantSettles == ExecInv => RequestsSettle
<1> SUFFICES ASSUME ExecInv PROVE RequestsSettle
  OBVIOUS
<1>1. JobsFindConnection
  BY DEF ExecInv, DrainIsSound, Nobody, MayRun, JobsFindConnection
<1>2. ASSUME \A c \in Caller : execPhase[c] = "idle"
      PROVE  free = AllFree /\ queued = 0 /\ queuedBytes = 0 /\ executing = 0
  <2>1. \A s, P : "idle" \notin P => Taken(s, P) = {}
    BY <1>2 DEF Taken
  <2>2. Cardinality({}) = 0
    BY FS_EmptySet
  <2>3. \A P : "idle" \notin P => Requests(P) = 0 /\ BytesOf(P) = 0
    BY <2>1, <2>2 DEF Requests, BytesOf
  <2>4. \A P \in {HasAdmission, HasBytes, HasSlot, InQueue, HasQueuedBytes, HasExecuting} : "idle" \notin P
    BY DEF HasAdmission, HasBytes, HasQueuedBytes, HasSlot, HasExecuting, InQueue
  <2>5. /\ Requests(HasAdmission) = 0 /\ BytesOf(HasBytes) = 0 /\ Requests(HasSlot) = 0
        /\ Requests(InQueue) = 0 /\ BytesOf(HasQueuedBytes) = 0 /\ Requests(HasExecuting) = 0
    BY <2>3, <2>4
  <2>6. /\ free \in [Semaphores -> Nat]
        /\ free["admission"] \in Nat /\ free["bytes"] \in Nat /\ free["executing"] \in Nat
    BY DEF ExecInv, ExecTypeOK, Semaphores
  <2>7. /\ free["admission"] = MaxAdmitted /\ free["bytes"] = MaxBytes
        /\ free["executing"] = MaxExecuting
    BY <2>5, <2>6 DEF ExecInv, Accounted
  <2>8. free = AllFree
    BY <2>6, <2>7 DEF AllFree, Semaphores
  <2>. QED  BY <2>5, <2>8 DEF ExecInv, Accounted
<1>. QED  BY <1>1, <1>2 DEF RequestsSettle, CapacityReturns

\* A job that was taken over finds the connection open, and every way out of the
\* service gives back exactly what was taken.
THEOREM RequestsAreSettled == ExecSpec => []RequestsSettle
BY ExecutionInvariant, InvariantSettles, PTL

\* No request gives back what it did not have: the semaphores never hold more
\* than their limits and no unsigned counter wraps.
NothingIsOverdrawn ==
  /\ free["admission"] <= MaxAdmitted /\ free["bytes"] <= MaxBytes
  /\ free["executing"] <= MaxExecuting
  /\ queued >= 0 /\ queuedBytes >= 0 /\ executing >= 0

\* What is counted is a number of units, never below nought.
LEMMA InvariantBounds == ExecInv => NothingIsOverdrawn
<1> SUFFICES ASSUME ExecInv PROVE NothingIsOverdrawn
  OBVIOUS
<1>1. \A s, P : Cardinality(Taken(s, P)) \in Nat
  BY PairsFinite DEF Taken
<1>2. \A P : Requests(P) \in Nat /\ BytesOf(P) \in Nat
  BY <1>1 DEF Requests, BytesOf
<1>3. free["admission"] \in Nat /\ free["bytes"] \in Nat /\ free["executing"] \in Nat
  BY DEF ExecInv, ExecTypeOK, Semaphores
<1>. QED  BY <1>2, <1>3, ExecutionAssumption DEF ExecInv, Accounted, NothingIsOverdrawn

\* Whatever is cancelled, refused or rejected, permits and counters stay within
\* their limits.
THEOREM CapacityIsKept == ExecSpec => []NothingIsOverdrawn
BY ExecutionInvariant, InvariantBounds, PTL
=============================================================================
