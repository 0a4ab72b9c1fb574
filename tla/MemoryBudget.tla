---------------------------- MODULE MemoryBudget ----------------------------
(***************************************************************************)
(* The byte budget M that every save takes before its first large copy.    *)
(* A producer enrols with the Notify, looks at the budget under the lock,  *)
(* and is admitted, refused, or parked with a place in the waiting set.    *)
(* Notify stores no permit: a notification reaches only the producers that *)
(* are enrolled when it is sent.                                           *)
(***************************************************************************)
EXTENDS Naturals, FiniteSets

CONSTANTS
  Producer,  \* tasks that save
  Capacity,  \* MemoryBudget.capacity
  Sizes      \* the byte counts producers ask for

ASSUME BudgetAssumption ==
  /\ IsFiniteSet(Producer)
  /\ Capacity \in Nat
  /\ Sizes \subseteq Nat

VARIABLES
  phase,     \* where each producer is in acquire, or what it holds
  want,      \* the bytes it asked for
  signalled, \* its enrolled Notified future has been notified
  held,      \* BudgetState.held
  waiting    \* BudgetState.waiting

vars == <<phase, want, signalled, held, waiting>>

Phase == {"idle", "start", "enrolled", "parked", "holding", "releasing"}

\* saturating_sub: the code subtracts without checking that it may.
Minus(a, b) == IF b <= a THEN a - b ELSE 0
\* (mutant) admits as long as anything is left.
FitsBeforeAdding(n) == held < Capacity
Fits(n) == held + n <= Capacity

Goto(p, ph) == phase' = [phase EXCEPT ![p] = ph]

---------------------------------------------------------------------------
\* acquire.  A request past the whole budget is refused at once (Limit).
Begin(p, n) ==
  /\ phase[p] = "idle" /\ n <= Capacity
  /\ want' = [want EXCEPT ![p] = n]
  /\ Goto(p, "start")
  /\ UNCHANGED <<signalled, held, waiting>>

\* try_acquire, for a caller that holds a room's state: now or never.
TryAcquire(p, n) ==
  /\ phase[p] = "idle" /\ n <= Capacity
  /\ Fits(n)
  /\ want' = [want EXCEPT ![p] = n]
  /\ held' = held + n
  /\ Goto(p, "holding")
  /\ UNCHANGED <<signalled, waiting>>

\* notified() and enable(), before the budget is inspected.
Enrol(p) ==
  /\ phase[p] = "start"
  /\ Goto(p, "enrolled")
  /\ signalled' = [signalled EXCEPT ![p] = FALSE]
  /\ UNCHANGED <<want, held, waiting>>

Admit(p) ==
  /\ phase[p] = "enrolled" /\ Fits(want[p])
  /\ held' = held + want[p]
  /\ Goto(p, "holding")
  /\ UNCHANGED <<want, signalled, waiting>>

\* Busy: the waiting set would itself outgrow the budget.
RefuseBusy(p) ==
  /\ phase[p] = "enrolled" /\ ~Fits(want[p])
  /\ waiting + want[p] > Capacity
  /\ Goto(p, "idle")
  /\ UNCHANGED <<want, signalled, held, waiting>>

Park(p) ==
  /\ phase[p] = "enrolled" /\ ~Fits(want[p])
  /\ waiting + want[p] <= Capacity
  /\ waiting' = waiting + want[p]
  /\ Goto(p, "parked")
  /\ UNCHANGED <<want, signalled, held>>

\* notified.await returns: the ticket is dropped and the loop starts over.
Wake(p) ==
  /\ phase[p] = "parked" /\ signalled[p]
  /\ waiting' = Minus(waiting, want[p])
  /\ Goto(p, "start")
  /\ UNCHANGED <<want, signalled, held>>

\* (mutant) the place in the waiting set is not owned by the future.
CancelKeepingTicket(p) ==
  /\ phase[p] \in {"start", "enrolled", "parked"}
  /\ Goto(p, "idle")
  /\ UNCHANGED <<want, signalled, held, waiting>>

\* The future is dropped; a parked one gives its place back.
Cancel(p) ==
  /\ phase[p] \in {"start", "enrolled", "parked"}
  /\ waiting' = IF phase[p] = "parked" THEN Minus(waiting, want[p]) ELSE waiting
  /\ Goto(p, "idle")
  /\ UNCHANGED <<want, signalled, held>>

\* MemoryPermit::drop gives the bytes back under the lock ...
Release(p) ==
  /\ phase[p] = "holding"
  /\ held' = Minus(held, want[p])
  /\ Goto(p, "releasing")
  /\ UNCHANGED <<want, signalled, waiting>>

\* (mutant) notify_one instead of notify_waiters.
NotifyOne(p) ==
  /\ phase[p] = "releasing"
  /\ Goto(p, "idle")
  /\ \E q \in Producer :
       signalled' = [signalled EXCEPT ![q] = @ \/ phase[q] \in {"enrolled", "parked"}]
  /\ UNCHANGED <<want, held, waiting>>

\* ... and notifies after unlocking: whoever is enrolled by then.
NotifyWaiters(p) ==
  /\ phase[p] = "releasing"
  /\ Goto(p, "idle")
  /\ signalled' = [q \in Producer |-> signalled[q] \/ phase[q] \in {"enrolled", "parked"}]
  /\ UNCHANGED <<want, held, waiting>>

---------------------------------------------------------------------------
Init ==
  /\ phase = [p \in Producer |-> "idle"]
  /\ want = [p \in Producer |-> 0]
  /\ signalled = [p \in Producer |-> FALSE]
  /\ held = 0 /\ waiting = 0

Advance(p) == Enrol(p) \/ Admit(p) \/ RefuseBusy(p) \/ Park(p) \/ Wake(p)

Next == \E p \in Producer :
  \/ \E n \in Sizes : Begin(p, n) \/ TryAcquire(p, n)
  \/ Advance(p) \/ Cancel(p) \/ Release(p) \/ NotifyWaiters(p)

Spec == Init /\ [][Next]_vars

\* A save ends, an unwound permit notifies, and a woken task is scheduled.
FairSpec == /\ Spec
            /\ \A p \in Producer : WF_vars(Advance(p)) /\ WF_vars(Release(p))
                                     /\ WF_vars(NotifyWaiters(p))

---------------------------------------------------------------------------
\* A byte of the budget belongs to a permit, a byte of the waiting allowance to
\* a ticket: what a producer in phase ph owns.
Owned(ph) == {u \in Producer \X (1 .. Capacity) : phase[u[1]] = ph /\ u[2] <= want[u[1]]}

TypeOK ==
  /\ phase \in [Producer -> Phase]
  /\ want \in [Producer -> Nat]
  /\ signalled \in [Producer -> BOOLEAN]
  /\ held \in Nat /\ waiting \in Nat

\* held is exactly what the live permits own, and never past the budget: no
\* cancelled, refused or finished save leaves bytes charged, none is charged twice.
HeldIsOwned == held = Cardinality(Owned("holding")) /\ held <= Capacity

\* waiting is exactly what the parked producers would hold, so the bound on it
\* refuses a producer only while others really wait.
WaitingIsParked == waiting = Cardinality(Owned("parked")) /\ waiting <= Capacity

\* No lost wakeup: a producer sleeps un-notified only while the budget has no
\* room for it, or while the release that made room has yet to notify.
NoLostWakeup ==
  \A p \in Producer : phase[p] = "parked" /\ ~signalled[p] =>
    ~Fits(want[p]) \/ \E q \in Producer : phase[q] = "releasing"

\* A parked producer leaves the waiting set: to hold its bytes, or to look again.
ParkedIsWoken == \A p \in Producer : phase[p] = "parked" ~> phase[p] # "parked"
=============================================================================
