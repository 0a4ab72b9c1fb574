--------------------------- MODULE RoomGatesProofs ---------------------------
(***************************************************************************)
(* No circle of waits among the operations of a room, and no edit under    *)
(* another's base or in another's save, for any number of tasks, requests  *)
(* and callers that hang up, and for the step lists of every operation as  *)
(* they stand.  The argument has two parts.  A discipline on lists of      *)
(* steps: a list is run in a context, what is open when it starts, and     *)
(* every step must be allowed by what is open before it.  That every list  *)
(* of the room keeps the discipline is shown piece by piece, as the lists  *)
(* are put together; that tasks that keep it never form a circle is an     *)
(* invariant of the steps.                                                 *)
(*                                                                         *)
(* And no render twice: the jobs of the companion, which wait for one      *)
(* worker as the operations of a room wait for its gates.  And no effect   *)
(* unknown: what the assistant's tool calls did, its runner learns.        *)
(***************************************************************************)
EXTENDS RoomGates, CompanionJobs, ToolReceipts, FiniteSetTheorems, SequenceTheorems,
        WellFoundedInduction, TLAPS

Step == [do : {"take", "share", "give", "base", "edit", "try", "snap", "settle"},
         gate : Gates \cup {"none"}]

\* Steps that open something, and the steps that close what x has opened.
Holds(x) == x.do \in {"take", "share"}
Opens(s) == s.do \in {"take", "share", "base", "try"}
Closes(s, x) ==
  \/ s.do = "give" /\ Holds(x) /\ x.gate = s.gate
  \/ s.do = "settle" /\ x.do \in {"base", "try"}
After(s, C) == {x \in C : ~Closes(s, x)} \cup {x \in {s} : Opens(x)}

\* What is open after k steps of L that began with C open.
OpenAt(L, k, C) ==
  {x \in C : \A j \in 1 .. k : ~Closes(L[j], x)}
  \cup {x \in Step : \E i \in 1 .. k : /\ x = L[i] /\ Opens(x)
                                      /\ \A j \in i + 1 .. k : ~Closes(L[j], x)}

Taken(g) == [do |-> "take", gate |-> g]
BaseStep == [do |-> "base", gate |-> "none"]
TryStep == [do |-> "try", gate |-> "none"]

\* What may come next with C open: a gate only after the gates it may be asked
\* for under, an edit that may be taken back only behind the checkpoints' gate, a
\* base only behind the restores', and a capture only where checkpoints pass.
Allowed(s, C, Order) ==
  /\ s.do \in {"take", "share", "give"} => s.gate \in Gates
  /\ Holds(s) => \A x \in C : Holds(x) => <<x.gate, s.gate>> \in Order
  /\ s.do = "try" => s = TryStep /\ Taken("publication_checkpoint") \in C
  /\ s.do = "base" => s = BaseStep /\ Taken("restore") \in C
  /\ s.do = "snap" => \E x \in C : Holds(x) /\ x.gate = "publication_checkpoint"
  /\ s.do = "give" => /\ s.gate = "publication_checkpoint" => TryStep \notin C
                      /\ s.gate = "restore" => BaseStep \notin C
Disciplined(L, C, Order) ==
  \A k \in 1 .. Len(L) : Allowed(L[k], OpenAt(L, k - 1, C), Order)

\* L runs from what is open in C to what is open in D.
Runs(L, C, D, Order) ==
  /\ L \in Seq(Step) /\ C \subseteq Step
  /\ Disciplined(L, C, Order) /\ OpenAt(L, Len(L), C) = D

---------------------------------------------------------------------------
(* Lists of steps. *)

\* Before the first step of a list, what was open is open.
LEMMA NothingRun ==
  ASSUME NEW L, NEW C
  PROVE  OpenAt(L, 0, C) = C
BY DEF OpenAt

\* One step changes what is open as After says.
LEMMA OneRun ==
  ASSUME NEW L \in Seq(Step), L # <<>>, NEW C
  PROVE  OpenAt(L, 1, C) = After(L[1], C)
<1>1. L[1] \in Step
  BY ElementOfSeq, EmptySeq
<1>2. ASSUME NEW x PROVE x \in OpenAt(L, 1, C) <=> x \in After(L[1], C)
  BY <1>1 DEF OpenAt, After
<1> QED BY <1>2

\* Running the rest of a list after its first step is running the list.
LEMMA RestRuns ==
  ASSUME NEW L \in Seq(Step), L # <<>>, NEW C, NEW k \in 0 .. Len(L) - 1
  PROVE  OpenAt(Tail(L), k, After(L[1], C)) = OpenAt(L, k + 1, C)
<1> DEFINE D == After(L[1], C)
<1>1. /\ L[1] \in Step /\ Tail(L) \in Seq(Step) /\ Len(Tail(L)) = Len(L) - 1 /\ Len(L) \in Nat
      /\ \A i \in 1 .. Len(L) - 1 : Tail(L)[i] = L[i + 1]
  BY ElementOfSeq, EmptySeq, HeadTailProperties
<1>2. ASSUME NEW x, x \in OpenAt(Tail(L), k, D) PROVE x \in OpenAt(L, k + 1, C)
  <2>1. CASE x \in D /\ \A j \in 1 .. k : ~Closes(Tail(L)[j], x)
    <3>1. \A j \in 2 .. k + 1 : ~Closes(L[j], x)
      <4>1. ASSUME NEW j \in 2 .. k + 1 PROVE ~Closes(L[j], x)
        <5>1. j - 1 \in 1 .. k /\ Tail(L)[j - 1] = L[j]
          BY <1>1
        <5> QED BY <2>1, <5>1
      <4> QED BY <4>1
    <3>2. CASE x \in C /\ ~Closes(L[1], x)
      BY <3>1, <3>2 DEF OpenAt
    <3>3. CASE x = L[1] /\ Opens(x)
      <4>1. 1 \in 1 .. k + 1 /\ \A j \in 1 + 1 .. k + 1 : ~Closes(L[j], x)
        BY <3>1
      <4> QED BY <1>1, <3>3, <4>1 DEF OpenAt
    <3> QED BY <2>1, <3>2, <3>3 DEF After
  <2>2. ASSUME NEW i \in 1 .. k, x \in Step, x = Tail(L)[i], Opens(x), \A j \in i + 1 .. k : ~Closes(Tail(L)[j], x)
        PROVE  x \in OpenAt(L, k + 1, C)
    <3>1. i + 1 \in 1 .. k + 1 /\ x = L[i + 1]
      BY <1>1, <2>2
    <3>2. \A j \in (i + 1) + 1 .. k + 1 : ~Closes(L[j], x)
      <4>1. ASSUME NEW j \in (i + 1) + 1 .. k + 1 PROVE ~Closes(L[j], x)
        <5>1. j - 1 \in i + 1 .. k /\ Tail(L)[j - 1] = L[j]
          BY <1>1
        <5> QED BY <2>2, <5>1
      <4> QED BY <4>1
    <3> QED BY <2>2, <3>1, <3>2 DEF OpenAt
  <2> QED BY <1>2, <2>1, <2>2 DEF OpenAt
<1>3. ASSUME NEW x, x \in OpenAt(L, k + 1, C) PROVE x \in OpenAt(Tail(L), k, D)
  <2>1. CASE x \in C /\ \A j \in 1 .. k + 1 : ~Closes(L[j], x)
    <3>1. x \in D
      BY <2>1 DEF After
    <3>2. \A j \in 1 .. k : ~Closes(Tail(L)[j], x)
      BY <1>1, <2>1
    <3> QED BY <3>1, <3>2 DEF OpenAt
  <2>2. ASSUME NEW i \in 1 .. k + 1, x \in Step, x = L[i], Opens(x), \A j \in i + 1 .. k + 1 : ~Closes(L[j], x)
        PROVE  x \in OpenAt(Tail(L), k, D)
    <3>1. CASE i = 1
      <4>1. x \in D
        BY <2>2, <3>1 DEF After
      <4>2. \A j \in 1 .. k : ~Closes(Tail(L)[j], x)
        BY <1>1, <2>2, <3>1
      <4> QED BY <4>1, <4>2 DEF OpenAt
    <3>2. CASE i # 1
      <4>1. i - 1 \in 1 .. k /\ x = Tail(L)[i - 1]
        BY <1>1, <2>2, <3>2
      <4>2. \A j \in (i - 1) + 1 .. k : ~Closes(Tail(L)[j], x)
        BY <1>1, <2>2, <3>2
      <4> QED BY <2>2, <4>1, <4>2 DEF OpenAt
    <3> QED BY <3>1, <3>2
  <2> QED BY <1>3, <2>1, <2>2 DEF OpenAt
<1> QED BY <1>2, <1>3

\* A list that keeps the discipline starts with an allowed step, and its rest
\* keeps the discipline with what is open after that step.
LEMMA RestIsDisciplined ==
  ASSUME NEW L \in Seq(Step), L # <<>>, NEW C, NEW Order, Disciplined(L, C, Order)
  PROVE  /\ Allowed(L[1], C, Order)
         /\ Disciplined(Tail(L), After(L[1], C), Order)
<1>1. /\ Tail(L) \in Seq(Step) /\ Len(Tail(L)) = Len(L) - 1 /\ Len(L) \in Nat /\ 1 \in 1 .. Len(L)
      /\ \A i \in 1 .. Len(L) - 1 : Tail(L)[i] = L[i + 1]
  BY EmptySeq, HeadTailProperties
<1>2. OpenAt(L, 1 - 1, C) = C
  BY NothingRun
<1>3. Allowed(L[1], C, Order)
  BY <1>1, <1>2 DEF Disciplined
<1>4. ASSUME NEW k \in 1 .. Len(Tail(L))
      PROVE  Allowed(Tail(L)[k], OpenAt(Tail(L), k - 1, After(L[1], C)), Order)
  <2>1. k - 1 \in 0 .. Len(L) - 1 /\ k + 1 \in 1 .. Len(L) /\ Tail(L)[k] = L[k + 1]
    BY <1>1
  <2>2. OpenAt(Tail(L), k - 1, After(L[1], C)) = OpenAt(L, (k - 1) + 1, C)
    BY <2>1, RestRuns
  <2>3. (k - 1) + 1 = (k + 1) - 1
    BY <1>1
  <2>4. Allowed(L[k + 1], OpenAt(L, (k + 1) - 1, C), Order)
    BY <2>1 DEF Disciplined
  <2> QED BY <2>1, <2>2, <2>3, <2>4
<1> QED BY <1>3, <1>4 DEF Disciplined

\* Two lists one after the other: the first is not disturbed by what follows.
LEMMA FirstOfTwo ==
  ASSUME NEW L \in Seq(Step), NEW M \in Seq(Step), NEW C, NEW k \in 0 .. Len(L)
  PROVE  OpenAt(L \o M, k, C) = OpenAt(L, k, C)
<1>1. \A i \in 1 .. k : (L \o M)[i] = L[i]
  BY ConcatProperties, LenProperties
<1> QED BY <1>1 DEF OpenAt

\* The second starts from what the first has left open.
LEMMA SecondOfTwo ==
  ASSUME NEW L \in Seq(Step), NEW M \in Seq(Step), NEW C, NEW k \in 0 .. Len(M)
  PROVE  OpenAt(L \o M, Len(L) + k, C) = OpenAt(M, k, OpenAt(L, Len(L), C))
<1> DEFINE N == L \o M
           n == Len(L)
           D == OpenAt(L, n, C)
<1>1. n \in Nat /\ Len(M) \in Nat
  BY LenProperties
<1>2. /\ \A i \in 1 .. n : N[i] = L[i]
      /\ \A i \in 1 .. k : N[n + i] = M[i]
  BY <1>1, ConcatProperties
<1>3. \A j \in n + 1 .. n + k : j - n \in 1 .. k /\ M[j - n] = N[j]
  BY <1>1, <1>2
<1> HIDE DEF N, n
<1>4. ASSUME NEW x, x \in OpenAt(M, k, D) PROVE x \in OpenAt(N, n + k, C)
  <2>1. CASE x \in D /\ \A j \in 1 .. k : ~Closes(M[j], x)
    <3>1. \A j \in n + 1 .. n + k : ~Closes(N[j], x)
      BY <2>1, <1>3
    <3>2. CASE x \in C /\ \A j \in 1 .. n : ~Closes(L[j], x)
      <4>1. \A j \in 1 .. n + k : ~Closes(N[j], x)
        BY <1>1, <1>2, <3>1, <3>2
      <4> QED BY <3>2, <4>1 DEF OpenAt
    <3>3. ASSUME NEW i \in 1 .. n, x \in Step, x = L[i], Opens(x), \A j \in i + 1 .. n : ~Closes(L[j], x)
          PROVE  x \in OpenAt(N, n + k, C)
      <4>1. i \in 1 .. n + k /\ x = N[i]
        BY <1>1, <1>2, <3>3
      <4>2. \A j \in i + 1 .. n + k : ~Closes(N[j], x)
        BY <1>1, <1>2, <3>1, <3>3
      <4> QED BY <3>3, <4>1, <4>2 DEF OpenAt
    <3> QED BY <2>1, <3>2, <3>3 DEF D, OpenAt
  <2>2. ASSUME NEW i \in 1 .. k, x \in Step, x = M[i], Opens(x), \A j \in i + 1 .. k : ~Closes(M[j], x)
        PROVE  x \in OpenAt(N, n + k, C)
    <3>1. n + i \in 1 .. n + k /\ x = N[n + i]
      BY <1>1, <1>2, <2>2
    <3>2. \A j \in (n + i) + 1 .. n + k : ~Closes(N[j], x)
      BY <1>1, <1>3, <2>2
    <3> QED BY <2>2, <3>1, <3>2 DEF OpenAt
  <2> QED BY <1>4, <2>1, <2>2 DEF OpenAt
<1>5. ASSUME NEW x, x \in OpenAt(N, n + k, C) PROVE x \in OpenAt(M, k, D)
  <2>1. CASE x \in C /\ \A j \in 1 .. n + k : ~Closes(N[j], x)
    <3>1. \A j \in 1 .. n : ~Closes(L[j], x)
      BY <1>1, <1>2, <2>1
    <3>2. \A j \in 1 .. k : ~Closes(M[j], x)
      BY <1>1, <1>2, <2>1
    <3> QED BY <2>1, <3>1, <3>2 DEF D, OpenAt
  <2>2. ASSUME NEW i \in 1 .. n + k, x \in Step, x = N[i], Opens(x), \A j \in i + 1 .. n + k : ~Closes(N[j], x)
        PROVE  x \in OpenAt(M, k, D)
    <3>1. CASE i <= n
      <4>1. i \in 1 .. n /\ x = L[i]
        BY <1>1, <1>2, <2>2, <3>1
      <4>2. \A j \in i + 1 .. n : ~Closes(L[j], x)
        BY <1>1, <1>2, <2>2, <3>1
      <4>3. \A j \in 1 .. k : ~Closes(M[j], x)
        BY <1>1, <1>2, <2>2, <3>1
      <4> QED BY <2>2, <4>1, <4>2, <4>3 DEF D, OpenAt
    <3>2. CASE i > n
      <4>1. i - n \in 1 .. k /\ x = M[i - n]
        BY <1>1, <1>3, <2>2, <3>2
      <4>2. \A j \in (i - n) + 1 .. k : ~Closes(M[j], x)
        BY <1>1, <1>2, <2>2, <3>2
      <4> QED BY <2>2, <4>1, <4>2 DEF OpenAt
    <3> QED BY <1>1, <3>1, <3>2
  <2> QED BY <1>5, <2>1, <2>2 DEF OpenAt
<1> QED BY <1>4, <1>5 DEF N, n

\* Lists that run one from where the other ends run together.
LEMMA Joined ==
  ASSUME NEW L, NEW M, NEW C, NEW D, NEW E, NEW Order,
         Runs(L, C, D, Order), Runs(M, D, E, Order)
  PROVE  Runs(L \o M, C, E, Order)
<1> DEFINE N == L \o M
<1>1. /\ L \in Seq(Step) /\ M \in Seq(Step) /\ N \in Seq(Step) /\ Len(N) = Len(L) + Len(M)
      /\ Len(L) \in Nat /\ Len(M) \in Nat /\ D = OpenAt(L, Len(L), C)
      /\ \A i \in 1 .. Len(L) + Len(M) : N[i] = IF i <= Len(L) THEN L[i] ELSE M[i - Len(L)]
  BY ConcatProperties, LenProperties DEF Runs
<1>2. ASSUME NEW k \in 1 .. Len(N) PROVE Allowed(N[k], OpenAt(N, k - 1, C), Order)
  <2>1. CASE k <= Len(L)
    <3>1. k \in 1 .. Len(L) /\ k - 1 \in 0 .. Len(L) /\ N[k] = L[k]
      BY <1>1, <2>1
    <3>2. OpenAt(N, k - 1, C) = OpenAt(L, k - 1, C)
      BY <1>1, <3>1, FirstOfTwo
    <3> QED BY <3>1, <3>2 DEF Runs, Disciplined
  <2>2. CASE k > Len(L)
    <3> DEFINE i == k - Len(L)
    <3>1. i \in 1 .. Len(M) /\ i - 1 \in 0 .. Len(M) /\ N[k] = M[i] /\ Len(L) + (i - 1) = k - 1
      BY <1>1, <2>2
    <3>2. OpenAt(N, Len(L) + (i - 1), C) = OpenAt(M, i - 1, D)
      BY <1>1, <3>1, SecondOfTwo
    <3>3. OpenAt(N, k - 1, C) = OpenAt(M, i - 1, D)
      BY <3>1, <3>2
    <3> QED BY <3>1, <3>3 DEF Runs, Disciplined
  <2> QED BY <1>1, <2>1, <2>2
<1>3. OpenAt(N, Len(N), C) = E
  <2>1. Len(M) \in 0 .. Len(M)
    BY <1>1
  <2> QED BY <1>1, <2>1, SecondOfTwo DEF Runs
<1> QED BY <1>1, <1>2, <1>3 DEF Runs, Disciplined

\* One step that is allowed runs to what is open after it.
LEMMA Single ==
  ASSUME NEW s \in Step, NEW C \in SUBSET Step, NEW Order, Allowed(s, C, Order)
  PROVE  Runs(<<s>>, C, After(s, C), Order)
<1> DEFINE L == <<s>>
<1>1. L \in Seq(Step) /\ L # <<>> /\ Len(L) = 1 /\ L[1] = s
  OBVIOUS
<1>2. OpenAt(L, 1, C) = After(s, C)
  BY <1>1, OneRun
<1>3. Disciplined(L, C, Order)
  <2>1. \A k \in 1 .. Len(L) : k = 1 /\ OpenAt(L, k - 1, C) = C
    BY <1>1, NothingRun
  <2> QED BY <1>1, <2>1 DEF Disciplined
<1> QED BY <1>1, <1>2, <1>3 DEF Runs

---------------------------------------------------------------------------
(* Contexts: the gates held, the gates shared, and the windows open. *)

Shared(g) == [do |-> "share", gate |-> g]
Context(H, S, W) == {Taken(g) : g \in H} \cup {Shared(g) : g \in S} \cup W
Windows == {BaseStep, TryStep}

\* L leads from a context to another; L keeps a context.
Leads(L, H, S, W, I, T, V, Order) == Runs(L, Context(H, S, W), Context(I, T, V), Order)
Keeps(L, H, S, W, Order) == Leads(L, H, S, W, H, S, W, Order)
IsContext(H, S, W) == H \subseteq Gates /\ S \subseteq Gates /\ W \subseteq Windows
Below(H, g, Order) == \A h \in H : <<h, g>> \in Order

\* What a context has open.
LEMMA InContext ==
  ASSUME NEW H, NEW S, NEW W, IsContext(H, S, W)
  PROVE  /\ Context(H, S, W) \in SUBSET Step
         /\ \A x \in Context(H, S, W) : Holds(x) => x.gate \in H \cup S
         /\ \A x \in Context(H, S, W) : Holds(x) => x = Taken(x.gate) \/ x = Shared(x.gate)
         /\ \A g : Taken(g) \in Context(H, S, W) <=> g \in H
         /\ \A g : Shared(g) \in Context(H, S, W) <=> g \in S
         /\ \A x \in Windows : x \in Context(H, S, W) <=> x \in W
         /\ \A x \in W : ~Holds(x)
<1> DEFINE C == Context(H, S, W)
<1>1. \A g \in Gates : Taken(g) \in Step /\ Shared(g) \in Step
  BY DEF Taken, Shared, Step
<1>2. BaseStep \in Step /\ TryStep \in Step
  BY DEF BaseStep, TryStep, Step
<1>3. \A g : /\ Taken(g).do = "take" /\ Taken(g).gate = g
             /\ Shared(g).do = "share" /\ Shared(g).gate = g
  BY DEF Taken, Shared
<1>4. \A x \in Windows : x.do \in {"base", "try"}
  BY DEF Windows, BaseStep, TryStep
<1>5. C \in SUBSET Step
  BY <1>1, <1>2 DEF Context, Windows, IsContext
<1>6. \A x \in C : Holds(x) => /\ x.gate \in H \cup S
                               /\ x = Taken(x.gate) \/ x = Shared(x.gate)
  BY <1>3, <1>4 DEF Context, Holds, IsContext
<1>7. \A g : Taken(g) \in C <=> g \in H
  BY <1>3, <1>4 DEF Context, IsContext
<1>8. \A g : Shared(g) \in C <=> g \in S
  BY <1>3, <1>4 DEF Context, IsContext
<1>9. \A x \in Windows : x \in C <=> x \in W
  BY <1>3, <1>4 DEF Context, IsContext
<1>10. \A x \in W : ~Holds(x)
  BY <1>4 DEF IsContext, Holds
<1> QED BY <1>5, <1>6, <1>7, <1>8, <1>9, <1>10

\* A gate is taken above every gate held.
LEMMA TakeLeads ==
  ASSUME NEW H, NEW S, NEW W, IsContext(H, S, W), NEW g \in Gates, NEW Order,
         Below(H \cup S, g, Order)
  PROVE  Leads(HoldGate(g), H, S, W, H \cup {g}, S, W, Order)
<1> DEFINE C == Context(H, S, W)
           s == Taken(g)
<1>1. s \in Step /\ s.do = "take" /\ s.gate = g
  BY DEF Taken, Step
<1>2. Allowed(s, C, Order)
  BY <1>1, InContext DEF Allowed, Holds, Below
<1>3. After(s, C) = Context(H \cup {g}, S, W)
  <2>1. After(s, C) = C \cup {s}
    BY <1>1 DEF After, Closes, Opens
  <2> QED BY <2>1 DEF Context
<1>4. C \in SUBSET Step
  BY InContext
<1>5. Runs(<<s>>, C, After(s, C), Order)
  BY <1>1, <1>2, <1>4, Single
<1> QED BY <1>3, <1>5 DEF Leads, HoldGate, Taken

\* The same for a gate that is shared.
LEMMA ShareLeads ==
  ASSUME NEW H, NEW S, NEW W, IsContext(H, S, W), NEW g \in Gates, NEW Order,
         Below(H \cup S, g, Order)
  PROVE  Leads(Share(g), H, S, W, H, S \cup {g}, W, Order)
<1> DEFINE C == Context(H, S, W)
           s == Shared(g)
<1>1. s \in Step /\ s.do = "share" /\ s.gate = g
  BY DEF Shared, Step
<1>2. Allowed(s, C, Order)
  BY <1>1, InContext DEF Allowed, Holds, Below
<1>3. After(s, C) = Context(H, S \cup {g}, W)
  <2>1. After(s, C) = C \cup {s}
    BY <1>1 DEF After, Closes, Opens
  <2> QED BY <2>1 DEF Context
<1>4. C \in SUBSET Step
  BY InContext
<1>5. Runs(<<s>>, C, After(s, C), Order)
  BY <1>1, <1>2, <1>4, Single
<1> QED BY <1>3, <1>5 DEF Leads, Share, Shared

\* A gate is given back that no open window needs.
LEMMA GiveLeads ==
  ASSUME NEW H, NEW S, NEW W, IsContext(H, S, W), NEW g \in Gates, NEW Order,
         g = "publication_checkpoint" => TryStep \notin W,
         g = "restore" => BaseStep \notin W
  PROVE  Leads(Give(g), H, S, W, H \ {g}, S \ {g}, W, Order)
<1> DEFINE C == Context(H, S, W)
           s == [do |-> "give", gate |-> g]
<1>1. s \in Step /\ s.do = "give" /\ s.gate = g
  BY DEF Step
<1>2. TryStep \in Windows /\ BaseStep \in Windows
  BY DEF Windows
<1>3. Allowed(s, C, Order)
  BY <1>1, <1>2, InContext DEF Allowed, Holds
<1>4. After(s, C) = {x \in C : ~(Holds(x) /\ x.gate = g)}
  BY <1>1 DEF After, Closes, Opens
<1>5. IsContext(H \ {g}, S \ {g}, W)
  BY DEF IsContext
<1>6. \A h : Taken(h).gate = h /\ Shared(h).gate = h /\ Holds(Taken(h)) /\ Holds(Shared(h))
  BY DEF Taken, Shared, Holds
<1>7. \A x \in W : ~Holds(x)
  BY InContext
<1>8. After(s, C) = Context(H \ {g}, S \ {g}, W)
  BY <1>4, <1>6, <1>7 DEF Context
<1>9. C \in SUBSET Step
  BY InContext
<1>10. Runs(<<s>>, C, After(s, C), Order)
  BY <1>1, <1>3, <1>9, Single
<1> QED BY <1>8, <1>10 DEF Leads, Give

\* A step of the work on the document takes no gate and gives none back.
LEMMA WorkRuns ==
  ASSUME NEW H, NEW S, NEW W, IsContext(H, S, W), NEW Order,
         NEW s \in Step, s.do \in {"base", "edit", "try", "snap", "settle"},
         Allowed(s, Context(H, S, W), Order)
  PROVE  Runs(<<s>>, Context(H, S, W), After(s, Context(H, S, W)), Order)
<1>1. Context(H, S, W) \in SUBSET Step
  BY InContext
<1> QED BY <1>1, Single

\* An edit that stands.
LEMMA EditKeeps ==
  ASSUME NEW H, NEW S, NEW W, IsContext(H, S, W), NEW Order
  PROVE  Keeps(GateEdit, H, S, W, Order)
<1> DEFINE C == Context(H, S, W)
           s == [do |-> "edit", gate |-> "none"]
<1>1. s \in Step /\ s.do = "edit"
  BY DEF Step
<1>2. Allowed(s, C, Order)
  BY <1>1 DEF Allowed, Holds
<1>3. After(s, C) = C
  BY <1>1 DEF After, Closes, Opens
<1>4. Runs(<<s>>, C, After(s, C), Order)
  BY <1>1, <1>2, WorkRuns
<1> QED BY <1>3, <1>4 DEF Keeps, Leads, GateEdit

\* A capture where checkpoints pass.
LEMMA SnapKeeps ==
  ASSUME NEW H, NEW S, NEW W, IsContext(H, S, W), NEW Order,
         "publication_checkpoint" \in H \cup S
  PROVE  Keeps(Snap, H, S, W, Order)
<1> DEFINE C == Context(H, S, W)
           s == [do |-> "snap", gate |-> "none"]
           pc == "publication_checkpoint"
<1>1. s \in Step /\ s.do = "snap"
  BY DEF Step
<1>2. \E x \in C : Holds(x) /\ x.gate = pc
  <2>1. Holds(Taken(pc)) /\ Taken(pc).gate = pc /\ Holds(Shared(pc)) /\ Shared(pc).gate = pc
    BY DEF Holds, Taken, Shared
  <2>2. Taken(pc) \in C \/ Shared(pc) \in C
    BY InContext
  <2> QED BY <2>1, <2>2
<1>3. Allowed(s, C, Order)
  BY <1>1, <1>2 DEF Allowed, Holds
<1>4. After(s, C) = C
  BY <1>1 DEF After, Closes, Opens
<1>5. Runs(<<s>>, C, After(s, C), Order)
  BY <1>1, <1>3, WorkRuns
<1> QED BY <1>4, <1>5 DEF Keeps, Leads, Snap

\* A base behind the restores' gate.
LEMMA BaseLeads ==
  ASSUME NEW H, NEW S, NEW W, IsContext(H, S, W), NEW Order, "restore" \in H
  PROVE  Leads(Base, H, S, W, H, S, W \cup {BaseStep}, Order)
<1> DEFINE C == Context(H, S, W)
           s == BaseStep
<1>1. s \in Step /\ s.do = "base"
  BY DEF Step, BaseStep
<1>2. Allowed(s, C, Order)
  BY <1>1, InContext DEF Allowed, Holds
<1>3. After(s, C) = Context(H, S, W \cup {s})
  <2>1. After(s, C) = C \cup {s}
    BY <1>1 DEF After, Closes, Opens
  <2> QED BY <2>1 DEF Context
<1>4. Runs(<<s>>, C, After(s, C), Order)
  BY <1>1, <1>2, WorkRuns
<1> QED BY <1>3, <1>4 DEF Leads, Base, BaseStep

\* An edit that may be taken back, behind the checkpoints' gate.
LEMMA TryLeads ==
  ASSUME NEW H, NEW S, NEW W, IsContext(H, S, W), NEW Order,
         "publication_checkpoint" \in H
  PROVE  Leads(Tentative, H, S, W, H, S, W \cup {TryStep}, Order)
<1> DEFINE C == Context(H, S, W)
           s == TryStep
<1>1. s \in Step /\ s.do = "try"
  BY DEF Step, TryStep
<1>2. Allowed(s, C, Order)
  BY <1>1, InContext DEF Allowed, Holds
<1>3. After(s, C) = Context(H, S, W \cup {s})
  <2>1. After(s, C) = C \cup {s}
    BY <1>1 DEF After, Closes, Opens
  <2> QED BY <2>1 DEF Context
<1>4. Runs(<<s>>, C, After(s, C), Order)
  BY <1>1, <1>2, WorkRuns
<1> QED BY <1>3, <1>4 DEF Leads, Tentative, TryStep

\* The settlement closes both.
LEMMA SettleLeads ==
  ASSUME NEW H, NEW S, NEW W, IsContext(H, S, W), NEW Order
  PROVE  Leads(GateSettle, H, S, W, H, S, {}, Order)
<1> DEFINE C == Context(H, S, W)
           s == [do |-> "settle", gate |-> "none"]
<1>1. s \in Step /\ s.do = "settle"
  BY DEF Step
<1>2. Allowed(s, C, Order)
  BY <1>1 DEF Allowed, Holds
<1>3. After(s, C) = {x \in C : x.do \notin {"base", "try"}}
  BY <1>1 DEF After, Closes, Opens
<1>4. \A h : Taken(h).do = "take" /\ Shared(h).do = "share"
  BY DEF Taken, Shared
<1>5. \A x \in W : x.do \in {"base", "try"}
  BY DEF IsContext, Windows, BaseStep, TryStep
<1>6. After(s, C) = Context(H, S, {})
  BY <1>3, <1>4, <1>5 DEF Context
<1>7. Runs(<<s>>, C, After(s, C), Order)
  BY <1>1, <1>2, WorkRuns
<1> QED BY <1>6, <1>7 DEF Leads, GateSettle

\* Nothing to do.
LEMMA NothingKeeps ==
  ASSUME NEW H, NEW S, NEW W, IsContext(H, S, W), NEW Order
  PROVE  Keeps(<<>>, H, S, W, Order)
<1>1. Context(H, S, W) \in SUBSET Step
  BY InContext
<1>2. <<>> \in Seq(Step) /\ Len(<<>>) = 0
  BY EmptySeq
<1>3. OpenAt(<<>>, 0, Context(H, S, W)) = Context(H, S, W)
  BY NothingRun
<1>4. Disciplined(<<>>, Context(H, S, W), Order)
  BY <1>2 DEF Disciplined
<1> QED BY <1>1, <1>2, <1>3, <1>4 DEF Keeps, Leads, Runs

\* A scope leaves what it found, when its gate was not held before and no window
\* that needs the gate is open.
LEMMA WithinKeeps ==
  ASSUME NEW H, NEW S, NEW W, IsContext(H, S, W), NEW g \in Gates \ (H \cup S), NEW Order,
         Below(H \cup S, g, Order),
         g = "publication_checkpoint" => TryStep \notin W,
         g = "restore" => BaseStep \notin W,
         NEW L, Keeps(L, H \cup {g}, S, W, Order)
  PROVE  Keeps(Within(g, L), H, S, W, Order)
<1> DEFINE I == H \cup {g}
<1>1. Leads(HoldGate(g), H, S, W, I, S, W, Order)
  BY TakeLeads
<1>2. IsContext(I, S, W)
  BY DEF IsContext
<1>3. Leads(Give(g), I, S, W, I \ {g}, S \ {g}, W, Order)
  BY <1>2, GiveLeads
<1>4. I \ {g} = H /\ S \ {g} = S
  OBVIOUS
<1>5. Leads(HoldGate(g) \o L, H, S, W, I, S, W, Order)
  BY <1>1, Joined DEF Keeps, Leads
<1> QED BY <1>3, <1>4, <1>5, Joined DEF Within, Keeps, Leads

\* The same for a scope that shares its gate.
LEMMA SharedKeeps ==
  ASSUME NEW H, NEW S, NEW W, IsContext(H, S, W), NEW g \in Gates \ (H \cup S), NEW Order,
         Below(H \cup S, g, Order),
         g = "publication_checkpoint" => TryStep \notin W,
         g = "restore" => BaseStep \notin W,
         NEW L, Keeps(L, H, S \cup {g}, W, Order)
  PROVE  Keeps(Share(g) \o L \o Give(g), H, S, W, Order)
<1> DEFINE T == S \cup {g}
<1>1. Leads(Share(g), H, S, W, H, T, W, Order)
  BY ShareLeads
<1>2. IsContext(H, T, W)
  BY DEF IsContext
<1>3. Leads(Give(g), H, T, W, H \ {g}, T \ {g}, W, Order)
  BY <1>2, GiveLeads
<1>4. H \ {g} = H /\ T \ {g} = S
  OBVIOUS
<1>5. Leads(Share(g) \o L, H, S, W, H, T, W, Order)
  BY <1>1, Joined DEF Keeps, Leads
<1> QED BY <1>3, <1>4, <1>5, Joined DEF Keeps, Leads

---------------------------------------------------------------------------
(* The writers every operation goes through.  They know of the gates above *)
(* them only which layer they are of, so that the same proof serves both   *)
(* orders of the routes.                                                   *)

Routes == {"rendered", "restore", "comment", "publication"}
Layers ==
  (Routes \X {"publication_checkpoint", "checkpoint", "manifest", "assets", "session"})
  \cup ({"publication_checkpoint"} \X {"checkpoint", "manifest", "assets", "session"})
  \cup ({"checkpoint"} \X {"manifest", "assets", "session"})
  \cup ({"manifest"} \X {"assets", "session"})
Under(G, H, S, W) == IsContext(H, S, W) /\ H \cup S \subseteq G

\* Two lists that keep a context keep it together.
LEMMA BothKeep ==
  ASSUME NEW H, NEW S, NEW W, NEW Order, NEW L, NEW M,
         Keeps(L, H, S, W, Order), Keeps(M, H, S, W, Order)
  PROVE  Keeps(L \o M, H, S, W, Order)
BY Joined DEF Keeps, Leads

\* write_session_inner takes the session gate and captures.
LEMMA SessionKeeps ==
  ASSUME NEW H, NEW S, NEW W, NEW Order, Layers \subseteq Order,
         Under(Routes \cup {"publication_checkpoint", "checkpoint"}, H, S, W),
         "publication_checkpoint" \in H \cup S
  PROVE  Keeps(WriteSessionInner, H, S, W, Order)
<1> DEFINE g == "session"
<1>1. IsContext(H \cup {g}, S, W) /\ g \in Gates \ (H \cup S)
  BY DEF Under, IsContext, Gates, Routes
<1>2. Keeps(Snap, H \cup {g}, S, W, Order)
  BY <1>1, SnapKeeps
<1>3. Below(H \cup S, g, Order)
  BY DEF Below, Layers, Under, Routes
<1> QED BY <1>1, <1>2, <1>3, WithinKeeps DEF Under, WriteSessionInner

\* write_session lets it through between checkpoints.
LEMMA SaveKeeps ==
  ASSUME NEW H, NEW S, NEW W, NEW Order, Layers \subseteq Order,
         Under(Routes, H, S, W), TryStep \notin W
  PROVE  Keeps(GateWriteSession, H, S, W, Order)
<1> DEFINE g == "publication_checkpoint"
           T == S \cup {g}
<1>1. Under(Routes \cup {g, "checkpoint"}, H, T, W) /\ g \in Gates \ (H \cup S) /\ g \in H \cup T
  BY DEF Under, IsContext, Gates, Routes
<1>2. Keeps(WriteSessionInner, H, T, W, Order)
  BY <1>1, SessionKeeps
<1>3. Below(H \cup S, g, Order)
  BY DEF Below, Layers, Under, Routes
<1> QED BY <1>1, <1>2, <1>3, SharedKeeps DEF Under, GateWriteSession

\* A gate that is taken and given back.
LEMMA TouchKeeps ==
  ASSUME NEW H, NEW S, NEW W, NEW Order, IsContext(H, S, W), NEW g \in Gates \ (H \cup S),
         Below(H \cup S, g, Order), g \notin {"publication_checkpoint", "restore"}
  PROVE  Keeps(Within(g, <<>>), H, S, W, Order)
<1>1. IsContext(H \cup {g}, S, W)
  BY DEF IsContext
<1>2. Keeps(<<>>, H \cup {g}, S, W, Order)
  BY <1>1, NothingKeeps
<1> QED BY <1>2, WithinKeeps

\* The manifest, and the assets under it.
LEMMA PruneKeeps ==
  ASSUME NEW H, NEW S, NEW W, NEW Order, Layers \subseteq Order,
         Under(Routes \cup {"publication_checkpoint", "checkpoint"}, H, S, W)
  PROVE  Keeps(PruneRetained, H, S, W, Order) /\ Keeps(Within("manifest", <<>>), H, S, W, Order)
<1> DEFINE g == "manifest"
           a == "assets"
           I == H \cup {g}
<1>1. IsContext(I, S, W) /\ IsContext(H, S, W) /\ g \in Gates \ (H \cup S) /\ a \in Gates \ (I \cup S)
  BY DEF Under, IsContext, Gates, Routes
<1>2. Below(H \cup S, g, Order)
  BY DEF Below, Layers, Under, Routes
<1>3. Below(I \cup S, a, Order)
  BY DEF Below, Layers, Under, Routes
<1>4. Keeps(Within(a, <<>>), I, S, W, Order)
  BY <1>1, <1>3, TouchKeeps
<1>5. Keeps(Within(g, Within(a, <<>>)), H, S, W, Order)
  BY <1>1, <1>2, <1>4, WithinKeeps
<1>6. Keeps(Within(g, <<>>), H, S, W, Order)
  BY <1>1, <1>2, TouchKeeps
<1> QED BY <1>5, <1>6 DEF PruneRetained

\* checkpoint_impl_locked, by whoever has the checkpoints' gate or a share of it.
LEMMA LockedKeeps ==
  ASSUME NEW H, NEW S, NEW W, NEW Order, Layers \subseteq Order,
         Under(Routes \cup {"publication_checkpoint"}, H, S, W),
         "publication_checkpoint" \in H \cup S
  PROVE  Keeps(CheckpointLocked, H, S, W, Order)
<1> DEFINE g == "checkpoint"
           I == H \cup {g}
           M == Within("manifest", <<>>)
<1>1. /\ Under(Routes \cup {"publication_checkpoint", "checkpoint"}, I, S, W)
      /\ IsContext(I, S, W) /\ IsContext(H, S, W)
      /\ g \in Gates \ (H \cup S) /\ "publication_checkpoint" \in I \cup S
  BY DEF Under, IsContext, Gates, Routes
<1>2. Below(H \cup S, g, Order)
  BY DEF Below, Layers, Under, Routes
<1>3. Keeps(Snap, I, S, W, Order)
  BY <1>1, SnapKeeps
<1>4. Keeps(WriteSessionInner, I, S, W, Order)
  BY <1>1, SessionKeeps
<1>5. Keeps(PruneRetained, I, S, W, Order) /\ Keeps(M, I, S, W, Order)
  BY <1>1, PruneKeeps
<1>6. Keeps(Snap \o WriteSessionInner, I, S, W, Order)
  BY <1>3, <1>4, BothKeep
<1>7. Keeps(Snap \o WriteSessionInner \o M, I, S, W, Order)
  BY <1>5, <1>6, BothKeep
<1>8. Keeps(Snap \o WriteSessionInner \o M \o M, I, S, W, Order)
  BY <1>5, <1>7, BothKeep
<1>9. Keeps(Snap \o WriteSessionInner \o M \o M \o PruneRetained, I, S, W, Order)
  BY <1>5, <1>8, BothKeep
<1> QED BY <1>1, <1>2, <1>9, WithinKeeps DEF CheckpointLocked

\* checkpoint_impl takes its share first.
LEMMA CheckpointKeeps ==
  ASSUME NEW H, NEW S, NEW W, NEW Order, Layers \subseteq Order,
         Under(Routes, H, S, W), TryStep \notin W
  PROVE  Keeps(CheckpointRoom, H, S, W, Order)
<1> DEFINE g == "publication_checkpoint"
           T == S \cup {g}
<1>1. Under(Routes \cup {g}, H, T, W) /\ g \in Gates \ (H \cup S) /\ g \in H \cup T
  BY DEF Under, IsContext, Gates, Routes
<1>2. Keeps(CheckpointLocked, H, T, W, Order)
  BY <1>1, LockedKeeps
<1>3. Below(H \cup S, g, Order)
  BY DEF Below, Layers, Under, Routes
<1> QED BY <1>1, <1>2, <1>3, SharedKeeps DEF Under, CheckpointRoom

\* put_asset, and an edit behind the assets' gate.
LEMMA AssetKeeps ==
  ASSUME NEW H, NEW S, NEW W, NEW Order, Layers \subseteq Order,
         Under(Routes \cup {"publication_checkpoint"}, H, S, W)
  PROVE  Keeps(PutAsset, H, S, W, Order) /\ Keeps(Within("assets", GateEdit), H, S, W, Order)
<1> DEFINE g == "assets"
           I == H \cup {g}
<1>1. IsContext(I, S, W) /\ IsContext(H, S, W) /\ g \in Gates \ (H \cup S)
  BY DEF Under, IsContext, Gates, Routes
<1>2. Below(H \cup S, g, Order)
  BY DEF Below, Layers, Under, Routes
<1>3. Keeps(Within(g, <<>>), H, S, W, Order)
  BY <1>1, <1>2, TouchKeeps
<1>4. Keeps(GateEdit, I, S, W, Order)
  BY <1>1, EditKeeps
<1>5. Keeps(Within(g, GateEdit), H, S, W, Order)
  BY <1>1, <1>2, <1>4, WithinKeeps
<1> QED BY <1>3, <1>5, BothKeep DEF PutAsset

\* rollback_publication_inner puts the text back and saves it.
LEMMA RollBackKeeps ==
  ASSUME NEW H, NEW S, NEW W, NEW Order, Layers \subseteq Order,
         Under(Routes \cup {"publication_checkpoint"}, H, S, W),
         "publication_checkpoint" \in H \cup S
  PROVE  Keeps(RollBack, H, S, W, Order)
<1>1. Under(Routes \cup {"publication_checkpoint", "checkpoint"}, H, S, W)
  BY DEF Under
<1>2. Keeps(WriteSessionInner, H, S, W, Order)
  BY <1>1, SessionKeeps
<1> QED BY <1>2, AssetKeeps, BothKeep DEF RollBack

---------------------------------------------------------------------------
(* The operations, each from nothing held.  What it asks of the order of   *)
(* the routes' gates is its hypothesis.                                    *)

Orderly(L, Order) == L \in Seq(Step) /\ Disciplined(L, {}, Order)
Asks(pairs, Order) == Layers \cup pairs \subseteq Order
\* L leads from nothing to H held and the windows of W open.
Starts(L, H, W, Order) == Leads(L, {}, {}, {}, H, {}, W, Order)

\* What leads from nothing to anywhere is orderly.
LEMMA StartsOrderly ==
  ASSUME NEW L, NEW H, NEW W, NEW Order, Starts(L, H, W, Order)
  PROVE  Orderly(L, Order)
<1>1. Context({}, {}, {}) = {}
  BY DEF Context
<1> QED BY <1>1 DEF Starts, Leads, Runs, Orderly

\* What keeps nothing held starts and ends with nothing.
LEMMA StartsWith ==
  ASSUME NEW L, NEW Order, Keeps(L, {}, {}, {}, Order)
  PROVE  Starts(L, {}, {}, Order)
BY DEF Keeps, Starts

\* The first gate.
LEMMA FirstGate ==
  ASSUME NEW g \in Gates, NEW Order
  PROVE  Starts(HoldGate(g), {g}, {}, Order)
<1>1. IsContext({}, {}, {}) /\ Below({} \cup {}, g, Order) /\ {} \cup {g} = {g}
  BY DEF IsContext, Below
<1>2. Leads(HoldGate(g), {}, {}, {}, {} \cup {g}, {}, {}, Order)
  BY <1>1, TakeLeads
<1> QED BY <1>1, <1>2 DEF Starts

\* One more gate, above those held.
LEMMA NextGate ==
  ASSUME NEW L, NEW H, NEW W, NEW Order, Starts(L, H, W, Order), IsContext(H, {}, W),
         NEW g \in Gates, Below(H, g, Order)
  PROVE  Starts(L \o HoldGate(g), H \cup {g}, W, Order)
<1>1. Below(H \cup {}, g, Order)
  BY DEF Below
<1>2. Leads(HoldGate(g), H, {}, W, H \cup {g}, {}, W, Order)
  BY <1>1, TakeLeads
<1> QED BY <1>2, Joined DEF Starts, Leads

\* Work that keeps what is held.
LEMMA AndKeeps ==
  ASSUME NEW L, NEW H, NEW W, NEW Order, Starts(L, H, W, Order), NEW M, Keeps(M, H, {}, W, Order)
  PROVE  Starts(L \o M, H, W, Order)
BY Joined DEF Starts, Leads, Keeps

\* A base, an edit that may be taken back, and the settlement.
LEMMA AndOpens ==
  ASSUME NEW L, NEW H, NEW W, NEW Order, Starts(L, H, W, Order), IsContext(H, {}, W)
  PROVE  /\ "restore" \in H => Starts(L \o Base, H, W \cup {BaseStep}, Order)
         /\ "publication_checkpoint" \in H => Starts(L \o Tentative, H, W \cup {TryStep}, Order)
         /\ Starts(L \o GateSettle, H, {}, Order)
<1>1. "restore" \in H => Leads(Base, H, {}, W, H, {}, W \cup {BaseStep}, Order)
  BY BaseLeads
<1>2. "publication_checkpoint" \in H => Leads(Tentative, H, {}, W, H, {}, W \cup {TryStep}, Order)
  BY TryLeads
<1>3. Leads(GateSettle, H, {}, W, H, {}, {}, Order)
  BY SettleLeads
<1>4. "restore" \in H => Starts(L \o Base, H, W \cup {BaseStep}, Order)
  BY <1>1, Joined DEF Starts, Leads
<1>5. "publication_checkpoint" \in H => Starts(L \o Tentative, H, W \cup {TryStep}, Order)
  BY <1>2, Joined DEF Starts, Leads
<1>6. Starts(L \o GateSettle, H, {}, Order)
  BY <1>3, Joined DEF Starts, Leads
<1> QED BY <1>4, <1>5, <1>6

\* The operations that take one gate and no more.
LEMMA OneGateOrderly ==
  ASSUME NEW Order
  PROVE  /\ Orderly(ReadDocument, Order) /\ Orderly(Label, Order) /\ Orderly(Refresh, Order)
         /\ Orderly(AppendComment, Order) /\ Orderly(Activate, Order)
<1>1. ASSUME NEW g \in Gates PROVE Orderly(HoldGate(g), Order)
  BY FirstGate, StartsOrderly
<1>2. {"publication", "manifest", "comment", "rendered"} \subseteq Gates
  BY DEF Gates
<1> QED BY <1>1, <1>2 DEF ReadDocument, Label, Refresh, AppendComment, Activate

\* A person's update and an asset's name: publication, then assets.
LEMMA UpdateOrderly ==
  ASSUME NEW Order, Asks({}, Order)
  PROVE  Orderly(GateReceiveUpdate, Order) /\ Orderly(NameAsset, Order)
<1> DEFINE A == {"publication"}
           B == A \cup {"assets"}
<1>1. Starts(HoldGate("publication"), A, {}, Order)
  BY FirstGate DEF Gates
<1>2. IsContext(A, {}, {}) /\ IsContext(B, {}, {}) /\ "assets" \in Gates
  BY DEF IsContext, Gates
<1>3. Below(A, "assets", Order)
  BY DEF Below, Asks, Layers, Routes
<1>4. Starts(HoldGate("publication") \o HoldGate("assets"), B, {}, Order)
  BY <1>1, <1>2, <1>3, NextGate
<1>5. Starts(HoldGate("publication") \o HoldGate("assets") \o GateEdit, B, {}, Order)
  BY <1>2, <1>4, EditKeeps, AndKeeps
<1> QED BY <1>5, StartsOrderly DEF GateReceiveUpdate, NameAsset

\* The writers by themselves, behind nothing or behind the publication gate.
LEMMA WritersOrderly ==
  ASSUME NEW Order, Asks({}, Order)
  PROVE  /\ Orderly(PutAsset, Order) /\ Orderly(GateWriteSession, Order)
         /\ Orderly(CheckpointRoom, Order) /\ Orderly(AgentCheckpoint, Order)
<1> DEFINE A == {"publication"}
<1>1. Layers \subseteq Order /\ TryStep \notin {}
  BY DEF Asks
<1>2. Under(Routes, {}, {}, {}) /\ Under(Routes \cup {"publication_checkpoint"}, {}, {}, {})
  BY DEF Under, IsContext
<1>3. Under(Routes, A, {}, {})
  BY DEF Under, IsContext, Gates, Routes
<1>4. Keeps(PutAsset, {}, {}, {}, Order)
  BY <1>1, <1>2, AssetKeeps
<1>5. Keeps(GateWriteSession, {}, {}, {}, Order)
  BY <1>1, <1>2, SaveKeeps
<1>6. Keeps(CheckpointRoom, {}, {}, {}, Order)
  BY <1>1, <1>2, CheckpointKeeps
<1>7. Keeps(CheckpointRoom, A, {}, {}, Order)
  BY <1>1, <1>3, CheckpointKeeps
<1>8. Starts(HoldGate("publication"), A, {}, Order)
  BY FirstGate DEF Gates
<1>9. Starts(HoldGate("publication") \o CheckpointRoom, A, {}, Order)
  BY <1>7, <1>8, AndKeeps
<1> QED BY <1>4, <1>5, <1>6, <1>9, StartsWith, StartsOrderly DEF AgentCheckpoint

\* A restore: its base and its checkpoints behind the restores' gate.
LEMMA RestoreOrderly ==
  ASSUME NEW Order, Asks({}, Order)
  PROVE  Orderly(Restore, Order)
<1> DEFINE A == {"restore"}
           W == {} \cup {BaseStep}
           L1 == HoldGate("restore")
           L2 == L1 \o CheckpointRoom
           L3 == L2 \o Base
           L4 == L3 \o Within("assets", GateEdit)
           L5 == L4 \o CheckpointRoom
           L6 == L5 \o GateSettle
<1>1. Layers \subseteq Order /\ TryStep \notin {} /\ TryStep \notin W
  BY DEF Asks, TryStep, BaseStep
<1>2. /\ Under(Routes, A, {}, {}) /\ IsContext(A, {}, {})
      /\ Under(Routes, A, {}, W) /\ IsContext(A, {}, W)
      /\ Under(Routes \cup {"publication_checkpoint"}, A, {}, W)
  BY DEF Under, IsContext, Gates, Routes, Windows
<1>3. Starts(L1, A, {}, Order)
  BY FirstGate DEF Gates
<1>4. Keeps(CheckpointRoom, A, {}, {}, Order)
  BY <1>1, <1>2, CheckpointKeeps
<1>5. Starts(L2, A, {}, Order)
  BY <1>3, <1>4, AndKeeps
<1>6. Starts(L3, A, W, Order)
  BY <1>2, <1>5, AndOpens
<1>7. Keeps(Within("assets", GateEdit), A, {}, W, Order)
  BY <1>1, <1>2, AssetKeeps
<1>8. Starts(L4, A, W, Order)
  BY <1>6, <1>7, AndKeeps
<1>9. Keeps(CheckpointRoom, A, {}, W, Order)
  BY <1>1, <1>2, CheckpointKeeps
<1>10. Starts(L5, A, W, Order)
  BY <1>8, <1>9, AndKeeps
<1>11. Starts(L6, A, {}, Order)
  BY <1>2, <1>10, AndOpens
<1> QED BY <1>11, StartsOrderly DEF Restore

\* A purge goes down the layers.
LEMMA PurgeOrderly ==
  ASSUME NEW Order, Asks({}, Order)
  PROVE  Orderly(Purge, Order)
<1> DEFINE A == {"restore"}
           B == A \cup {"checkpoint"}
           C == B \cup {"manifest"}
           D == C \cup {"session"}
           L == HoldGate("restore") \o HoldGate("checkpoint")
<1>1. /\ IsContext(A, {}, {}) /\ IsContext(B, {}, {}) /\ IsContext(C, {}, {})
      /\ {"restore", "checkpoint", "manifest", "session"} \subseteq Gates
  BY DEF IsContext, Gates
<1>2. Below(A, "checkpoint", Order) /\ Below(B, "manifest", Order) /\ Below(C, "session", Order)
  BY DEF Below, Asks, Layers, Routes
<1>3. Starts(HoldGate("restore"), A, {}, Order)
  BY <1>1, FirstGate
<1>4. Starts(L, B, {}, Order)
  BY <1>1, <1>2, <1>3, NextGate
<1>5. Starts(L \o HoldGate("manifest"), C, {}, Order)
  BY <1>1, <1>2, <1>4, NextGate
<1>6. Starts(L \o HoldGate("manifest") \o HoldGate("session"), D, {}, Order)
  BY <1>1, <1>2, <1>5, NextGate
<1> QED BY <1>6, StartsOrderly DEF Purge

\* A batch of suggestions, and what the agent's operations begin with.
LEMMA BatchStarts ==
  ASSUME NEW Order, Asks({<<"restore", "comment">>}, Order)
  PROVE  Starts(HoldGate("restore") \o HoldGate("comment"), {"restore"} \cup {"comment"}, {}, Order)
<1>1. IsContext({"restore"}, {}, {}) /\ {"restore", "comment"} \subseteq Gates
  BY DEF IsContext, Gates
<1>2. Below({"restore"}, "comment", Order)
  BY DEF Below, Asks
<1>3. Starts(HoldGate("restore"), {"restore"}, {}, Order)
  BY <1>1, FirstGate
<1> QED BY <1>1, <1>2, <1>3, NextGate

\* The operations of an agent: restore, comment, publication, and only then
\* what keeps checkpoints out.
LEMMA AgentOrderly ==
  ASSUME NEW Order,
         Asks({<<"restore", "comment">>, <<"restore", "publication">>, <<"comment", "publication">>}, Order)
  PROVE  Orderly(ApplyAgent, Order) /\ Orderly(RecoverAgent, Order) /\ Orderly(AgentAnnotations, Order)
<1> DEFINE p == "publication_checkpoint"
           B == {"restore"} \cup {"comment"}
           C == B \cup {"publication"}
           D == C \cup {p}
           W == {} \cup {BaseStep}
           V == W \cup {TryStep}
           L2 == HoldGate("restore") \o HoldGate("comment")
           L3 == L2 \o HoldGate("publication")
           L4 == L3 \o Base
           L5 == L4 \o HoldGate(p)
           L6 == L5 \o Tentative
<1>1. Layers \subseteq Order /\ Asks({<<"restore", "comment">>}, Order)
  BY DEF Asks
<1>2. /\ IsContext(B, {}, {}) /\ IsContext(C, {}, {}) /\ IsContext(C, {}, W)
      /\ IsContext(D, {}, W) /\ IsContext(D, {}, V) /\ {p, "publication"} \subseteq Gates
      /\ Under(Routes \cup {p}, D, {}, V) /\ Under(Routes \cup {p, "checkpoint"}, D, {}, V)
  BY DEF IsContext, Gates, Windows, Under, Routes
<1>3. Below(B, "publication", Order) /\ Below(C, p, Order)
  BY DEF Below, Asks, Layers, Routes
<1>4. Starts(L2, B, {}, Order)
  BY <1>1, BatchStarts
<1>5. Starts(L3, C, {}, Order)
  BY <1>2, <1>3, <1>4, NextGate
<1>6. Starts(L4, C, W, Order)
  BY <1>2, <1>5, AndOpens
<1>7. Starts(L5, D, W, Order)
  BY <1>2, <1>3, <1>6, NextGate
<1>8. Starts(L6, D, V, Order)
  BY <1>2, <1>7, AndOpens
<1>9. Keeps(RollBack, D, {}, V, Order) /\ Keeps(WriteSessionInner, D, {}, V, Order)
  BY <1>1, <1>2, RollBackKeeps, SessionKeeps
<1>10. Starts(L6 \o RollBack, D, V, Order)
  BY <1>8, <1>9, AndKeeps
<1>11. Starts(L6 \o WriteSessionInner, D, V, Order)
  BY <1>8, <1>9, AndKeeps
<1>12. Starts(L6 \o WriteSessionInner \o RollBack, D, V, Order)
  BY <1>9, <1>11, AndKeeps
<1>13. Starts(L6 \o RollBack \o GateSettle, D, {}, Order)
  BY <1>2, <1>10, AndOpens
<1>14. Starts(L6 \o WriteSessionInner \o RollBack \o GateSettle, D, {}, Order)
  BY <1>2, <1>12, AndOpens
<1> QED BY <1>5, <1>13, <1>14, StartsOrderly DEF ApplyAgent, RecoverAgent, AgentAnnotations

\* A publication of source: restore, publication, then what keeps checkpoints
\* out, and the checkpoint it takes itself.
LEMMA PublishOrderly ==
  ASSUME NEW Order, Asks({<<"restore", "publication">>}, Order)
  PROVE  Orderly(PublishInto, Order) /\ Orderly(PublishNew, Order)
<1> DEFINE p == "publication_checkpoint"
           A == {"restore"}
           B == A \cup {"publication"}
           D == B \cup {p}
           W == {} \cup {BaseStep}
           V == W \cup {TryStep}
           L2 == HoldGate("restore") \o HoldGate("publication")
           L3 == L2 \o HoldGate(p)
           L4 == L3 \o Base
           L5 == L4 \o PutAsset
           L6 == L5 \o Tentative
           L7 == L6 \o CheckpointLocked
           L8 == L7 \o RollBack
           L9 == L8 \o GateSettle
<1>1. Layers \subseteq Order
  BY DEF Asks
<1>2. /\ IsContext(A, {}, {}) /\ IsContext(B, {}, {}) /\ IsContext(D, {}, {})
      /\ IsContext(D, {}, W) /\ IsContext(D, {}, V) /\ {p, "publication", "restore"} \subseteq Gates
      /\ Under(Routes \cup {p}, D, {}, {}) /\ Under(Routes \cup {p}, D, {}, W)
      /\ Under(Routes \cup {p}, D, {}, V)
  BY DEF IsContext, Gates, Windows, Under, Routes
<1>3. Below(A, "publication", Order) /\ Below(B, p, Order)
  BY DEF Below, Asks, Layers, Routes
<1>4. Starts(HoldGate("restore"), A, {}, Order)
  BY <1>2, FirstGate
<1>5. Starts(L2, B, {}, Order)
  BY <1>2, <1>3, <1>4, NextGate
<1>6. Starts(L3, D, {}, Order)
  BY <1>2, <1>3, <1>5, NextGate
<1>7. Keeps(CheckpointLocked, D, {}, {}, Order) /\ Keeps(CheckpointLocked, D, {}, V, Order)
  BY <1>1, <1>2, LockedKeeps
<1>8. Keeps(PutAsset, D, {}, W, Order) /\ Keeps(RollBack, D, {}, V, Order)
  BY <1>1, <1>2, AssetKeeps, RollBackKeeps
<1>9. Starts(L4, D, W, Order)
  BY <1>2, <1>6, AndOpens
<1>10. Starts(L5, D, W, Order)
  BY <1>8, <1>9, AndKeeps
<1>11. Starts(L6, D, V, Order)
  BY <1>2, <1>10, AndOpens
<1>12. Starts(L7, D, V, Order)
  BY <1>7, <1>11, AndKeeps
<1>13. Starts(L8, D, V, Order)
  BY <1>8, <1>12, AndKeeps
<1>14. Starts(L9, D, {}, Order)
  BY <1>2, <1>13, AndOpens
<1>15. Starts(L3 \o CheckpointLocked, D, {}, Order)
  BY <1>6, <1>7, AndKeeps
<1> QED BY <1>14, <1>15, StartsOrderly DEF PublishInto, PublishNew

\* The routes of comments hold publication before the operation begins, and
\* rendered before that.
CommentOrder ==
  {<<"rendered", "publication">>, <<"rendered", "restore">>, <<"rendered", "comment">>,
   <<"publication", "restore">>, <<"publication", "comment">>, <<"restore", "comment">>}

\* A suggestion accepted behind the publication gate.
LEMMA AcceptOrderly ==
  ASSUME NEW Order, Asks(CommentOrder, Order)
  PROVE  Orderly(RouteAccept, Order)
<1> DEFINE A == {"publication", "restore"}
           B == A \cup {"comment"}
           W == {} \cup {BaseStep}
           P == HoldGate("publication")
           L1 == HoldGate("restore")
           L2 == L1 \o Base
           L3 == L2 \o GateEdit
           L4 == L3 \o CheckpointRoom
           L5 == L4 \o HoldGate("comment")
           L6 == L5 \o GateSettle
<1>1. Layers \subseteq Order /\ TryStep \notin W
  BY DEF Asks, TryStep, BaseStep
<1>2. /\ IsContext({"publication"}, {}, {}) /\ IsContext(A, {}, {}) /\ IsContext(A, {}, W)
      /\ IsContext(B, {}, W) /\ {"publication", "restore", "comment"} \subseteq Gates
      /\ Under(Routes, A, {}, W) /\ {"publication"} \cup {"restore"} = A
  BY DEF IsContext, Gates, Windows, Under, Routes
<1>3. Below({"publication"} \cup {}, "restore", Order) /\ Below(A \cup {}, "comment", Order)
  BY DEF Below, Asks, CommentOrder
<1>4. Starts(P, {"publication"}, {}, Order)
  BY <1>2, FirstGate
<1>5. Leads(L1, {"publication"}, {}, {}, {"publication"} \cup {"restore"}, {}, {}, Order)
  BY <1>2, <1>3, TakeLeads
<1>6. Leads(L1, {"publication"}, {}, {}, A, {}, {}, Order)
  BY <1>2, <1>5
<1>7. Leads(Base, A, {}, {}, A, {}, W, Order)
  BY <1>2, BaseLeads
<1>8. Keeps(GateEdit, A, {}, W, Order) /\ Keeps(CheckpointRoom, A, {}, W, Order)
  BY <1>1, <1>2, EditKeeps, CheckpointKeeps
<1>9. Leads(HoldGate("comment"), A, {}, W, B, {}, W, Order)
  BY <1>2, <1>3, TakeLeads
<1>10. Leads(GateSettle, B, {}, W, B, {}, {}, Order)
  BY <1>2, SettleLeads
<1>11. Leads(L2, {"publication"}, {}, {}, A, {}, W, Order)
  BY <1>6, <1>7, Joined DEF Leads
<1>12. Leads(L3, {"publication"}, {}, {}, A, {}, W, Order)
  BY <1>8, <1>11, Joined DEF Leads, Keeps
<1>13. Leads(L4, {"publication"}, {}, {}, A, {}, W, Order)
  BY <1>8, <1>12, Joined DEF Leads, Keeps
<1>14. Leads(L5, {"publication"}, {}, {}, B, {}, W, Order)
  BY <1>9, <1>13, Joined DEF Leads
<1>15. Leads(L6, {"publication"}, {}, {}, B, {}, {}, Order)
  BY <1>10, <1>14, Joined DEF Leads
<1>16. Starts(P \o L6, B, {}, Order)
  BY <1>4, <1>15, Joined DEF Starts, Leads
<1> QED BY <1>16, StartsOrderly DEF RouteAccept, AcceptSuggestion

\* restore and comment, as they are taken behind H.
LEMMA CommandLeads ==
  ASSUME NEW H, IsContext(H, {}, {}), NEW Order, <<"restore", "comment">> \in Order,
         Below(H, "restore", Order), Below(H, "comment", Order)
  PROVE  Leads(HoldGate("restore") \o HoldGate("comment"), H, {}, {},
               (H \cup {"restore"}) \cup {"comment"}, {}, {}, Order)
<1> DEFINE I == H \cup {"restore"}
<1>1. IsContext(I, {}, {}) /\ {"restore", "comment"} \subseteq Gates
  BY DEF IsContext, Gates
<1>2. Below(H \cup {}, "restore", Order) /\ Below(I \cup {}, "comment", Order)
  BY DEF Below
<1>3. Leads(HoldGate("restore"), H, {}, {}, I, {}, {}, Order)
  BY <1>1, <1>2, TakeLeads
<1>4. Leads(HoldGate("comment"), I, {}, {}, I \cup {"comment"}, {}, {}, Order)
  BY <1>1, <1>2, TakeLeads
<1> QED BY <1>3, <1>4, Joined DEF Leads

\* The other routes of comments: a rejection, a command, a rendered comment.
LEMMA CommentOrderly ==
  ASSUME NEW Order, Asks(CommentOrder, Order)
  PROVE  Orderly(RouteReject, Order) /\ Orderly(RouteComment, Order) /\ Orderly(RouteRendered, Order)
<1> DEFINE P == HoldGate("publication")
           R == HoldGate("restore") \o HoldGate("comment")
           A == {"publication"}
           B == {"rendered"} \cup {"publication"}
           C == (A \cup {"restore"}) \cup {"comment"}
           D == (B \cup {"restore"}) \cup {"comment"}
<1>1. Layers \subseteq Order /\ <<"restore", "comment">> \in Order /\ TryStep \notin {}
  BY DEF Asks, CommentOrder
<1>2. /\ IsContext(A, {}, {}) /\ IsContext(B, {}, {}) /\ IsContext({"rendered"}, {}, {})
      /\ {"publication", "rendered"} \subseteq Gates /\ Under(Routes, A, {}, {}) /\ Under(Routes, B, {}, {})
  BY DEF IsContext, Gates, Under, Routes
<1>3. /\ Below(A, "restore", Order) /\ Below(A, "comment", Order)
      /\ Below(B, "restore", Order) /\ Below(B, "comment", Order)
      /\ Below({"rendered"} \cup {}, "publication", Order)
  BY DEF Below, Asks, CommentOrder
<1>4. Leads(P, {}, {}, {}, A, {}, {}, Order) /\ Leads(HoldGate("rendered"), {}, {}, {}, {"rendered"}, {}, {}, Order)
  BY <1>2, FirstGate DEF Starts
<1>5. Leads(P, {"rendered"}, {}, {}, B, {}, {}, Order)
  BY <1>2, <1>3, TakeLeads
<1>6. Keeps(CheckpointRoom, A, {}, {}, Order) /\ Keeps(CheckpointRoom, B, {}, {}, Order)
  BY <1>1, <1>2, CheckpointKeeps
<1>7. Leads(R, A, {}, {}, C, {}, {}, Order) /\ Leads(R, B, {}, {}, D, {}, {}, Order)
  BY <1>1, <1>2, <1>3, CommandLeads
<1>8. Leads(P \o R, {}, {}, {}, C, {}, {}, Order)
  BY <1>4, <1>7, Joined DEF Leads
<1>9. Leads(P \o CheckpointRoom, {}, {}, {}, A, {}, {}, Order)
  BY <1>4, <1>6, Joined DEF Leads, Keeps
<1>10. Leads(P \o CheckpointRoom \o R, {}, {}, {}, C, {}, {}, Order)
  BY <1>7, <1>9, Joined DEF Leads
<1>11. Leads(P \o CheckpointRoom, {"rendered"}, {}, {}, B, {}, {}, Order)
  BY <1>5, <1>6, Joined DEF Leads, Keeps
<1>12. Leads(P \o CheckpointRoom \o R, {"rendered"}, {}, {}, D, {}, {}, Order)
  BY <1>7, <1>11, Joined DEF Leads
<1>13. Leads(HoldGate("rendered") \o (P \o CheckpointRoom \o R), {}, {}, {}, D, {}, {}, Order)
  BY <1>4, <1>12, Joined DEF Leads
<1>14. /\ Starts(P \o R, C, {}, Order) /\ Starts(P \o CheckpointRoom \o R, C, {}, Order)
       /\ Starts(HoldGate("rendered") \o (P \o CheckpointRoom \o R), D, {}, Order)
  BY <1>8, <1>10, <1>13 DEF Starts
<1>15. Orderly(P \o R, Order)
  BY <1>14, StartsOrderly
<1>16. Orderly(P \o CheckpointRoom \o R, Order)
  BY <1>14, StartsOrderly
<1>17. Orderly(HoldGate("rendered") \o (P \o CheckpointRoom \o R), Order)
  BY <1>14, StartsOrderly
<1> QED BY <1>15, <1>16, <1>17 DEF RouteReject, RejectSuggestion, RouteComment, ApplyCommand, RouteRendered

---------------------------------------------------------------------------
(* The lists of all operations, and the two orders. *)

\* Source first takes restore, comment, publication; the routes of comments take
\* publication before both.
SourceOrder == Layers \cup {<<"restore", "comment">>, <<"restore", "publication">>, <<"comment", "publication">>}
RouteOrder == Layers \cup CommentOrder
AnyOrder == Gates \X Gates

InwardOps == {"receive_update", "read", "name_asset", "put_asset", "label", "refresh", "append_comment",
              "write_session", "checkpoint", "restore", "batch", "agent_checkpoint", "purge", "activate"}
SourceOps == InwardOps \cup {"agent_apply", "agent_recover", "agent_annotate", "publish", "publish_new"}
CommentOps == InwardOps \cup {"accept", "reject", "comment", "rendered_comment"}

\* What each operation's list is.
LEMMA ListsAre ==
  /\ GateOps = SourceOps \cup CommentOps \cup {"decide"}
  /\ GateSteps["receive_update"] = GateReceiveUpdate /\ GateSteps["read"] = ReadDocument
  /\ GateSteps["name_asset"] = NameAsset /\ GateSteps["put_asset"] = PutAsset
  /\ GateSteps["label"] = Label /\ GateSteps["refresh"] = Refresh
  /\ GateSteps["append_comment"] = AppendComment /\ GateSteps["write_session"] = GateWriteSession
  /\ GateSteps["checkpoint"] = CheckpointRoom /\ GateSteps["restore"] = Restore
  /\ GateSteps["batch"] = SuggestionBatch /\ GateSteps["agent_apply"] = ApplyAgent
  /\ GateSteps["agent_recover"] = RecoverAgent /\ GateSteps["agent_annotate"] = AgentAnnotations
  /\ GateSteps["agent_checkpoint"] = AgentCheckpoint /\ GateSteps["publish"] = PublishInto
  /\ GateSteps["publish_new"] = PublishNew /\ GateSteps["purge"] = Purge
  /\ GateSteps["accept"] = RouteAccept /\ GateSteps["reject"] = RouteReject
  /\ GateSteps["comment"] = RouteComment /\ GateSteps["rendered_comment"] = RouteRendered
  /\ GateSteps["decide"] = SocketDecide /\ GateSteps["activate"] = Activate
BY DEF GateSteps, GateOps, SourceOps, CommentOps, InwardOps

\* The operations of both orders.
LEMMA InwardOrderly ==
  ASSUME NEW Order, Asks({<<"restore", "comment">>}, Order), NEW op \in InwardOps
  PROVE  Orderly(GateSteps[op], Order)
<1>1. Asks({}, Order)
  BY DEF Asks
<1>2. Orderly(SuggestionBatch, Order)
  BY BatchStarts, StartsOrderly DEF SuggestionBatch
<1>3. /\ Orderly(GateReceiveUpdate, Order) /\ Orderly(NameAsset, Order) /\ Orderly(PutAsset, Order)
      /\ Orderly(GateWriteSession, Order) /\ Orderly(CheckpointRoom, Order) /\ Orderly(AgentCheckpoint, Order)
      /\ Orderly(Restore, Order) /\ Orderly(Purge, Order)
  BY <1>1, UpdateOrderly, WritersOrderly, RestoreOrderly, PurgeOrderly
<1>4. /\ Orderly(ReadDocument, Order) /\ Orderly(Label, Order) /\ Orderly(Refresh, Order)
      /\ Orderly(AppendComment, Order) /\ Orderly(Activate, Order)
  BY OneGateOrderly
<1> QED BY <1>2, <1>3, <1>4, ListsAre DEF InwardOps

\* The lists with source first.
LEMMA SourceOrderly ==
  ASSUME NEW Order, SourceOrder \subseteq Order, NEW op \in SourceOps
  PROVE  Orderly(GateSteps[op], Order)
<1>1. Asks({<<"restore", "comment">>}, Order) /\ Asks({<<"restore", "publication">>}, Order)
  BY DEF Asks, SourceOrder
<1>2. Asks({<<"restore", "comment">>, <<"restore", "publication">>, <<"comment", "publication">>}, Order)
  BY DEF Asks, SourceOrder
<1>3. Orderly(ApplyAgent, Order) /\ Orderly(RecoverAgent, Order) /\ Orderly(AgentAnnotations, Order)
  BY <1>2, AgentOrderly
<1>4. Orderly(PublishInto, Order) /\ Orderly(PublishNew, Order)
  BY <1>1, PublishOrderly
<1>5. CASE op \in InwardOps
  BY <1>1, <1>5, InwardOrderly
<1>6. CASE op \in {"agent_apply", "agent_recover", "agent_annotate", "publish", "publish_new"}
  BY <1>3, <1>4, <1>6, ListsAre
<1> QED BY <1>5, <1>6 DEF SourceOps

\* The lists with the routes of comments.
LEMMA CommentsOrderly ==
  ASSUME NEW Order, RouteOrder \subseteq Order, NEW op \in CommentOps
  PROVE  Orderly(GateSteps[op], Order)
<1>1. Asks({<<"restore", "comment">>}, Order) /\ Asks(CommentOrder, Order)
  BY DEF Asks, RouteOrder, CommentOrder
<1>2. Orderly(RouteAccept, Order) /\ Orderly(RouteReject, Order) /\ Orderly(RouteComment, Order)
      /\ Orderly(RouteRendered, Order)
  BY <1>1, AcceptOrderly, CommentOrderly
<1>3. CASE op \in InwardOps
  BY <1>1, <1>3, InwardOrderly
<1>4. CASE op \in {"accept", "reject", "comment", "rendered_comment"}
  BY <1>2, <1>4, ListsAre
<1> QED BY <1>3, <1>4 DEF CommentOps

\* A decision over a socket asks for a gate its caller holds.
LEMMA DecideOrderly == Orderly(SocketDecide, AnyOrder)
<1> DEFINE p == "publication"
           H == {p} \cup {p}
           P == HoldGate(p)
<1>1. /\ IsContext({p}, {}, {}) /\ IsContext(H, {}, {}) /\ p \in Gates /\ Under(Routes, H, {}, {})
      /\ Layers \subseteq AnyOrder /\ TryStep \notin {} /\ Below({p} \cup {}, p, AnyOrder)
  BY DEF IsContext, Gates, Under, Routes, Layers, AnyOrder, Below
<1>2. Leads(P, {}, {}, {}, {p}, {}, {}, AnyOrder)
  BY <1>1, FirstGate DEF Starts
<1>3. Leads(P, {p}, {}, {}, H, {}, {}, AnyOrder)
  BY <1>1, TakeLeads
<1>4. Keeps(GateEdit, H, {}, {}, AnyOrder) /\ Keeps(GateWriteSession, H, {}, {}, AnyOrder)
  BY <1>1, EditKeeps, SaveKeeps
<1>5. Leads(P \o GateEdit, {p}, {}, {}, H, {}, {}, AnyOrder)
  BY <1>3, <1>4, Joined DEF Leads, Keeps
<1>6. Leads(P \o GateEdit \o GateWriteSession, {p}, {}, {}, H, {}, {}, AnyOrder)
  BY <1>4, <1>5, Joined DEF Leads, Keeps
<1>7. Leads(P \o (P \o GateEdit \o GateWriteSession), {}, {}, {}, H, {}, {}, AnyOrder)
  BY <1>2, <1>6, Joined DEF Leads
<1> QED BY <1>7, StartsOrderly DEF Starts, SocketDecide, DecideRevision

\* Whatever the order, every list edits and captures where it may.
LEMMA EveryListOrderly ==
  ASSUME NEW op \in GateOps
  PROVE  Orderly(GateSteps[op], AnyOrder)
<1>1. SourceOrder \subseteq AnyOrder /\ RouteOrder \subseteq AnyOrder
  BY DEF SourceOrder, RouteOrder, AnyOrder, Layers, CommentOrder, Routes, Gates
<1> QED BY <1>1, SourceOrderly, CommentsOrderly, DecideOrderly, ListsAre

\* Neither order has a circle.
Ranked(Order) ==
  \E rank \in [Gates -> 0 .. 9] : \A g, h \in Gates : <<g, h>> \in Order => rank[g] < rank[h]

\* Both orders of the repository are ranked.
LEMMA OrdersAreRanked == Ranked(SourceOrder) /\ Ranked(RouteOrder)
<1> DEFINE low(g) == CASE g = "checkpoint" -> 7
                       [] g = "manifest" -> 8
                       [] g = "publication_checkpoint" -> 6
                       [] OTHER -> 9
           source == [g \in Gates |-> CASE g = "rendered" -> 1
                                        [] g = "restore" -> 2
                                        [] g = "comment" -> 3
                                        [] g = "publication" -> 4
                                        [] OTHER -> low(g)]
           route == [g \in Gates |-> CASE g = "rendered" -> 1
                                       [] g = "publication" -> 2
                                       [] g = "restore" -> 3
                                       [] g = "comment" -> 4
                                       [] OTHER -> low(g)]
<1>1. source \in [Gates -> 0 .. 9] /\ route \in [Gates -> 0 .. 9]
  OBVIOUS
<1>2. \A g, h \in Gates : <<g, h>> \in SourceOrder => source[g] < source[h]
  BY DEF SourceOrder, Layers, Routes, Gates
<1>3. \A g, h \in Gates : <<g, h>> \in RouteOrder => route[g] < route[h]
  BY DEF RouteOrder, Layers, CommentOrder, Routes, Gates
<1> HIDE DEF source, route
<1> QED BY <1>1, <1>2, <1>3 DEF Ranked

---------------------------------------------------------------------------
(* The tasks at work. *)

\* What is open of task t is what it holds, shares, has fixed and may take back.
OwnGates(t) == {g \in Gates : t \in gateHolders[g] /\ ~gateShared[g]}
SharedGates(t) == {g \in Gates : t \in gateHolders[g] /\ gateShared[g]}
OwnWindows(t) == {x \in {BaseStep} : t \in gateBased} \cup {x \in {TryStep} : t \in gateUnsettled}
Open(t) == Context(OwnGates(t), SharedGates(t), OwnWindows(t))

GateTypeOK ==
  /\ gateMix \in GateMixes
  /\ gateOp \in [GateTask -> GateOps \cup {GateIdle}]
  /\ gateSteps \in [GateTask -> Seq(Step)]
  /\ gateHolders \in [Gates -> SUBSET GateTask] /\ gateShared \in [Gates -> BOOLEAN]
  /\ gateQueue \in [Gates -> Seq(GateTask)]
  /\ gateUnsettled \subseteq GateTask /\ gateBased \subseteq GateTask

\* Nobody but sharers shares a gate.
HeldAlone == \A g \in Gates : ~gateShared[g] => \A t, u \in gateHolders[g] : t = u
\* A window is open only behind its gate.
WindowsAreGuarded ==
  /\ \A t \in gateUnsettled : /\ t \in gateHolders["publication_checkpoint"]
                              /\ ~gateShared["publication_checkpoint"]
  /\ \A t \in gateBased : t \in gateHolders["restore"] /\ ~gateShared["restore"]
\* Who waits for a gate is about to take it, and waits once.
InLine(g, t) == Working(t) /\ gateSteps[t] # <<>> /\ Coming(t) \in {"take", "share"} /\ Gate(t) = g
QueuesAreSound ==
  \A g \in Gates :
    /\ \A i \in 1 .. Len(gateQueue[g]) : InLine(g, gateQueue[g][i])
    /\ \A i, j \in 1 .. Len(gateQueue[g]) : gateQueue[g][i] = gateQueue[g][j] => i = j
\* A task with nothing to do has nothing.
IdleHasNothing ==
  \A t \in GateTask : ~Working(t) => /\ \A g \in Gates : t \notin gateHolders[g]
                                    /\ t \notin gateUnsettled /\ t \notin gateBased /\ gateSteps[t] = <<>>
\* What every task has left keeps the discipline from what it has open.
StepsAreSound(Order) == \A t \in GateTask : Disciplined(gateSteps[t], Open(t), Order)
MixIsOrderly(Order) == \A op \in gateMix : Orderly(GateSteps[op], Order)

GateInv(Order) ==
  /\ GateTypeOK /\ HeldAlone /\ WindowsAreGuarded /\ QueuesAreSound /\ IdleHasNothing
  /\ StepsAreSound(Order) /\ MixIsOrderly(Order)

\* What is open of a task is a context.
LEMMA OpenIsContext ==
  ASSUME NEW t
  PROVE  IsContext(OwnGates(t), SharedGates(t), OwnWindows(t))
BY DEF IsContext, OwnGates, SharedGates, OwnWindows, Windows

\* What a step does to what is open of a task.
LEMMA AfterOpen ==
  ASSUME NEW t, NEW s \in Step, NEW g, s.gate = g
  PROVE  /\ s.do = "take" => After(s, Open(t)) = Context(OwnGates(t) \cup {g}, SharedGates(t), OwnWindows(t))
         /\ s.do = "share" => After(s, Open(t)) = Context(OwnGates(t), SharedGates(t) \cup {g}, OwnWindows(t))
         /\ s.do = "give" => After(s, Open(t)) = Context(OwnGates(t) \ {g}, SharedGates(t) \ {g}, OwnWindows(t))
         /\ s.do \in {"edit", "snap"} => After(s, Open(t)) = Open(t)
         /\ s \in Windows => After(s, Open(t)) = Context(OwnGates(t), SharedGates(t), OwnWindows(t) \cup {s})
         /\ s.do = "settle" => After(s, Open(t)) = Context(OwnGates(t), SharedGates(t), {})
<1>1. PICK H : H = OwnGates(t)
  OBVIOUS
<1>2. PICK S : S = SharedGates(t)
  OBVIOUS
<1>3. PICK W : W = OwnWindows(t)
  OBVIOUS
<1>4. IsContext(H, S, W)
  BY <1>1, <1>2, <1>3, OpenIsContext
<1>5. PICK C : C = Context(H, S, W)
  OBVIOUS
<1>6. /\ s.do = "take" => s = Taken(s.gate)
      /\ s.do = "share" => s = Shared(s.gate)
  BY DEF Step, Taken, Shared
<1>7. \A h : /\ Taken(h).do = "take" /\ Taken(h).gate = h
             /\ Shared(h).do = "share" /\ Shared(h).gate = h
  BY DEF Taken, Shared
<1>8. \A x \in Windows : x.do \in {"base", "try"}
  BY DEF Windows, BaseStep, TryStep
<1>9. \A x \in W : x.do \in {"base", "try"}
  BY <1>4, <1>8 DEF IsContext
<1>10. s.do \in {"take", "share"} \/ s \in Windows => After(s, C) = C \cup {s}
  BY <1>8 DEF After, Closes, Opens
<1>11. s.do = "take" => After(s, C) = Context(H \cup {g}, S, W)
  BY <1>5, <1>6, <1>10 DEF Context
<1>12. s.do = "share" => After(s, C) = Context(H, S \cup {g}, W)
  BY <1>5, <1>6, <1>10 DEF Context
<1>13. s.do = "give" => After(s, C) = Context(H \ {g}, S \ {g}, W)
  <2>1. s.do = "give" => After(s, C) = {x \in C : ~(Holds(x) /\ x.gate = s.gate)}
    BY DEF After, Closes, Opens
  <2>2. \A h : Holds(Taken(h)) /\ Holds(Shared(h))
    BY <1>7 DEF Holds
  <2>3. \A x \in W : ~Holds(x)
    BY <1>9 DEF Holds
  <2> QED BY <1>5, <1>7, <2>1, <2>2, <2>3 DEF Context
<1>14. s.do \in {"edit", "snap"} => After(s, C) = C
  BY DEF After, Closes, Opens
<1>15. s \in Windows => After(s, C) = Context(H, S, W \cup {s})
  BY <1>5, <1>10 DEF Context
<1>16. s.do = "settle" => After(s, C) = Context(H, S, {})
  <2>1. s.do = "settle" => After(s, C) = {x \in C : x.do \notin {"base", "try"}}
    BY DEF After, Closes, Opens
  <2> QED BY <1>5, <1>7, <1>9, <2>1 DEF Context
<1>17. Open(t) = C
  BY <1>1, <1>2, <1>3, <1>5 DEF Open
<1> QED BY <1>1, <1>2, <1>3, <1>11, <1>12, <1>13, <1>14, <1>15, <1>16, <1>17

\* The next step of a task at work is allowed, and its rest is sound after it.
LEMMA NextStep ==
  ASSUME NEW Order, GateInv(Order), NEW t \in GateTask, gateSteps[t] # <<>>
  PROVE  /\ Head(gateSteps[t]) \in Step /\ Head(gateSteps[t]) = gateSteps[t][1]
         /\ Tail(gateSteps[t]) \in Seq(Step)
         /\ Allowed(Head(gateSteps[t]), Open(t), Order)
         /\ Disciplined(Tail(gateSteps[t]), After(Head(gateSteps[t]), Open(t)), Order)
<1>1. PICK L \in Seq(Step) : L = gateSteps[t]
  BY DEF GateInv, GateTypeOK
<1>2. PICK C : C = Open(t)
  OBVIOUS
<1>3. L # <<>> /\ Disciplined(L, C, Order)
  BY <1>1, <1>2 DEF GateInv, StepsAreSound
<1>4. Head(L) = L[1] /\ Head(L) \in Step /\ Tail(L) \in Seq(Step)
  BY <1>3, HeadTailProperties
<1>5. Allowed(L[1], C, Order) /\ Disciplined(Tail(L), After(L[1], C), Order)
  BY <1>3, RestIsDisciplined
<1> QED BY <1>1, <1>2, <1>4, <1>5

\* A queue without one of its places.
LEMMA WithdrawnIs ==
  ASSUME NEW T, NEW q \in Seq(T), NEW t,
         \A i, j \in 1 .. Len(q) : q[i] = q[j] => i = j
  PROVE  /\ Withdrawn(q, t) \in Seq(T)
         /\ \A i \in 1 .. Len(Withdrawn(q, t)) : /\ Withdrawn(q, t)[i] # t
                                                 /\ \E j \in 1 .. Len(q) : Withdrawn(q, t)[i] = q[j]
         /\ \A i, j \in 1 .. Len(Withdrawn(q, t)) : Withdrawn(q, t)[i] = Withdrawn(q, t)[j] => i = j
<1>1. Len(q) \in Nat /\ DOMAIN q = 1 .. Len(q) /\ \A i \in 1 .. Len(q) : q[i] \in T
  BY LenProperties, ElementOfSeq
<1>2. CASE t \notin ToSet(q)
  BY <1>1, <1>2 DEF Withdrawn, ToSet
<1>3. CASE t \in ToSet(q)
  <2> DEFINE n == CHOOSE i \in DOMAIN q : q[i] = t
             a == SubSeq(q, 1, n - 1)
             b == SubSeq(q, n + 1, Len(q))
             w == a \o b
  <2>1. n \in 1 .. Len(q) /\ q[n] = t
    BY <1>1, <1>3 DEF ToSet
  <2>2. Withdrawn(q, t) = w
    BY <1>3 DEF Withdrawn, RemoveAt
  <2> HIDE DEF n
  <2>3. /\ a \in Seq(T) /\ Len(a) = n - 1
        /\ \A i \in 1 .. n - 1 : a[i] = q[i]
    <3>1. n - 1 \in Int /\ \A i \in 1 .. n - 1 : q[i] \in T
      BY <1>1, <2>1
    <3>2. /\ a \in Seq(T) /\ Len(a) = (IF 1 <= n - 1 THEN (n - 1) - 1 + 1 ELSE 0)
          /\ \A i \in 1 .. (n - 1) - 1 + 1 : a[i] = q[1 + i - 1]
      BY <3>1, SubSeqProperties
    <3>3. Len(a) = n - 1
      BY <2>1, <3>2
    <3>4. \A i \in 1 .. n - 1 : a[i] = q[i]
      <4>1. ASSUME NEW i \in 1 .. n - 1 PROVE a[i] = q[i]
        <5>1. i \in 1 .. (n - 1) - 1 + 1 /\ 1 + i - 1 = i
          BY <2>1
        <5> QED BY <3>2, <5>1
      <4> QED BY <4>1
    <3> QED BY <3>2, <3>3, <3>4
  <2>4. /\ b \in Seq(T) /\ Len(b) = Len(q) - n
        /\ \A i \in 1 .. Len(q) - n : b[i] = q[n + i]
    <3>1. n + 1 \in Int /\ Len(q) \in Int /\ \A i \in n + 1 .. Len(q) : q[i] \in T
      BY <1>1, <2>1
    <3>2. /\ b \in Seq(T) /\ Len(b) = (IF n + 1 <= Len(q) THEN Len(q) - (n + 1) + 1 ELSE 0)
          /\ \A i \in 1 .. Len(q) - (n + 1) + 1 : b[i] = q[(n + 1) + i - 1]
      BY <3>1, SubSeqProperties
    <3>3. Len(b) = Len(q) - n
      <4>1. PICK m : m = Len(b)
        OBVIOUS
      <4>2. m = (IF n + 1 <= Len(q) THEN Len(q) - (n + 1) + 1 ELSE 0)
        BY <3>2, <4>1
      <4>3. PICK e \in Nat : e = Len(q)
        BY <1>1
      <4>4. n \in Nat /\ n >= 1 /\ n <= e
        BY <2>1, <4>3
      <4>5. m = (IF n + 1 <= e THEN e - (n + 1) + 1 ELSE 0)
        BY <4>2, <4>3
      <4>6. n + 1 <= e => e - (n + 1) + 1 = e - n
        BY <4>4
      <4>7. ~(n + 1 <= e) => e - n = 0
        BY <4>4
      <4>8. m = e - n
        BY <4>5, <4>6, <4>7
      <4> QED BY <4>1, <4>3, <4>8
    <3>4. \A i \in 1 .. Len(q) - n : b[i] = q[n + i]
      <4>1. ASSUME NEW i \in 1 .. Len(q) - n PROVE b[i] = q[n + i]
        <5>1. i \in 1 .. Len(q) - (n + 1) + 1 /\ (n + 1) + i - 1 = n + i
          BY <1>1, <2>1
        <5> QED BY <3>2, <5>1
      <4> QED BY <4>1
    <3> QED BY <3>2, <3>3, <3>4
  <2> HIDE DEF a, b
  <2>5. /\ w \in Seq(T) /\ Len(w) = Len(q) - 1
        /\ \A i \in 1 .. Len(q) - 1 : w[i] = IF i <= n - 1 THEN a[i] ELSE b[i - (n - 1)]
    <3>1. /\ w \in Seq(T) /\ Len(w) = Len(a) + Len(b)
          /\ \A i \in 1 .. Len(a) + Len(b) : w[i] = IF i <= Len(a) THEN a[i] ELSE b[i - Len(a)]
      <4>1. a \in Seq(T) /\ b \in Seq(T)
        BY <2>3, <2>4
      <4> QED BY ONLY <4>1, ConcatProperties
    <3>2. Len(a) = n - 1 /\ Len(b) = Len(q) - n
      BY <2>3, <2>4
    <3>3. PICK e \in Nat : e = Len(q)
      BY <1>1
    <3>4. (n - 1) + (e - n) = e - 1
      BY <2>1
    <3>5. Len(a) + Len(b) = Len(q) - 1
      BY <3>2, <3>3, <3>4
    <3> QED BY <3>1, <3>2, <3>5
  <2> HIDE DEF w
  <2>6. \A i \in 1 .. Len(q) - 1 : w[i] = IF i < n THEN q[i] ELSE q[i + 1]
    <3>1. ASSUME NEW i \in 1 .. Len(q) - 1, i < n PROVE w[i] = q[i]
      BY <1>1, <2>1, <2>3, <2>5, <3>1
    <3>2. ASSUME NEW i \in 1 .. Len(q) - 1, i >= n PROVE w[i] = q[i + 1]
      <4>1. i - (n - 1) \in 1 .. Len(q) - n /\ n + (i - (n - 1)) = i + 1 /\ ~(i <= n - 1)
        BY <1>1, <2>1, <3>2
      <4> QED BY <2>4, <2>5, <4>1
    <3> QED BY <1>1, <2>1, <3>1, <3>2
  <2>7. PICK v, e : v = w /\ e = Len(q)
    OBVIOUS
  <2>8. /\ e \in Nat /\ n \in 1 .. e /\ v \in Seq(T) /\ Len(v) = e - 1
        /\ \A i \in 1 .. e - 1 : v[i] = IF i < n THEN q[i] ELSE q[i + 1]
    BY <1>1, <2>1, <2>5, <2>6, <2>7
  <2>9. ASSUME NEW i \in 1 .. e - 1
        PROVE  \E k \in 1 .. e : v[i] = q[k] /\ k # n /\ k = IF i < n THEN i ELSE i + 1
    <3>1. CASE i < n
      BY <2>8, <3>1
    <3>2. CASE ~(i < n)
      <4>1. i + 1 \in 1 .. e /\ i + 1 # n /\ v[i] = q[i + 1]
        BY <2>8, <3>2
      <4> QED BY <4>1, <3>2
    <3> QED BY <3>1, <3>2
  <2>10. \A i \in 1 .. e - 1 : v[i] # t /\ \E k \in 1 .. e : v[i] = q[k]
    BY <2>1, <2>7, <2>8, <2>9
  <2>11. ASSUME NEW i \in 1 .. e - 1, NEW j \in 1 .. e - 1, v[i] = v[j] PROVE i = j
    <3>1. PICK k \in 1 .. e : v[i] = q[k] /\ k = IF i < n THEN i ELSE i + 1
      BY <2>9
    <3>2. PICK m \in 1 .. e : v[j] = q[m] /\ m = IF j < n THEN j ELSE j + 1
      BY <2>9
    <3>3. k = m
      BY <2>7, <2>11, <3>1, <3>2
    <3> QED BY <2>8, <3>1, <3>2, <3>3
  <2> QED BY <2>2, <2>7, <2>8, <2>10, <2>11
<1> QED BY <1>2, <1>3

\* A task that passes a step keeps the discipline when what is open of it changes
\* as the step says, and nothing else does.
LEMMA PassKeeps ==
  ASSUME NEW Order, GateInv(Order), NEW t \in GateTask, gateSteps[t] # <<>>, Pass(t),
         Open(t)' = After(Head(gateSteps[t]), Open(t)),
         \A u \in GateTask \ {t} : Open(u)' = Open(u)
  PROVE  /\ StepsAreSound(Order)'
         /\ gateSteps' \in [GateTask -> Seq(Step)]
         /\ gateSteps'[t] = Tail(gateSteps[t])
         /\ \A u \in GateTask \ {t} : gateSteps'[u] = gateSteps[u]
<1>1. gateSteps \in [GateTask -> Seq(Step)]
  BY DEF GateInv, GateTypeOK
<1>2. /\ Tail(gateSteps[t]) \in Seq(Step)
      /\ Disciplined(Tail(gateSteps[t]), After(Head(gateSteps[t]), Open(t)), Order)
  BY NextStep
<1>3. /\ gateSteps' \in [GateTask -> Seq(Step)]
      /\ gateSteps'[t] = Tail(gateSteps[t])
      /\ \A u \in GateTask \ {t} : gateSteps'[u] = gateSteps[u]
  BY <1>1, <1>2 DEF Pass
<1>4. ASSUME NEW u \in GateTask PROVE Disciplined(gateSteps'[u], Open(u)', Order)
  <2>1. CASE u = t
    BY <1>2, <1>3, <2>1
  <2>2. CASE u # t
    <3>1. Disciplined(gateSteps[u], Open(u), Order)
      BY DEF GateInv, StepsAreSound
    <3> QED BY <1>3, <2>2, <3>1
  <2> QED BY <2>1, <2>2
<1> QED BY <1>3, <1>4 DEF StepsAreSound

\* Who is not waiting is in no queue.
LEMMA NotInLine ==
  ASSUME NEW t, ~Waits(t), NEW g \in Gates, gateQueue[g] \in Seq(GateTask)
  PROVE  \A i \in 1 .. Len(gateQueue[g]) : gateQueue[g][i] # t
<1>1. DOMAIN gateQueue[g] = 1 .. Len(gateQueue[g])
  BY LenProperties
<1> QED BY <1>1 DEF Waits, ToSet

\* A gate that is free is entered: by whoever finds it so, or from the queue.
\* Rooms is everything but the queues.
LEMMA EnterKeeps ==
  ASSUME NEW Order, GateInv(Order), NEW t \in GateTask, NEW g,
         InLine(g, t), GateIsFree(g, Coming(t)), Enter(t, g)
  PROVE  /\ g \in Gates /\ HeldAlone' /\ WindowsAreGuarded' /\ IdleHasNothing'
         /\ StepsAreSound(Order)' /\ MixIsOrderly(Order)'
         /\ gateSteps' \in [GateTask -> Seq(Step)] /\ gateHolders' \in [Gates -> SUBSET GateTask]
         /\ gateShared' \in [Gates -> BOOLEAN]
         /\ \A u \in GateTask \ {t} : gateSteps'[u] = gateSteps[u]
<1> DEFINE s == Head(gateSteps[t])
<1>1. gateSteps[t] # <<>> /\ s.do \in {"take", "share"} /\ s.gate = g /\ Working(t)
  BY DEF InLine, Coming, Gate
<1>2. s \in Step /\ Allowed(s, Open(t), Order)
  BY <1>1, NextStep
<1>3. g \in Gates
  BY <1>1, <1>2 DEF Allowed
<1>4. /\ gateHolders \in [Gates -> SUBSET GateTask] /\ gateShared \in [Gates -> BOOLEAN]
      /\ gateUnsettled \subseteq GateTask /\ gateBased \subseteq GateTask
  BY DEF GateInv, GateTypeOK
<1>5. /\ gateHolders' = [gateHolders EXCEPT ![g] = @ \cup {t}]
      /\ gateShared' = [gateShared EXCEPT ![g] = Coming(t) = "share"]
      /\ Pass(t) /\ UNCHANGED <<gateMix, gateOp, gateUnsettled, gateBased, gateStarted>>
  BY DEF Enter
<1>6. /\ gateHolders'[g] = gateHolders[g] \cup {t}
      /\ \A h \in Gates \ {g} : gateHolders'[h] = gateHolders[h] /\ gateShared'[h] = gateShared[h]
      /\ gateHolders' \in [Gates -> SUBSET GateTask]
  BY <1>3, <1>4, <1>5
<1>7. gateShared'[g] = (s.do = "share") /\ gateShared' \in [Gates -> BOOLEAN]
  <2>1. PICK b \in BOOLEAN : b = (s.do = "share")
    OBVIOUS
  <2>2. gateShared' = [gateShared EXCEPT ![g] = b]
    BY <1>5, <2>1, Zenon DEF Coming
  <2>3. gateShared'[g] = b /\ gateShared' \in [Gates -> BOOLEAN]
    BY <1>3, <1>4, <2>2, Zenon
  <2> QED BY <2>1, <2>3, Zenon
<1>8. gateHolders[g] = {} \/ (gateShared[g] /\ s.do = "share")
  BY DEF GateIsFree, Coming
<1>9. ASSUME NEW u \in GateTask \ {t}
      PROVE  /\ \A h \in Gates : u \in gateHolders'[h] <=> u \in gateHolders[h]
             /\ \A h \in Gates : u \in gateHolders[h] => (gateShared'[h] <=> gateShared[h])
  BY <1>6, <1>7, <1>8
<1>10. \A u \in GateTask \ {t} : Open(u)' = Open(u)
  <2>1. ASSUME NEW u \in GateTask \ {t} PROVE Open(u)' = Open(u)
    <3>1. /\ OwnGates(u)' = OwnGates(u)
          /\ SharedGates(u)' = SharedGates(u)
      BY <1>9 DEF OwnGates, SharedGates
    <3>2. OwnWindows(u)' = OwnWindows(u)
      BY <1>5 DEF OwnWindows
    <3> QED BY <3>1, <3>2 DEF Open
  <2> QED BY <2>1
<1>11. OwnWindows(t)' = OwnWindows(t)
  BY <1>5 DEF OwnWindows
<1>12. Open(t)' = After(s, Open(t))
  <2>2. CASE s.do = "take"
    <3>1. OwnGates(t)' = OwnGates(t) \cup {g} /\ SharedGates(t)' = SharedGates(t)
      BY <1>3, <1>6, <1>7, <1>8, <2>2 DEF OwnGates, SharedGates
    <3>2. PICK x \in Step : x = s /\ x.gate = g
      BY <1>1, <1>2
    <3>3. After(x, Open(t)) = Context(OwnGates(t) \cup {g}, SharedGates(t), OwnWindows(t))
      BY <1>1, <2>2, <3>2, AfterOpen
    <3> QED BY <1>11, <3>1, <3>2, <3>3 DEF Open
  <2>3. CASE s.do = "share"
    <3>1. OwnGates(t)' = OwnGates(t) /\ SharedGates(t)' = SharedGates(t) \cup {g}
      BY <1>3, <1>6, <1>7, <1>8, <2>3 DEF OwnGates, SharedGates
    <3>2. PICK x \in Step : x = s /\ x.gate = g
      BY <1>1, <1>2
    <3>3. After(x, Open(t)) = Context(OwnGates(t), SharedGates(t) \cup {g}, OwnWindows(t))
      BY <1>1, <2>3, <3>2, AfterOpen
    <3> QED BY <1>11, <3>1, <3>2, <3>3 DEF Open
  <2> QED BY <1>1, <2>2, <2>3
<1>13. /\ StepsAreSound(Order)' /\ gateSteps' \in [GateTask -> Seq(Step)]
       /\ \A u \in GateTask \ {t} : gateSteps'[u] = gateSteps[u]
  BY <1>1, <1>5, <1>10, <1>12, PassKeeps
<1>14. HeldAlone'
  <2>1. HeldAlone
    BY DEF GateInv
  <2>2. ASSUME NEW h \in Gates, ~gateShared'[h] PROVE \A u, v \in gateHolders'[h] : u = v
    <3>1. CASE h = g
      BY <1>6, <1>7, <1>8, <2>2, <3>1
    <3>2. CASE h # g
      BY <1>6, <2>1, <2>2, <3>2 DEF HeldAlone
    <3> QED BY <3>1, <3>2
  <2> QED BY <2>2 DEF HeldAlone
<1>15. WindowsAreGuarded'
  <2>1. WindowsAreGuarded
    BY DEF GateInv
  <2>2. ASSUME NEW h \in Gates, NEW u, u \in gateHolders[h], ~gateShared[h]
        PROVE  u \in gateHolders'[h] /\ ~gateShared'[h]
    BY <1>6, <1>7, <1>8, <2>2
  <2>3. {"publication_checkpoint", "restore"} \subseteq Gates
    BY DEF Gates
  <2>4. \A u \in gateUnsettled' : u \in gateUnsettled
    BY <1>5
  <2>5. \A u \in gateBased' : u \in gateBased
    BY <1>5
  <2> QED BY <2>1, <2>2, <2>3, <2>4, <2>5 DEF WindowsAreGuarded
<1>16. IdleHasNothing'
  <2>1. IdleHasNothing
    BY DEF GateInv
  <2>2. \A u : Working(u)' <=> Working(u)
    BY <1>5 DEF Working
  <2> QED BY <1>1, <1>5, <1>9, <1>13, <2>1, <2>2 DEF IdleHasNothing
<1>17. MixIsOrderly(Order)'
  BY <1>5 DEF GateInv, MixIsOrderly
<1> QED BY <1>3, <1>6, <1>7, <1>13, <1>14, <1>15, <1>16, <1>17

\* Who is in line stays so while it is left alone.
LEMMA LineKept ==
  ASSUME NEW g, NEW u, InLine(g, u), gateOp'[u] = gateOp[u], gateSteps'[u] = gateSteps[u]
  PROVE  InLine(g, u)'
BY DEF InLine, Working, Coming, Gate

\* The queues of a task that is in none are none of its business.
LEMMA QueuesKept ==
  ASSUME NEW Order, GateInv(Order), NEW t \in GateTask, ~Waits(t), UNCHANGED gateQueue,
         \A u \in GateTask \ {t} : gateSteps'[u] = gateSteps[u] /\ gateOp'[u] = gateOp[u]
  PROVE  QueuesAreSound'
<1>1. gateQueue \in [Gates -> Seq(GateTask)] /\ QueuesAreSound
  BY DEF GateInv, GateTypeOK
<1>2. ASSUME NEW h \in Gates, NEW i \in 1 .. Len(gateQueue[h]) PROVE InLine(h, gateQueue[h][i])'
  <2>1. gateQueue[h][i] \in GateTask /\ gateQueue[h][i] # t /\ InLine(h, gateQueue[h][i])
    BY <1>1, NotInLine, ElementOfSeq DEF QueuesAreSound
  <2>2. PICK u \in GateTask \ {t} : u = gateQueue[h][i]
    BY <2>1
  <2>3. InLine(h, u)'
    BY <2>1, <2>2, LineKept
  <2>4. gateQueue'[h][i] = u
    BY <2>2
  <2> QED BY <2>3, <2>4 DEF InLine, Working, Coming, Gate
<1> QED BY <1>1, <1>2 DEF QueuesAreSound

\* A free gate nobody waits for is taken at once.
LEMMA GateTakeKeeps ==
  ASSUME NEW Order, GateInv(Order), NEW t \in GateTask, GateTake(t)
  PROVE  GateInv(Order)'
<1> DEFINE g == Gate(t)
<1>1. InLine(g, t) /\ GateIsFree(g, Coming(t)) /\ Enter(t, g) /\ ~Waits(t) /\ UNCHANGED gateQueue
  BY DEF GateTake, AtStep, InLine
<1>2. /\ g \in Gates /\ HeldAlone' /\ WindowsAreGuarded' /\ IdleHasNothing'
      /\ StepsAreSound(Order)' /\ MixIsOrderly(Order)'
      /\ gateSteps' \in [GateTask -> Seq(Step)] /\ gateHolders' \in [Gates -> SUBSET GateTask]
      /\ gateShared' \in [Gates -> BOOLEAN]
      /\ \A u \in GateTask \ {t} : gateSteps'[u] = gateSteps[u]
  BY <1>1, EnterKeeps
<1>3. UNCHANGED <<gateMix, gateOp, gateUnsettled, gateBased, gateStarted>>
  BY <1>1 DEF Enter
<1>4. GateTypeOK'
  BY <1>1, <1>2, <1>3 DEF GateInv, GateTypeOK
<1>5. QueuesAreSound'
  BY <1>1, <1>2, <1>3, QueuesKept
<1> QED BY <1>2, <1>4, <1>5 DEF GateInv

\* A free gate is handed to the first in its queue.
LEMMA GateGrantKeeps ==
  ASSUME NEW Order, GateInv(Order), NEW g \in Gates, GateGrant(g)
  PROVE  GateInv(Order)'
<1>1. PICK q \in Seq(GateTask) : q = gateQueue[g]
  BY DEF GateInv, GateTypeOK
<1>2. /\ q # <<>> /\ Head(q) = q[1] /\ Head(q) \in GateTask /\ Tail(q) \in Seq(GateTask)
      /\ Len(q) \in Nat /\ 1 \in 1 .. Len(q) /\ Len(Tail(q)) = Len(q) - 1
      /\ \A i \in 1 .. Len(q) - 1 : Tail(q)[i] = q[i + 1]
  <2>1. q # <<>>
    BY <1>1 DEF GateGrant
  <2> QED BY <2>1, EmptySeq, LenProperties, HeadTailProperties
<1>3. PICK t \in GateTask : t = Head(q)
  BY <1>2
<1>4. InLine(g, t)
  BY <1>1, <1>2, <1>3 DEF GateInv, QueuesAreSound
<1>5. GateIsFree(g, Coming(t)) /\ Enter(t, g) /\ gateQueue' = [gateQueue EXCEPT ![g] = Tail(@)]
  BY <1>1, <1>3 DEF GateGrant
<1>6. /\ HeldAlone' /\ WindowsAreGuarded' /\ IdleHasNothing'
      /\ StepsAreSound(Order)' /\ MixIsOrderly(Order)'
      /\ gateSteps' \in [GateTask -> Seq(Step)] /\ gateHolders' \in [Gates -> SUBSET GateTask]
      /\ gateShared' \in [Gates -> BOOLEAN]
      /\ \A u \in GateTask \ {t} : gateSteps'[u] = gateSteps[u]
  BY <1>4, <1>5, EnterKeeps
<1>7. UNCHANGED <<gateMix, gateOp, gateUnsettled, gateBased, gateStarted>>
  BY <1>5 DEF Enter
<1>8. gateQueue \in [Gates -> Seq(GateTask)] /\ QueuesAreSound
  BY DEF GateInv, GateTypeOK
<1>9. /\ gateQueue' \in [Gates -> Seq(GateTask)] /\ gateQueue'[g] = Tail(q)
      /\ \A h \in Gates \ {g} : gateQueue'[h] = gateQueue[h]
  BY <1>1, <1>2, <1>5, <1>8
<1>10. GateTypeOK'
  BY <1>6, <1>7, <1>9 DEF GateInv, GateTypeOK
<1>11. ASSUME NEW h \in Gates, NEW i \in 1 .. Len(gateQueue'[h])
       PROVE  \E u \in GateTask \ {t} : u = gateQueue'[h][i] /\ InLine(h, u)
  <2>1. CASE h = g
    <3>1. i + 1 \in 1 .. Len(q) /\ gateQueue'[h][i] = q[i + 1] /\ i + 1 # 1
      BY <1>2, <1>9, <1>11, <2>1
    <3>2. q[i + 1] \in GateTask /\ q[i + 1] # t /\ InLine(g, q[i + 1])
      BY <1>1, <1>2, <1>3, <1>8, <3>1, ElementOfSeq DEF QueuesAreSound
    <3> QED BY <2>1, <3>1, <3>2
  <2>2. CASE h # g
    <3>1. i \in 1 .. Len(gateQueue[h]) /\ gateQueue'[h][i] = gateQueue[h][i]
      BY <1>9, <1>11, <2>2
    <3>2. gateQueue[h][i] \in GateTask /\ InLine(h, gateQueue[h][i])
      BY <1>8, <3>1, ElementOfSeq DEF QueuesAreSound
    <3>3. gateQueue[h][i] # t
      BY <1>4, <2>2, <3>2 DEF InLine
    <3> QED BY <3>1, <3>2, <3>3
  <2> QED BY <2>1, <2>2
<1>12. ASSUME NEW h \in Gates, NEW i \in 1 .. Len(gateQueue'[h]) PROVE InLine(h, gateQueue[h][i])'
  <2>1. PICK u \in GateTask \ {t} : u = gateQueue'[h][i] /\ InLine(h, u)
    BY <1>11
  <2>2. gateSteps'[u] = gateSteps[u] /\ gateOp'[u] = gateOp[u]
    BY <1>6, <1>7
  <2>3. InLine(h, u)'
    BY <2>1, <2>2, LineKept
  <2> QED BY <2>1, <2>3 DEF InLine, Working, Coming, Gate
<1>13. ASSUME NEW h \in Gates, NEW i \in 1 .. Len(gateQueue'[h]), NEW j \in 1 .. Len(gateQueue'[h]),
              gateQueue'[h][i] = gateQueue'[h][j]
       PROVE  i = j
  <2>1. CASE h = g
    <3>1. /\ i + 1 \in 1 .. Len(q) /\ gateQueue'[h][i] = q[i + 1]
          /\ j + 1 \in 1 .. Len(q) /\ gateQueue'[h][j] = q[j + 1]
      <4>1. gateQueue'[h] = Tail(q) /\ Len(Tail(q)) = Len(q) - 1 /\ Len(q) \in Nat
            /\ \A k \in 1 .. Len(q) - 1 : Tail(q)[k] = q[k + 1]
        BY <1>2, <1>9, <2>1
      <4>2. i \in 1 .. Len(q) - 1 /\ j \in 1 .. Len(q) - 1
        BY <1>13, <4>1
      <4> QED BY <4>1, <4>2
    <3>2. i + 1 = j + 1
      BY <1>1, <1>8, <1>13, <3>1 DEF QueuesAreSound
    <3> QED BY <1>2, <3>1, <3>2
  <2>2. CASE h # g
    BY <1>8, <1>9, <1>13, <2>2 DEF QueuesAreSound
  <2> QED BY <2>1, <2>2
<1>14. QueuesAreSound'
  BY <1>12, <1>13 DEF QueuesAreSound
<1> QED BY <1>6, <1>10, <1>14 DEF GateInv

\* Otherwise the task joins the end of the queue.
LEMMA GateWaitKeeps ==
  ASSUME NEW Order, GateInv(Order), NEW t \in GateTask, GateWait(t)
  PROVE  GateInv(Order)'
<1>1. /\ ~Waits(t)
      /\ gateQueue' = [gateQueue EXCEPT ![Gate(t)] = Append(@, t)]
      /\ UNCHANGED <<gateMix, gateOp, gateSteps, gateHolders, gateShared, gateUnsettled, gateBased, gateStarted>>
  BY DEF GateWait, AtStep
<1>2. PICK g : g = Gate(t)
  OBVIOUS
<1>3. InLine(g, t)
  BY <1>2 DEF GateWait, AtStep, InLine
<1>4. g \in Gates
  <2>1. Allowed(Head(gateSteps[t]), Open(t), Order)
    BY <1>3, NextStep DEF InLine
  <2> QED BY <1>2, <1>3, <2>1 DEF Allowed, InLine, Coming, Gate
<1>5. gateQueue \in [Gates -> Seq(GateTask)] /\ QueuesAreSound
  BY DEF GateInv, GateTypeOK
<1>6. PICK q \in Seq(GateTask) : q = gateQueue[g]
  BY <1>4, <1>5
<1>7. /\ Append(q, t) \in Seq(GateTask) /\ Len(q) \in Nat /\ Len(Append(q, t)) = Len(q) + 1
      /\ Append(q, t)[Len(q) + 1] = t /\ \A i \in 1 .. Len(q) : Append(q, t)[i] = q[i]
  BY AppendProperties, LenProperties
<1>8. /\ gateQueue' \in [Gates -> Seq(GateTask)] /\ gateQueue'[g] = Append(q, t)
      /\ \A h \in Gates \ {g} : gateQueue'[h] = gateQueue[h]
  BY <1>1, <1>2, <1>4, <1>5, <1>6, <1>7
<1>9. \A i \in 1 .. Len(q) : q[i] # t
  BY <1>1, <1>4, <1>6, NotInLine
<1>10. /\ GateTypeOK' /\ HeldAlone' /\ WindowsAreGuarded' /\ IdleHasNothing'
       /\ StepsAreSound(Order)' /\ MixIsOrderly(Order)'
  <2>1. GateTypeOK'
    BY <1>1, <1>8 DEF GateInv, GateTypeOK
  <2>2. HeldAlone' /\ WindowsAreGuarded' /\ IdleHasNothing'
    BY <1>1 DEF GateInv, HeldAlone, WindowsAreGuarded, IdleHasNothing, Working
  <2>3. \A u : Open(u)' = Open(u)
    BY <1>1 DEF Open, OwnGates, SharedGates, OwnWindows
  <2>4. StepsAreSound(Order)' /\ MixIsOrderly(Order)'
    BY <1>1, <2>3 DEF GateInv, StepsAreSound, MixIsOrderly
  <2> QED BY <2>1, <2>2, <2>4
<1>11. ASSUME NEW h \in Gates, NEW i \in 1 .. Len(gateQueue'[h]) PROVE InLine(h, gateQueue[h][i])'
  <2>1. InLine(h, gateQueue'[h][i])
    <3>1. CASE h = g /\ i = Len(q) + 1
      BY <1>3, <1>7, <1>8, <3>1
    <3>2. CASE h = g /\ i # Len(q) + 1
      <4>1. i \in 1 .. Len(q) /\ gateQueue'[h][i] = q[i]
        BY <1>7, <1>8, <1>11, <3>2
      <4> QED BY <1>4, <1>5, <1>6, <3>2, <4>1 DEF QueuesAreSound
    <3>3. CASE h # g
      <4>1. i \in 1 .. Len(gateQueue[h]) /\ gateQueue'[h][i] = gateQueue[h][i]
        BY <1>8, <1>11, <3>3
      <4> QED BY <1>5, <4>1 DEF QueuesAreSound
    <3> QED BY <3>1, <3>2, <3>3
  <2> QED BY <1>1, <2>1 DEF InLine, Working, Coming, Gate
<1>12. ASSUME NEW h \in Gates, NEW i \in 1 .. Len(gateQueue'[h]), NEW j \in 1 .. Len(gateQueue'[h]),
              gateQueue'[h][i] = gateQueue'[h][j]
       PROVE  i = j
  <2>1. CASE h = g
    <3>1. i \in 1 .. Len(q) + 1 /\ j \in 1 .. Len(q) + 1 /\ Append(q, t)[i] = Append(q, t)[j]
      BY <1>7, <1>8, <1>12, <2>1
    <3>2. CASE i = Len(q) + 1 /\ j # Len(q) + 1
      <4>1. j \in 1 .. Len(q)
        BY <1>7, <3>1, <3>2
      <4> QED BY <1>7, <1>9, <3>1, <3>2, <4>1
    <3>3. CASE i # Len(q) + 1 /\ j = Len(q) + 1
      <4>1. i \in 1 .. Len(q)
        BY <1>7, <3>1, <3>3
      <4> QED BY <1>7, <1>9, <3>1, <3>3, <4>1
    <3>4. CASE i # Len(q) + 1 /\ j # Len(q) + 1
      <4>1. i \in 1 .. Len(q) /\ j \in 1 .. Len(q)
        BY <1>7, <3>1, <3>4
      <4> QED BY <1>4, <1>5, <1>6, <1>7, <3>1, <4>1 DEF QueuesAreSound
    <3> QED BY <3>2, <3>3, <3>4
  <2>2. CASE h # g
    BY <1>5, <1>8, <1>12, <2>2 DEF QueuesAreSound
  <2> QED BY <2>1, <2>2
<1>13. QueuesAreSound'
  BY <1>11, <1>12 DEF QueuesAreSound
<1> QED BY <1>10, <1>13 DEF GateInv

\* A guard's scope ends.
LEMMA GateDropKeeps ==
  ASSUME NEW Order, GateInv(Order), NEW t \in GateTask, GateDrop(t)
  PROVE  GateInv(Order)'
<1> DEFINE s == Head(gateSteps[t])
<1>1. /\ gateSteps[t] # <<>> /\ s.do = "give" /\ Working(t) /\ ~Waits(t) /\ Pass(t)
      /\ gateHolders' = [gateHolders EXCEPT ![Gate(t)] = @ \ {t}]
      /\ UNCHANGED <<gateMix, gateOp, gateShared, gateQueue, gateUnsettled, gateBased, gateStarted>>
  BY DEF GateDrop, AtStep, Coming
<1>2. s \in Step /\ Allowed(s, Open(t), Order)
  BY <1>1, NextStep
<1>3. PICK g \in Gates : g = s.gate
  BY <1>1, <1>2 DEF Allowed
<1>4. gateHolders \in [Gates -> SUBSET GateTask]
  BY DEF GateInv, GateTypeOK
<1>5. /\ gateHolders'[g] = gateHolders[g] \ {t} /\ gateHolders' \in [Gates -> SUBSET GateTask]
      /\ \A h \in Gates \ {g} : gateHolders'[h] = gateHolders[h]
  BY <1>1, <1>3, <1>4 DEF Gate
<1>6. \A u : OwnWindows(u)' = OwnWindows(u)
  BY <1>1 DEF OwnWindows
<1>7. \A u \in GateTask \ {t} : Open(u)' = Open(u)
  <2>1. ASSUME NEW u \in GateTask \ {t} PROVE Open(u)' = Open(u)
    <3>1. \A h \in Gates : u \in gateHolders'[h] <=> u \in gateHolders[h]
      BY <1>5
    <3>2. OwnGates(u)' = OwnGates(u) /\ SharedGates(u)' = SharedGates(u)
      BY <1>1, <3>1 DEF OwnGates, SharedGates
    <3> QED BY <1>6, <3>2 DEF Open
  <2> QED BY <2>1
<1>8. Open(t)' = After(s, Open(t))
  <2>1. OwnGates(t)' = OwnGates(t) \ {g} /\ SharedGates(t)' = SharedGates(t) \ {g}
    BY <1>1, <1>5 DEF OwnGates, SharedGates
  <2>2. PICK x \in Step : x = s /\ x.gate = g
    BY <1>2, <1>3
  <2>3. After(x, Open(t)) = Context(OwnGates(t) \ {g}, SharedGates(t) \ {g}, OwnWindows(t))
    BY <1>1, <2>2, AfterOpen
  <2> QED BY <1>6, <2>1, <2>2, <2>3 DEF Open
<1>9. /\ StepsAreSound(Order)' /\ gateSteps' \in [GateTask -> Seq(Step)]
      /\ \A u \in GateTask \ {t} : gateSteps'[u] = gateSteps[u]
  BY <1>1, <1>7, <1>8, PassKeeps
<1>10. GateTypeOK' /\ MixIsOrderly(Order)'
  BY <1>1, <1>5, <1>9 DEF GateInv, GateTypeOK, MixIsOrderly
<1>11. HeldAlone'
  <2>1. HeldAlone /\ \A h \in Gates : gateHolders'[h] \subseteq gateHolders[h]
    BY <1>5 DEF GateInv
  <2> QED BY <1>1, <2>1 DEF HeldAlone
<1>12. WindowsAreGuarded'
  <2>1. WindowsAreGuarded /\ {"publication_checkpoint", "restore"} \subseteq Gates
    BY DEF GateInv, Gates
  <2>2. /\ g = "publication_checkpoint" => TryStep \notin Open(t)
        /\ g = "restore" => BaseStep \notin Open(t)
    BY <1>1, <1>2, <1>3 DEF Allowed
  <2>3. /\ t \in gateUnsettled => TryStep \in Open(t)
        /\ t \in gateBased => BaseStep \in Open(t)
    BY DEF Open, Context, OwnWindows
  <2>4. /\ g = "publication_checkpoint" => t \notin gateUnsettled
        /\ g = "restore" => t \notin gateBased
    BY <2>2, <2>3
  <2>5. ASSUME NEW u \in gateUnsettled PROVE u \in gateHolders'["publication_checkpoint"]
    BY <1>5, <2>1, <2>4 DEF WindowsAreGuarded
  <2>6. ASSUME NEW u \in gateBased PROVE u \in gateHolders'["restore"]
    BY <1>5, <2>1, <2>4 DEF WindowsAreGuarded
  <2> QED BY <1>1, <2>1, <2>5, <2>6 DEF WindowsAreGuarded
<1>13. IdleHasNothing'
  <2>1. IdleHasNothing /\ \A u : Working(u)' <=> Working(u)
    BY <1>1 DEF GateInv, Working
  <2>2. \A u \in GateTask \ {t} : \A h \in Gates : u \in gateHolders'[h] <=> u \in gateHolders[h]
    BY <1>5
  <2> QED BY <1>1, <1>9, <2>1, <2>2 DEF IdleHasNothing
<1>14. QueuesAreSound'
  BY <1>1, <1>9, QueuesKept
<1> QED BY <1>9, <1>10, <1>11, <1>12, <1>13, <1>14 DEF GateInv

\* A step of the work on the document.
LEMMA GateWorkKeeps ==
  ASSUME NEW Order, GateInv(Order), NEW t \in GateTask, GateWork(t)
  PROVE  GateInv(Order)'
<1> DEFINE s == Head(gateSteps[t])
<1>1. /\ gateSteps[t] # <<>> /\ s.do \in {"base", "edit", "try", "snap", "settle"} /\ Working(t)
      /\ ~Waits(t) /\ Pass(t)
      /\ UNCHANGED <<gateMix, gateOp, gateHolders, gateShared, gateQueue, gateStarted>>
  BY DEF GateWork, AtStep, Coming
<1>2. s \in Step /\ Allowed(s, Open(t), Order)
  BY <1>1, NextStep
<1>3. /\ s.do = "base" => gateBased' = gateBased \cup {t}
      /\ s.do = "settle" => gateBased' = gateBased \ {t}
      /\ s.do \notin {"base", "settle"} => gateBased' = gateBased
  BY DEF GateWork, Coming
<1>4. /\ s.do = "try" => gateUnsettled' = gateUnsettled \cup {t}
      /\ s.do = "settle" => gateUnsettled' = gateUnsettled \ {t}
      /\ s.do \notin {"try", "settle"} => gateUnsettled' = gateUnsettled
  BY DEF GateWork, Coming
<1>5. gateUnsettled \subseteq GateTask /\ gateBased \subseteq GateTask
  BY DEF GateInv, GateTypeOK
<1>6. \A u : OwnGates(u)' = OwnGates(u) /\ SharedGates(u)' = SharedGates(u)
  BY <1>1 DEF OwnGates, SharedGates
<1>7. \A u \in GateTask \ {t} : /\ u \in gateBased' <=> u \in gateBased
                                /\ u \in gateUnsettled' <=> u \in gateUnsettled
  BY <1>3, <1>4
<1>8. \A u \in GateTask \ {t} : Open(u)' = Open(u)
  <2>1. ASSUME NEW u \in GateTask \ {t} PROVE Open(u)' = Open(u)
    <3>1. OwnWindows(u)' = OwnWindows(u)
      BY <1>7 DEF OwnWindows
    <3> QED BY <1>6, <3>1 DEF Open
  <2> QED BY <2>1
<1>9. Open(t)' = After(s, Open(t))
  <2>1. PICK x \in Step : x = s
    BY <1>2
  <2>2. PICK h : h = x.gate
    OBVIOUS
  <2>3. CASE s.do \in {"edit", "snap"}
    <3>1. OwnWindows(t)' = OwnWindows(t)
      BY <1>3, <1>4, <2>3 DEF OwnWindows
    <3>2. After(x, Open(t)) = Open(t)
      BY <2>1, <2>2, <2>3, AfterOpen
    <3> QED BY <1>6, <2>1, <3>1, <3>2 DEF Open
  <2>4. CASE s.do = "base"
    <3>1. OwnWindows(t)' = OwnWindows(t) \cup {BaseStep}
      BY <1>3, <1>4, <2>4 DEF OwnWindows
    <3>2. x = BaseStep /\ x \in Windows
      BY <1>2, <2>1, <2>4 DEF Allowed, Windows
    <3>3. After(x, Open(t)) = Context(OwnGates(t), SharedGates(t), OwnWindows(t) \cup {x})
      BY <2>2, <3>2, AfterOpen
    <3> QED BY <1>6, <2>1, <3>1, <3>2, <3>3 DEF Open
  <2>5. CASE s.do = "try"
    <3>1. OwnWindows(t)' = OwnWindows(t) \cup {TryStep}
      BY <1>3, <1>4, <2>5 DEF OwnWindows
    <3>2. x = TryStep /\ x \in Windows
      BY <1>2, <2>1, <2>5 DEF Allowed, Windows
    <3>3. After(x, Open(t)) = Context(OwnGates(t), SharedGates(t), OwnWindows(t) \cup {x})
      BY <2>2, <3>2, AfterOpen
    <3> QED BY <1>6, <2>1, <3>1, <3>2, <3>3 DEF Open
  <2>6. CASE s.do = "settle"
    <3>1. OwnWindows(t)' = {}
      BY <1>3, <1>4, <2>6 DEF OwnWindows
    <3>2. After(x, Open(t)) = Context(OwnGates(t), SharedGates(t), {})
      BY <2>1, <2>2, <2>6, AfterOpen
    <3> QED BY <1>6, <2>1, <3>1, <3>2 DEF Open
  <2> QED BY <1>1, <2>3, <2>4, <2>5, <2>6
<1>10. /\ StepsAreSound(Order)' /\ gateSteps' \in [GateTask -> Seq(Step)]
       /\ \A u \in GateTask \ {t} : gateSteps'[u] = gateSteps[u]
  BY <1>1, <1>8, <1>9, PassKeeps
<1>11. gateBased' \subseteq GateTask /\ gateUnsettled' \subseteq GateTask
  BY <1>1, <1>3, <1>4, <1>5
<1>12. GateTypeOK' /\ MixIsOrderly(Order)' /\ HeldAlone'
  BY <1>1, <1>10, <1>11 DEF GateInv, GateTypeOK, MixIsOrderly, HeldAlone
<1>13. WindowsAreGuarded'
  <2>1. WindowsAreGuarded
    BY DEF GateInv
  <2>2. /\ s.do = "try" => Taken("publication_checkpoint") \in Open(t)
        /\ s.do = "base" => Taken("restore") \in Open(t)
    BY <1>2 DEF Allowed
  <2>3. \A h : Taken(h) \in Open(t) => h \in OwnGates(t)
    BY OpenIsContext, InContext DEF Open
  <2>4. s.do = "try" => t \in gateHolders["publication_checkpoint"] /\ ~gateShared["publication_checkpoint"]
    BY <2>2, <2>3 DEF OwnGates
  <2>5. s.do = "base" => t \in gateHolders["restore"] /\ ~gateShared["restore"]
    BY <2>2, <2>3 DEF OwnGates
  <2>6. \A u \in gateUnsettled' : u \in gateUnsettled \/ (u = t /\ s.do = "try")
    BY <1>1, <1>4
  <2>7. \A u \in gateBased' : u \in gateBased \/ (u = t /\ s.do = "base")
    BY <1>1, <1>3
  <2> QED BY <1>1, <2>1, <2>4, <2>5, <2>6, <2>7 DEF WindowsAreGuarded
<1>14. IdleHasNothing'
  <2>1. IdleHasNothing /\ \A u : Working(u)' <=> Working(u)
    BY <1>1 DEF GateInv, Working
  <2> QED BY <1>1, <1>7, <1>10, <2>1 DEF IdleHasNothing
<1>15. QueuesAreSound'
  BY <1>1, <1>10, QueuesKept
<1> QED BY <1>10, <1>12, <1>13, <1>14, <1>15 DEF GateInv

\* An operation that begins has nothing open, and its list runs from there.
LEMMA GateBeginKeeps ==
  ASSUME NEW Order, GateInv(Order), NEW t \in GateTask, NEW op \in gateMix, GateBegin(t, op)
  PROVE  GateInv(Order)'
<1>1. /\ ~Working(t)
      /\ gateOp' = [gateOp EXCEPT ![t] = op]
      /\ gateSteps' = [gateSteps EXCEPT ![t] = GateSteps[op]]
      /\ UNCHANGED <<gateMix, gateHolders, gateShared, gateQueue, gateUnsettled, gateBased>>
  BY DEF GateBegin
<1>2. op \in GateOps /\ Orderly(GateSteps[op], Order)
  BY GateAssumption DEF GateInv, GateTypeOK, MixIsOrderly
<1>3. GateTypeOK
  BY DEF GateInv
<1>4. /\ gateSteps' \in [GateTask -> Seq(Step)] /\ gateSteps'[t] = GateSteps[op]
      /\ \A u \in GateTask \ {t} : gateSteps'[u] = gateSteps[u]
  BY <1>1, <1>2, <1>3 DEF GateTypeOK, Orderly
<1>5. /\ gateOp' \in [GateTask -> GateOps \cup {GateIdle}] /\ gateOp'[t] = op
      /\ \A u \in GateTask \ {t} : gateOp'[u] = gateOp[u]
  BY <1>1, <1>2, <1>3 DEF GateTypeOK
<1>6. GateTypeOK' /\ MixIsOrderly(Order)' /\ HeldAlone' /\ WindowsAreGuarded'
  BY <1>1, <1>3, <1>4, <1>5 DEF GateInv, GateTypeOK, MixIsOrderly, HeldAlone, WindowsAreGuarded
<1>7. \A u : Open(u)' = Open(u)
  BY <1>1 DEF Open, OwnGates, SharedGates, OwnWindows
<1>8. Open(t) = {}
  <2>1. OwnGates(t) = {} /\ SharedGates(t) = {} /\ OwnWindows(t) = {}
    BY <1>1 DEF GateInv, IdleHasNothing, OwnGates, SharedGates, OwnWindows
  <2> QED BY <2>1 DEF Open, Context
<1>9. StepsAreSound(Order)'
  <2>1. ASSUME NEW u \in GateTask PROVE Disciplined(gateSteps'[u], Open(u)', Order)
    <3>1. CASE u = t
      BY <1>2, <1>4, <1>7, <1>8, <3>1 DEF Orderly
    <3>2. CASE u # t
      <4>1. Disciplined(gateSteps[u], Open(u), Order)
        BY DEF GateInv, StepsAreSound
      <4> QED BY <1>4, <1>7, <3>2, <4>1
    <3> QED BY <3>1, <3>2
  <2> QED BY <2>1 DEF StepsAreSound
<1>10. IdleHasNothing'
  <2>1. IdleHasNothing
    BY DEF GateInv
  <2>2. op # GateIdle
    BY <1>2, GateAssumption
  <2>3. ASSUME NEW u \in GateTask, ~Working(u)' PROVE u # t /\ ~Working(u)
    BY <1>5, <2>2, <2>3 DEF Working
  <2> QED BY <1>1, <1>4, <2>1, <2>3 DEF IdleHasNothing
<1>11. QueuesAreSound'
  <2>1. ~Waits(t)
    <3>1. ASSUME NEW g \in Gates PROVE t \notin ToSet(gateQueue[g])
      <4>1. DOMAIN gateQueue[g] = 1 .. Len(gateQueue[g])
        BY <1>3, LenProperties DEF GateTypeOK
      <4>2. \A i \in 1 .. Len(gateQueue[g]) : gateQueue[g][i] # t
        BY <1>1 DEF GateInv, QueuesAreSound, InLine
      <4> QED BY <4>1, <4>2 DEF ToSet
    <3> QED BY <3>1 DEF Waits
  <2> QED BY <1>1, <1>4, <1>5, <2>1, QueuesKept
<1> QED BY <1>6, <1>9, <1>10, <1>11 DEF GateInv

\* An operation that returns or is dropped gives everything back.
LEMMA LeaveKeeps ==
  ASSUME NEW Order, GateInv(Order), NEW t \in GateTask, Leave(t)
  PROVE  GateInv(Order)'
<1>1. /\ gateOp' = [gateOp EXCEPT ![t] = GateIdle]
      /\ gateSteps' = [gateSteps EXCEPT ![t] = <<>>]
      /\ gateHolders' = [g \in Gates |-> gateHolders[g] \ {t}]
      /\ gateQueue' = [g \in Gates |-> Withdrawn(gateQueue[g], t)]
      /\ gateUnsettled' = gateUnsettled \ {t} /\ gateBased' = gateBased \ {t}
      /\ UNCHANGED <<gateMix, gateShared, gateStarted>>
  BY DEF Leave
<1>2. GateTypeOK
  BY DEF GateInv
<1>3. /\ gateSteps' \in [GateTask -> Seq(Step)] /\ gateSteps'[t] = <<>>
      /\ \A u \in GateTask \ {t} : gateSteps'[u] = gateSteps[u]
  <2>1. <<>> \in Seq(Step)
    BY EmptySeq
  <2> QED BY <1>1, <1>2, <2>1 DEF GateTypeOK
<1>4. /\ gateOp' \in [GateTask -> GateOps \cup {GateIdle}] /\ gateOp'[t] = GateIdle
      /\ \A u \in GateTask \ {t} : gateOp'[u] = gateOp[u]
  BY <1>1, <1>2 DEF GateTypeOK
<1>5. /\ gateHolders' \in [Gates -> SUBSET GateTask]
      /\ \A g \in Gates : gateHolders'[g] = gateHolders[g] \ {t}
  BY <1>1, <1>2 DEF GateTypeOK
<1>6. ASSUME NEW g \in Gates
      PROVE  /\ gateQueue'[g] \in Seq(GateTask)
             /\ \A i \in 1 .. Len(gateQueue'[g]) :
                  /\ gateQueue'[g][i] # t
                  /\ \E j \in 1 .. Len(gateQueue[g]) : gateQueue'[g][i] = gateQueue[g][j]
             /\ \A i, j \in 1 .. Len(gateQueue'[g]) : gateQueue'[g][i] = gateQueue'[g][j] => i = j
  <2>1. PICK q \in Seq(GateTask) : q = gateQueue[g]
    BY <1>2 DEF GateTypeOK
  <2>2. \A i, j \in 1 .. Len(q) : q[i] = q[j] => i = j
    BY <2>1 DEF GateInv, QueuesAreSound
  <2>3. PICK w : w = Withdrawn(q, t)
    OBVIOUS
  <2>4. /\ w \in Seq(GateTask)
        /\ \A i \in 1 .. Len(w) : w[i] # t /\ \E j \in 1 .. Len(q) : w[i] = q[j]
        /\ \A i, j \in 1 .. Len(w) : w[i] = w[j] => i = j
    BY <2>2, <2>3, WithdrawnIs
  <2>5. gateQueue'[g] = w
    BY <1>1, <2>1, <2>3
  <2> QED BY <2>1, <2>4, <2>5
<1>7. gateQueue' \in [Gates -> Seq(GateTask)]
  BY <1>1, <1>6
<1>8. GateTypeOK' /\ MixIsOrderly(Order)'
  BY <1>1, <1>2, <1>3, <1>4, <1>5, <1>7 DEF GateInv, GateTypeOK, MixIsOrderly
<1>9. HeldAlone' /\ WindowsAreGuarded'
  <2>1. HeldAlone /\ WindowsAreGuarded /\ {"publication_checkpoint", "restore"} \subseteq Gates
    BY DEF GateInv, Gates
  <2>2. HeldAlone'
    BY <1>1, <1>5, <2>1 DEF HeldAlone
  <2>3. WindowsAreGuarded'
    BY <1>1, <1>5, <2>1 DEF WindowsAreGuarded
  <2> QED BY <2>2, <2>3
<1>10. \A u \in GateTask \ {t} : Open(u)' = Open(u)
  <2>1. ASSUME NEW u \in GateTask \ {t} PROVE Open(u)' = Open(u)
    <3>1. OwnGates(u)' = OwnGates(u) /\ SharedGates(u)' = SharedGates(u)
      BY <1>1, <1>5 DEF OwnGates, SharedGates
    <3>2. OwnWindows(u)' = OwnWindows(u)
      BY <1>1 DEF OwnWindows
    <3> QED BY <3>1, <3>2 DEF Open
  <2> QED BY <2>1
<1>11. StepsAreSound(Order)'
  <2>1. ASSUME NEW u \in GateTask PROVE Disciplined(gateSteps'[u], Open(u)', Order)
    <3>1. CASE u = t
      <4>1. Len(gateSteps'[u]) = 0
        BY <1>3, <3>1
      <4> QED BY <4>1 DEF Disciplined
    <3>2. CASE u # t
      <4>1. Disciplined(gateSteps[u], Open(u), Order)
        BY DEF GateInv, StepsAreSound
      <4> QED BY <1>3, <1>10, <3>2, <4>1
    <3> QED BY <3>1, <3>2
  <2> QED BY <2>1 DEF StepsAreSound
<1>12. IdleHasNothing'
  <2>1. IdleHasNothing
    BY DEF GateInv
  <2>2. ASSUME NEW u \in GateTask, u # t, ~Working(u)' PROVE ~Working(u)
    BY <1>4, <2>2 DEF Working
  <2> QED BY <1>1, <1>3, <1>5, <2>1, <2>2 DEF IdleHasNothing
<1>13. ASSUME NEW g \in Gates, NEW i \in 1 .. Len(gateQueue'[g]) PROVE InLine(g, gateQueue[g][i])'
  <2>1. PICK u : u = gateQueue'[g][i]
    OBVIOUS
  <2>2. u # t /\ \E j \in 1 .. Len(gateQueue[g]) : u = gateQueue[g][j]
    BY <1>6, <2>1
  <2>3. InLine(g, u) /\ u \in GateTask
    BY <1>2, <2>2, ElementOfSeq DEF GateInv, QueuesAreSound, GateTypeOK
  <2>4. gateSteps'[u] = gateSteps[u] /\ gateOp'[u] = gateOp[u]
    BY <1>3, <1>4, <2>2, <2>3
  <2>5. InLine(g, u)'
    BY <2>3, <2>4, LineKept
  <2> QED BY <2>1, <2>5 DEF InLine, Working, Coming, Gate
<1>14. QueuesAreSound'
  BY <1>6, <1>13 DEF QueuesAreSound
<1> QED BY <1>8, <1>9, <1>11, <1>12, <1>14 DEF GateInv

\* At first nobody has anything.
LEMMA GateInitSound ==
  ASSUME NEW Order, GateInit, MixIsOrderly(Order)
  PROVE  GateInv(Order)
<1>1. <<>> \in Seq(Step) /\ <<>> \in Seq(GateTask) /\ Len(<<>>) = 0
  BY EmptySeq
<1>2. GateTypeOK
  BY <1>1 DEF GateInit, GateTypeOK
<1>3. HeldAlone /\ WindowsAreGuarded /\ IdleHasNothing
  BY DEF GateInit, HeldAlone, WindowsAreGuarded, IdleHasNothing
<1>4. QueuesAreSound
  BY <1>1 DEF GateInit, QueuesAreSound
<1>5. StepsAreSound(Order)
  BY <1>1 DEF GateInit, StepsAreSound, Disciplined
<1> QED BY <1>2, <1>3, <1>4, <1>5 DEF GateInv

\* Every step keeps it.
LEMMA GateNextSound ==
  ASSUME NEW Order, GateInv(Order), [GateNext]_gateVars
  PROVE  GateInv(Order)'
<1>1. ASSUME NEW t \in GateTask, NEW op \in gateMix, GateBegin(t, op) PROVE GateInv(Order)'
  BY <1>1, GateBeginKeeps
<1>2. ASSUME NEW t \in GateTask, GateTake(t) PROVE GateInv(Order)'
  BY <1>2, GateTakeKeeps
<1>3. ASSUME NEW t \in GateTask, GateWait(t) PROVE GateInv(Order)'
  BY <1>3, GateWaitKeeps
<1>4. ASSUME NEW t \in GateTask, GateDrop(t) PROVE GateInv(Order)'
  BY <1>4, GateDropKeeps
<1>5. ASSUME NEW t \in GateTask, GateWork(t) PROVE GateInv(Order)'
  BY <1>5, GateWorkKeeps
<1>6. ASSUME NEW t \in GateTask, GateReturn(t) PROVE GateInv(Order)'
  BY <1>6, LeaveKeeps DEF GateReturn
<1>7. ASSUME NEW t \in GateTask, GateHangUp(t) PROVE GateInv(Order)'
  BY <1>7, LeaveKeeps DEF GateHangUp
<1>8. ASSUME NEW g \in Gates, GateGrant(g) PROVE GateInv(Order)'
  BY <1>8, GateGrantKeeps
<1>9. CASE UNCHANGED gateVars
  <2>1. \A u : Open(u)' = Open(u)
    BY <1>9 DEF gateVars, Open, OwnGates, SharedGates, OwnWindows
  <2>2. StepsAreSound(Order)' /\ MixIsOrderly(Order)'
    BY <1>9, <2>1 DEF gateVars, GateInv, StepsAreSound, MixIsOrderly
  <2>3. GateTypeOK' /\ HeldAlone' /\ WindowsAreGuarded' /\ IdleHasNothing'
    BY <1>9 DEF gateVars, GateInv, GateTypeOK, HeldAlone, WindowsAreGuarded, IdleHasNothing, Working
  <2>4. QueuesAreSound'
    BY <1>9 DEF gateVars, GateInv, QueuesAreSound, InLine, Working, Coming, Gate
  <2> QED BY <2>2, <2>3, <2>4 DEF GateInv
<1> QED BY <1>1, <1>2, <1>3, <1>4, <1>5, <1>6, <1>7, <1>8, <1>9 DEF GateNext

---------------------------------------------------------------------------
(* What follows. *)

\* Whatever operations may be at work together.
LEMMA AnyMixIsOrderly ==
  ASSUME GateInit
  PROVE  MixIsOrderly(AnyOrder)
<1>1. gateMix \subseteq GateOps
  BY GateAssumption DEF GateInit
<1> QED BY <1>1, EveryListOrderly DEF MixIsOrderly

\* What a task with a step to take has open, it holds.
LEMMA SnapHolds ==
  ASSUME NEW Order, GateInv(Order), NEW t \in GateTask, AtStep(t, {"snap"})
  PROVE  t \in gateHolders["publication_checkpoint"]
<1> DEFINE s == Head(gateSteps[t])
<1>1. gateSteps[t] # <<>> /\ s.do = "snap"
  BY DEF AtStep, Coming
<1>2. Allowed(s, Open(t), Order)
  BY <1>1, NextStep
<1>3. PICK x \in Open(t) : Holds(x) /\ x.gate = "publication_checkpoint"
  BY <1>1, <1>2 DEF Allowed
<1>4. x.gate \in OwnGates(t) \cup SharedGates(t)
  BY <1>3, OpenIsContext, InContext DEF Open
<1> QED BY <1>3, <1>4 DEF OwnGates, SharedGates

\* The invariant excludes the two interferences of GateEditsAreSerial.
LEMMA SoundIsSerial == GateInv(AnyOrder) => GateEditsAreSerial
<1> SUFFICES ASSUME GateInv(AnyOrder) PROVE GateEditsAreSerial
  OBVIOUS
<1>1. HeldAlone /\ WindowsAreGuarded /\ {"publication_checkpoint", "restore"} \subseteq Gates
  BY DEF GateInv, Gates
<1>2. GateNoTransientSnapshot
  <2>1. ASSUME NEW t \in GateTask, AtStep(t, {"snap"}), NEW u \in gateUnsettled PROVE u = t
    <3>1. t \in gateHolders["publication_checkpoint"]
      BY <2>1, SnapHolds
    <3> QED BY <1>1, <3>1 DEF HeldAlone, WindowsAreGuarded
  <2> QED BY <2>1 DEF GateNoTransientSnapshot
<1>3. GateBaseHolds
  <2>1. ASSUME NEW t \in gateBased, NEW u \in gateBased PROVE u = t
    BY <1>1 DEF HeldAlone, WindowsAreGuarded
  <2> QED BY <2>1 DEF GateBaseHolds
<1> QED BY <1>2, <1>3 DEF GateEditsAreSerial

\* In every behaviour of any mix of operations the tasks keep the discipline:
\* each gate has one exclusive holder, and every window is behind its gate.
THEOREM GatesInvariant == GateSpec => []GateInv(AnyOrder)
<1>1. GateInit => GateInv(AnyOrder)
  BY AnyMixIsOrderly, GateInitSound
<1>2. GateInv(AnyOrder) /\ [GateNext]_gateVars => GateInv(AnyOrder)'
  BY GateNextSound
<1> QED BY <1>1, <1>2, PTL DEF GateSpec

\* What operations edit is serial although they await storage: nobody captures
\* another's edit that may still be taken back, and nobody edits under another's
\* base.  For every operation of the room, those of finding 3 included.
THEOREM EditsAreSerial == GateSpec => []GateEditsAreSerial
BY GatesInvariant, SoundIsSerial, PTL

\* Operations that agree on an order: the ones of source, or the routes of
\* comments, each with all those that take only gates of the lower layers.
MixesAgree == \A mix \in GateMixes : mix \subseteq SourceOps \/ mix \subseteq CommentOps

\* A nonempty set of naturals has a least element.
LEMMA LeastOf ==
  ASSUME NEW T, T \subseteq Nat, T # {}
  PROVE  \E k \in T : \A i \in T : k <= i
<1>1. PICK R : R = OpToRel(<, Nat)
  OBVIOUS
<1>2. PICK k \in T : \A i \in T : ~(<<i, k>> \in R)
  BY <1>1, NatLessThanWellFounded, WFMin
<1>3. ASSUME NEW i \in T, i < k PROVE FALSE
  <2>1. <<i, k>> \in Nat \X Nat /\ i < k
    BY <1>3
  <2>2. <<i, k>> \in R
    BY <1>1, <2>1 DEF OpToRel
  <2> QED BY <1>2, <2>2
<1>4. \A i \in T : i \in Nat /\ k \in Nat
  OBVIOUS
<1> QED BY <1>3, <1>4

\* Whoever waits for a gate holds only gates that come before it.
LEMMA WaitsAbove ==
  ASSUME NEW Order, GateInv(Order), NEW t \in GateTask, NEW g \in Gates, NEW h \in Gates,
         InLine(g, t), t \in gateHolders[h]
  PROVE  <<h, g>> \in Order
<1> DEFINE s == Head(gateSteps[t])
<1>1. gateSteps[t] # <<>> /\ s.do \in {"take", "share"} /\ s.gate = g
  BY DEF InLine, Coming, Gate
<1>2. Allowed(s, Open(t), Order)
  BY <1>1, NextStep
<1>3. h \in OwnGates(t) \/ h \in SharedGates(t)
  BY DEF OwnGates, SharedGates
<1>4. Taken(h) \in Open(t) \/ Shared(h) \in Open(t)
  BY <1>3, OpenIsContext, InContext DEF Open
<1>5. Holds(Taken(h)) /\ Taken(h).gate = h /\ Holds(Shared(h)) /\ Shared(h).gate = h
  BY DEF Holds, Taken, Shared
<1> QED BY <1>1, <1>2, <1>4, <1>5 DEF Allowed, Holds

\* With an order that has no circle, of those who wait for the gate of the highest
\* rank the first waits for nobody of the set.
LEMMA RankedHasNoStandoff ==
  ASSUME NEW Order, GateInv(Order), Ranked(Order)
  PROVE  GateNoStandoff
<1> SUFFICES ASSUME NEW S \in SUBSET GateTask, S # {},
                    \A t \in S : \E g \in Gates : t \in ToSet(gateQueue[g]) /\ GateAhead(t, g) \cap S # {}
             PROVE  FALSE
  BY DEF GateNoStandoff
<1>1. PICK rank \in [Gates -> 0 .. 9] : \A g, h \in Gates : <<g, h>> \in Order => rank[g] < rank[h]
  BY DEF Ranked
<1>2. \A g \in Gates : gateQueue[g] \in Seq(GateTask) /\ DOMAIN gateQueue[g] = 1 .. Len(gateQueue[g])
  BY LenProperties DEF GateInv, GateTypeOK
<1>3. PICK Q : Q = {g \in Gates : \E t \in S : t \in ToSet(gateQueue[g])}
  OBVIOUS
<1>4. PICK T : T = {9 - rank[g] : g \in Q}
  OBVIOUS
<1>5. T \subseteq Nat /\ T # {}
  <2>1. \A g \in Gates : rank[g] \in 0 .. 9
    BY <1>1
  <2>2. \A g \in Q : 9 - rank[g] \in Nat
    BY <1>3, <2>1
  <2>3. Q # {}
    BY <1>3
  <2> QED BY <1>4, <2>2, <2>3
<1>6. PICK low \in T : \A i \in T : low <= i
  BY <1>5, LeastOf
<1>7. PICK g \in Q : low = 9 - rank[g]
  BY <1>4
<1>8. \A h \in Q : rank[h] <= rank[g]
  <2>1. ASSUME NEW h \in Q PROVE rank[h] <= rank[g]
    <3>1. 9 - rank[g] <= 9 - rank[h]
      BY <1>4, <1>6, <1>7
    <3>2. rank[g] \in Int /\ rank[h] \in Int
      BY <1>1, <1>3
    <3> QED BY <3>1, <3>2
  <2> QED BY <2>1
<1>9. PICK q \in Seq(GateTask) : q = gateQueue[g]
  BY <1>2, <1>3
<1>10. PICK P : P = {i \in 1 .. Len(q) : q[i] \in S}
  OBVIOUS
<1>11. P \subseteq Nat /\ P # {}
  <2>1. g \in Gates
    BY <1>3
  <2>2. PICK s \in S : s \in ToSet(gateQueue[g])
    BY <1>3
  <2>3. PICK i \in 1 .. Len(gateQueue[g]) : s = gateQueue[g][i]
    BY <1>2, <2>1, <2>2 DEF ToSet
  <2>4. i \in P
    BY <1>9, <1>10, <2>3
  <2>5. Len(q) \in Nat
    BY LenProperties
  <2> QED BY <1>10, <2>4, <2>5
<1>12. PICK n \in P : \A i \in P : n <= i
  BY <1>11, LeastOf
<1>13. PICK t \in S : t = q[n]
  BY <1>10
<1>14. InLine(g, t) /\ n \in 1 .. Len(q)
  BY <1>3, <1>9, <1>10, <1>13 DEF GateInv, QueuesAreSound
<1>15. PICK h \in Gates : t \in ToSet(gateQueue[h]) /\ GateAhead(t, h) \cap S # {}
  OBVIOUS
<1>16. h = g
  <2>1. PICK i \in 1 .. Len(gateQueue[h]) : t = gateQueue[h][i]
    BY <1>2, <1>15 DEF ToSet
  <2>2. InLine(h, t)
    BY <2>1 DEF GateInv, QueuesAreSound
  <2> QED BY <1>14, <2>2 DEF InLine
<1>17. PICK u \in S : u \in GateAhead(t, g)
  BY <1>15, <1>16
<1>18. CASE u \in gateHolders[g]
  <2>1. PICK f \in Gates : u \in ToSet(gateQueue[f])
    OBVIOUS
  <2>2. f \in Q
    BY <1>3, <2>1
  <2>3. PICK i \in 1 .. Len(gateQueue[f]) : u = gateQueue[f][i]
    BY <1>2, <2>1 DEF ToSet
  <2>4. InLine(f, u)
    BY <2>3 DEF GateInv, QueuesAreSound
  <2>5. g \in Gates
    BY <1>3
  <2>6. <<g, f>> \in Order
    BY <1>18, <2>4, <2>5, WaitsAbove
  <2>7. rank[g] < rank[f] /\ rank[f] <= rank[g]
    BY <1>1, <1>8, <2>2, <2>5, <2>6
  <2>8. rank[g] \in Int /\ rank[f] \in Int
    BY <1>1, <2>5
  <2> QED BY <2>7, <2>8
<1>19. CASE u \notin gateHolders[g]
  <2>1. PICK j \in 1 .. Len(q) : u = q[j] /\ \E k \in 1 .. Len(q) : k > j /\ q[k] = t
    BY <1>2, <1>3, <1>9, <1>17, <1>19 DEF GateAhead
  <2>2. PICK k \in 1 .. Len(q) : k > j /\ q[k] = t
    BY <2>1
  <2>3. k = n
    BY <1>3, <1>9, <1>13, <1>14, <2>2 DEF GateInv, QueuesAreSound
  <2>4. j \in P
    BY <1>10, <2>1
  <2> QED BY <1>12, <1>14, <2>1, <2>2, <2>3, <2>4
<1> QED BY <1>18, <1>19

\* No set of operations waits for itself, for any number of tasks, when the
\* operations that may be at work together agree on the order of the routes'
\* gates (finding 3 is what happens when they do not).
THEOREM NoStandoff ==
  ASSUME MixesAgree
  PROVE  GateSpec => []GateNoStandoff
<1> DEFINE Agreed == GateInv(SourceOrder) \/ GateInv(RouteOrder)
<1>1. GateInit => Agreed
  <2> SUFFICES ASSUME GateInit PROVE Agreed
    OBVIOUS
  <2>1. gateMix \subseteq SourceOps \/ gateMix \subseteq CommentOps
    BY DEF GateInit, MixesAgree
  <2>2. CASE gateMix \subseteq SourceOps
    <3>1. MixIsOrderly(SourceOrder)
      BY <2>2, SourceOrderly DEF MixIsOrderly
    <3> QED BY <3>1, GateInitSound
  <2>3. CASE gateMix \subseteq CommentOps
    <3>1. MixIsOrderly(RouteOrder)
      BY <2>3, CommentsOrderly DEF MixIsOrderly
    <3> QED BY <3>1, GateInitSound
  <2> QED BY <2>1, <2>2, <2>3
<1>2. Agreed /\ [GateNext]_gateVars => Agreed'
  <2>1. GateInv(SourceOrder) /\ [GateNext]_gateVars => GateInv(SourceOrder)'
    BY GateNextSound
  <2>2. GateInv(RouteOrder) /\ [GateNext]_gateVars => GateInv(RouteOrder)'
    BY GateNextSound
  <2> QED BY <2>1, <2>2
<1>3. Agreed => GateNoStandoff
  BY OrdersAreRanked, RankedHasNoStandoff
<1> QED BY <1>1, <1>2, <1>3, PTL DEF GateSpec

---------------------------------------------------------------------------
(***************************************************************************)
(* The render jobs of the companion, for any number of requests, jobs,     *)
(* grants and failures.  Whether a request runs once is a question of      *)
(* where its one job is: in the queue once, with the worker, or finished.  *)
(* The one hypothesis is that a record is not torn by a stop.              *)
(***************************************************************************)

\* The steps of the worker and the ends of a job; then the types of a job, of a
\* record on disk, of what the worker has in hand, and of the counters.
CompSteps == {"idle", "popped", "checking", "running", "ended"}
CompEnds == {"none", "done", "failed", "canceled"}
CompJobs == [req : CompReq, grant : Nat, state : CompEnds \cup {"queued", "running"},
             queued : BOOLEAN, superseded : BOOLEAN, finished : BOOLEAN, cancel : BOOLEAN]
CompRecords == [req : CompReq, state : CompEnds \cup {"queued"}]
CompHands(n) == [step : CompSteps, id : 0..n, req : CompReq \cup {NoHand.req},
              grant : Nat, outcome : CompEnds]
CompCounts == [ids : Nat, grants : Nat, faults : Nat]
\* The state is of its type, and every number is one that was given out.
CompTypeOK ==
  /\ coUsed \in CompCounts
  /\ DOMAIN coJobs \subseteq 1..coUsed.ids /\ coJobs \in [DOMAIN coJobs -> CompJobs]
  /\ coDisk \in [DOMAIN coDisk -> CompRecords]
  /\ coQueue \in Seq(1..coUsed.ids) /\ coWorker \in CompHands(coUsed.ids) /\ coGrant \in Nat
  /\ coRuns \in [CompReq -> Nat]

\* The worker runs the job, or is about to; the worker has not started its code.
CompAtWork(i) == coWorker.id = i /\ coWorker.step \in {"checking", "running", "ended"}
CompTaken(i) == coWorker.id = i /\ coWorker.step \in {"popped", "checking"}

\* A recorded job is on disk as long as it is in the table, for the same request.
CompDiskTrue ==
  /\ DOMAIN coDisk = {i \in DOMAIN coJobs : coJobs[i].req \in CompKept}
  /\ \A i \in DOMAIN coDisk : coDisk[i].req = coJobs[i].req
\* A recorded request has one job.
CompOneJob ==
  \A i, j \in DOMAIN coJobs : coJobs[i].req \in CompKept /\ coJobs[i].req = coJobs[j].req => i = j
\* No job is in the queue twice, nor there and in the worker's hands.
CompQueueOnce ==
  /\ IsInjective(coQueue) /\ Len(coQueue) <= CompQueue
  /\ coWorker.step # "idle" => coWorker.id \notin Range(coQueue)
\* What a job says of itself is where it is.
CompJobsPlaced ==
  \A i \in DOMAIN coJobs :
    /\ coJobs[i].queued =>
         /\ coJobs[i].state = "queued" /\ ~coJobs[i].superseded
         /\ i \in Range(coQueue) \/ (coWorker.id = i /\ coWorker.step = "popped")
    /\ coJobs[i].superseded => coJobs[i].state = "queued"
    /\ coJobs[i].state = "running" => CompAtWork(i)
    /\ CompAtWork(i) => /\ ~coJobs[i].queued /\ ~coJobs[i].superseded
                         /\ coWorker.req = coJobs[i].req
\* A request that was started has a job that will not be started again.
CompRanOnce ==
  \A r \in CompKept :
    /\ coRuns[r] <= 1
    /\ coRuns[r] > 0 => \E i \in DOMAIN coJobs :
         coJobs[i].req = r /\ i \notin Range(coQueue) /\ ~CompTaken(i)
\* The inductive invariant of the companion's jobs.
CompInv == CompTypeOK /\ CompDiskTrue /\ CompOneJob /\ CompQueueOnce /\ CompJobsPlaced /\ CompRanOnce

---------------------------------------------------------------------------
\* A set of numbers that has 0 and every successor has them all: induction over
\* Nat, stated of a set, which the provers instantiate where they do not
\* instantiate the library's, stated of an operator.
LEMMA SetInduction ==
  ASSUME NEW T \in SUBSET Nat, 0 \in T, \A n \in T : n + 1 \in T
  PROVE T = Nat
<1>1. SUFFICES ASSUME Nat \ T # {} PROVE FALSE OBVIOUS
<1>2. PICK m \in Nat \ T : \A n \in Nat \ T : m <= n BY LeastOf, <1>1
<1>3. m # 0 OBVIOUS
<1>4. m - 1 \in T BY <1>2, <1>3
<1>5. (m - 1) + 1 \in T BY <1>4
<1> QED BY <1>2, <1>5

---------------------------------------------------------------------------
(* The queue without some jobs. *)

\* What Waiting defines by recursion.
Retains(q, S, f, m) ==
  f = [n \in 0..m |-> IF n = 0 THEN <<>>
                      ELSE IF q[n] \in S THEN f[n - 1] ELSE Append(f[n - 1], q[n])]

\* The recursion goes one step on.
LEMMA RetainsStep ==
  ASSUME NEW q, NEW S, NEW m \in Nat, NEW f, Retains(q, S, f, m)
  PROVE \E g : Retains(q, S, g, m + 1)
<1>1. PICK last : last = IF q[m + 1] \in S THEN f[m] ELSE Append(f[m], q[m + 1]) OBVIOUS
<1>2. PICK g : g = [n \in 0..(m + 1) |-> IF n = m + 1 THEN last ELSE f[n]] OBVIOUS
<1>3. PICK h : h = [n \in 0..(m + 1) |-> IF n = 0 THEN <<>>
                      ELSE IF q[n] \in S THEN g[n - 1] ELSE Append(g[n - 1], q[n])]
  OBVIOUS
<1>4. ASSUME NEW n \in 0..(m + 1) PROVE g[n] = h[n]
  <2>1. CASE n = m + 1
    <3>1. g[n - 1] = f[m] /\ n # 0 /\ n \in 0..(m + 1) BY <1>2, <2>1
    <3>2. h[n] = IF q[m + 1] \in S THEN f[m] ELSE Append(f[m], q[m + 1]) BY <1>3, <2>1, <3>1
    <3> QED BY <3>2, <1>1, <1>2, <2>1
  <2>2. CASE n # m + 1 /\ n # 0
    <3>1. n \in 0..m /\ n - 1 \in 0..m /\ n - 1 \in 0..(m + 1) /\ n - 1 # m + 1 BY <2>2
    <3>2. g[n] = f[n] /\ g[n - 1] = f[n - 1] BY <1>2, <3>1, <2>2
    <3>3. f[n] = IF q[n] \in S THEN f[n - 1] ELSE Append(f[n - 1], q[n])
      BY <3>1, <2>2, Zenon DEF Retains
    <3> QED BY <3>2, <3>3, <1>3, <2>2
  <2>3. CASE n = 0
    <3>1. 0 \in 0..m /\ 0 # m + 1 OBVIOUS
    <3>2. f[0] = <<>> BY <3>1 DEF Retains
    <3> QED BY <3>1, <3>2, <2>3, <1>2, <1>3
  <2> QED BY <2>1, <2>2, <2>3
<1>5. g = h
  <2>1. g = [n \in 0..(m + 1) |-> g[n]] /\ h = [n \in 0..(m + 1) |-> h[n]] BY <1>2, <1>3
  <2> QED BY <2>1, <1>4, Zenon
<1> QED BY <1>5, <1>3 DEF Retains

\* The recursion defines a function for every length.
LEMMA RetainsExists ==
  ASSUME NEW q, NEW S, NEW m \in Nat
  PROVE \E f : Retains(q, S, f, m)
<1> DEFINE T == {n \in Nat : \E f : Retains(q, S, f, n)}
<1>1. 0 \in T
  <2>1. PICK f : f = [n \in 0..0 |-> <<>>] OBVIOUS
  <2>2. f = [n \in 0..0 |-> IF n = 0 THEN <<>>
                      ELSE IF q[n] \in S THEN f[n - 1] ELSE Append(f[n - 1], q[n])] BY <2>1
  <2> QED BY <2>2 DEF Retains
<1>2. \A n \in T : n + 1 \in T BY RetainsStep
<1>3. T = Nat
  <2> HIDE DEF T
  <2>1. T \in SUBSET Nat BY DEF T
  <2> QED BY <1>1, <1>2, <2>1, SetInduction
<1> QED BY <1>3

\* A sequence and one element more.
LEMMA RetainAppend ==
  ASSUME NEW X, NEW a \in Seq(X), NEW b \in X
  PROVE Range(Append(a, b)) = Range(a) \cup {b}
<1>1. PICK c : c = Append(a, b) OBVIOUS
<1>2. c \in Seq(X) /\ Len(c) = Len(a) + 1 /\ DOMAIN c = 1..(Len(a) + 1) /\ DOMAIN a = 1..Len(a)
  BY <1>1
<1>3. \A n \in 1..Len(a) : c[n] = a[n] BY <1>1
<1>4. c[Len(a) + 1] = b BY <1>1
<1>5. Range(c) = Range(a) \cup {b} BY <1>2, <1>3, <1>4 DEF Range
<1> QED BY <1>1, <1>5

\* A new element at the end leaves a sequence without repetitions.
LEMMA InjectiveAppend ==
  ASSUME NEW X, NEW a \in Seq(X), NEW b \in X, IsInjective(a), b \notin Range(a)
  PROVE IsInjective(Append(a, b))
<1>1. PICK c : c = Append(a, b) OBVIOUS
<1>2. c \in Seq(X) /\ Len(c) = Len(a) + 1 /\ DOMAIN c = 1..(Len(a) + 1) /\ DOMAIN a = 1..Len(a)
  BY <1>1
<1>3. \A n \in 1..Len(a) : c[n] = a[n] BY <1>1
<1>4. c[Len(a) + 1] = b BY <1>1
<1>5. \A n \in 1..Len(a) : a[n] # b BY <1>2 DEF Range
<1>6. IsInjective(c) BY <1>2, <1>3, <1>4, <1>5 DEF IsInjective
<1> QED BY <1>1, <1>6

\* The first n elements of a sequence.
Firsts(q, n) == {q[k] : k \in 1..n}

\* The contents of what is retained of the first n elements.
LEMMA RetainsContents ==
  ASSUME NEW X, NEW q \in Seq(X), NEW S, NEW f, Retains(q, S, f, Len(q)), NEW n \in 0..Len(q)
  PROVE /\ f[n] \in Seq(X) /\ Len(f[n]) <= n
        /\ Range(f[n]) = Firsts(q, n) \ S
        /\ IsInjective(q) => IsInjective(f[n])
<1> DEFINE Good(k) == /\ f[k] \in Seq(X) /\ Len(f[k]) <= k
                      /\ Range(f[k]) = {q[j] : j \in 1..k} \ S
                      /\ IsInjective(q) => IsInjective(f[k])
<1> DEFINE T == {k \in Nat : k <= Len(q) => Good(k)}
<1>1. 0 \in T
  <2>1. 0 \in 0..Len(q) OBVIOUS
  <2>2. f[0] = <<>> BY <2>1 DEF Retains
  <2>3. <<>> \in Seq(X) /\ Len(<<>>) <= 0 OBVIOUS
  <2>4. Range(<<>>) = {} /\ IsInjective(<<>>) BY DEF Range, IsInjective
  <2>5. {q[j] : j \in 1..0} = {} OBVIOUS
  <2> QED BY <2>2, <2>3, <2>4, <2>5
<1>2. ASSUME NEW k \in T PROVE k + 1 \in T
  <2> SUFFICES ASSUME k + 1 <= Len(q) PROVE Good(k + 1) OBVIOUS
  <2>1. Good(k) BY <1>2
  <2>2. k + 1 \in 0..Len(q) /\ k + 1 # 0 /\ (k + 1) - 1 = k /\ k + 1 \in 1..Len(q) BY <1>2
  <2>3. f[k + 1] = IF q[k + 1] \in S THEN f[k] ELSE Append(f[k], q[k + 1])
    BY <2>2 DEF Retains
  <2>4. {q[j] : j \in 1..(k + 1)} = {q[j] : j \in 1..k} \cup {q[k + 1]}
    <3>1. 1..(k + 1) = 1..k \cup {k + 1} BY <1>2
    <3> QED BY <3>1
  <2>5. CASE q[k + 1] \in S
    <3>1. f[k + 1] = f[k] BY <2>3, <2>5
    <3>2. {q[j] : j \in 1..(k + 1)} \ S = {q[j] : j \in 1..k} \ S BY <2>4, <2>5
    <3>3. Len(f[k]) <= k + 1 BY <2>1
    <3> QED BY <2>1, <3>1, <3>2, <3>3
  <2>6. CASE q[k + 1] \notin S
    <3>1. PICK a, b : a = f[k] /\ b = q[k + 1] OBVIOUS
    <3>2. f[k + 1] = Append(a, b) BY <2>3, <2>6, <3>1
    <3>3. a \in Seq(X) /\ b \in X /\ Len(a) <= k BY <2>1, <2>2, <3>1
    <3>4. Append(a, b) \in Seq(X) /\ Len(Append(a, b)) = Len(a) + 1 BY <3>3
    <3>5. Range(Append(a, b)) = Range(a) \cup {b} BY <3>3, RetainAppend
    <3>6. {q[j] : j \in 1..(k + 1)} \ S = ({q[j] : j \in 1..k} \ S) \cup {b}
      BY <2>4, <2>6, <3>1
    <3>7. ASSUME IsInjective(q) PROVE IsInjective(Append(a, b))
      <4>1. b \notin Range(a)
        <5>1. SUFFICES ASSUME b \in Range(a) PROVE FALSE OBVIOUS
        <5>2. PICK j \in 1..k : b = q[j] BY <2>1, <3>1, <5>1
        <5>3. j \in DOMAIN q /\ k + 1 \in DOMAIN q /\ j # k + 1 BY <2>2, <1>2
        <5> QED BY <5>2, <5>3, <3>1, <3>7 DEF IsInjective
      <4> QED BY <4>1, <3>3, <3>7, <2>1, <3>1, InjectiveAppend
    <3> QED BY <2>1, <3>1, <3>2, <3>3, <3>4, <3>5, <3>6, <3>7
  <2> QED BY <2>5, <2>6
<1>3. T = Nat
  <2> HIDE DEF T
  <2>1. T \in SUBSET Nat BY DEF T
  <2> QED BY <1>1, <1>2, <2>1, SetInduction
<1>4. Len(q) \in Nat /\ n \in Nat /\ n <= Len(q) OBVIOUS
<1>5. Good(n) BY <1>3, <1>4
<1> QED BY <1>5 DEF Firsts

\* What retain leaves of the queue: what is not dropped, each once.
LEMMA WaitingKeeps ==
  ASSUME NEW X, coQueue \in Seq(X), NEW S
  PROVE /\ Waiting(S) \in Seq(X) /\ Len(Waiting(S)) <= Len(coQueue)
        /\ Range(Waiting(S)) = Range(coQueue) \ S
        /\ IsInjective(coQueue) => IsInjective(Waiting(S))
<1>1. Len(coQueue) \in Nat /\ Len(coQueue) \in 0..Len(coQueue) OBVIOUS
<1> DEFINE F == CHOOSE f : Retains(coQueue, S, f, Len(coQueue))
<1>2. Retains(coQueue, S, F, Len(coQueue)) BY <1>1, RetainsExists
<1>3. Waiting(S) = F[Len(coQueue)] BY Zenon DEF Waiting, Retains
<1>4. Range(coQueue) = Firsts(coQueue, Len(coQueue)) BY DEF Range, Firsts
<1>5. PICK q, f, n : q = coQueue /\ f = F /\ n = Len(coQueue) OBVIOUS
<1> HIDE DEF F
<1>6. q \in Seq(X) /\ Retains(q, S, f, Len(q)) /\ n \in 0..Len(q) BY <1>1, <1>2, <1>5
<1>7. /\ f[n] \in Seq(X) /\ Len(f[n]) <= n /\ Range(f[n]) = Firsts(q, n) \ S
      /\ IsInjective(q) => IsInjective(f[n])
  BY <1>6, RetainsContents
<1> QED BY <1>3, <1>4, <1>5, <1>7
\* A sequence over a set is one over a larger set.
LEMMA RetainWider ==
  ASSUME NEW Y, NEW X, Y \subseteq X, NEW s \in Seq(Y)
  PROVE s \in Seq(X) /\ Range(s) \subseteq Y
<1>1. Len(s) \in Nat /\ s \in [1..Len(s) -> Y] OBVIOUS
<1>2. s \in [1..Len(s) -> X] BY <1>1
<1>3. \E n \in Nat : s \in [1..n -> X] BY <1>1, <1>2
<1>4. s \in Seq(X) BY <1>3, SeqDef
<1> QED BY <1>1, <1>4 DEF Range

\* Without its head a queue holds everything else, each once.
LEMMA TailRetains ==
  ASSUME NEW X, NEW s \in Seq(X), s # <<>>, IsInjective(s)
  PROVE /\ Head(s) \in X /\ Head(s) \in Range(s)
        /\ Tail(s) \in Seq(X) /\ Len(Tail(s)) <= Len(s) /\ IsInjective(Tail(s))
        /\ Range(Tail(s)) = Range(s) \ {Head(s)}
<1>1. PICK t, h : t = Tail(s) /\ h = Head(s) OBVIOUS
<1>2. /\ Len(s) \in Nat /\ Len(s) > 0 /\ t \in Seq(X) /\ Len(t) = Len(s) - 1 /\ h = s[1]
      /\ DOMAIN t = 1..(Len(s) - 1) /\ DOMAIN s = 1..Len(s) /\ h \in X
  BY <1>1
<1>3. \A n \in 1..(Len(s) - 1) : t[n] = s[n + 1] BY <1>1, <1>2
<1>4. IsInjective(t) BY <1>2, <1>3 DEF IsInjective
<1>5. h \in Range(s) BY <1>2 DEF Range
<1>6. ASSUME NEW x \in Range(t) PROVE x \in Range(s) \ {h}
  <2>1. PICK n \in 1..(Len(s) - 1) : x = t[n] BY <1>2 DEF Range
  <2>2. x = s[n + 1] /\ n + 1 \in 1..Len(s) /\ 1 \in 1..Len(s) /\ n + 1 # 1 BY <2>1, <1>2, <1>3
  <2> QED BY <2>2, <1>2 DEF Range, IsInjective
<1>7. ASSUME NEW x \in Range(s) \ {h} PROVE x \in Range(t)
  <2>1. PICK n \in 1..Len(s) : x = s[n] BY <1>2 DEF Range
  <2>2. n # 1 /\ n - 1 \in 1..(Len(s) - 1) BY <2>1, <1>2
  <2>3. t[n - 1] = s[n] BY <2>2, <1>3
  <2> QED BY <2>1, <2>2, <2>3, <1>2 DEF Range
<1> QED BY <1>1, <1>2, <1>4, <1>5, <1>6, <1>7

\* The fields of a job.
LEMMA CompJobFields ==
  ASSUME NEW j \in CompJobs
  PROVE /\ j.req \in CompReq /\ j.grant \in Nat /\ j.state \in CompEnds \cup {"queued", "running"}
        /\ j.queued \in BOOLEAN /\ j.superseded \in BOOLEAN /\ j.finished \in BOOLEAN
        /\ j.cancel \in BOOLEAN
  BY DEF CompJobs

\* The fields of what the worker has.
LEMMA CompHandFields ==
  ASSUME NEW n, NEW h \in CompHands(n)
  PROVE /\ h.step \in CompSteps /\ h.id \in 0..n /\ h.grant \in Nat /\ h.outcome \in CompEnds
        /\ h.req \in CompReq \cup {NoHand.req}
  BY DEF CompHands

\* Nothing in hand is something the worker can have.
LEMMA CompNoHand ==
  ASSUME NEW n \in Nat
  PROVE NoHand \in CompHands(n) /\ NoHand.step = "idle"
<1>1. PICK r : r = CHOOSE q \in CompReq : TRUE OBVIOUS
<1>2. NoHand = [step |-> "idle", id |-> 0, req |-> r, grant |-> 0, outcome |-> "none"]
  BY <1>1 DEF NoHand
<1>3. NoHand.req = r BY <1>2
<1>4. 0 \in 0..n /\ 0 \in Nat OBVIOUS
<1> QED BY <1>2, <1>3, <1>4 DEF CompHands, CompSteps, CompEnds

\* One job of the table changed.
LEMMA CompJobChanged ==
  ASSUME CompTypeOK, NEW i \in DOMAIN coJobs, NEW v \in CompJobs, coJobs' = [coJobs EXCEPT ![i] = v]
  PROVE /\ DOMAIN coJobs' = DOMAIN coJobs /\ coJobs' \in [DOMAIN coJobs' -> CompJobs]
        /\ coJobs'[i] = v /\ \A j \in DOMAIN coJobs : j # i => coJobs'[j] = coJobs[j]
  BY DEF CompTypeOK

\* Pop: the head of the queue moves to the worker.
LEMMA CompPop == ASSUME CompInv, Pop PROVE CompInv'
<1>1. /\ CompTypeOK /\ CompDiskTrue /\ CompOneJob /\ CompQueueOnce /\ CompJobsPlaced /\ CompRanOnce
  BY DEF CompInv
<1>2. /\ coWorker.step = "idle" /\ coQueue # <<>> /\ coQueue' = Tail(coQueue)
      /\ coWorker' = [NoHand EXCEPT !.step = "popped", !.id = Head(coQueue)]
      /\ UNCHANGED <<coJobs, coDisk, coGrant, coPreview, coRuns, coUsed>>
  BY DEF Pop
<1>3. coUsed.ids \in Nat BY <1>1 DEF CompTypeOK, CompCounts
<1>4. PICK s, h, X : s = coQueue /\ h = Head(coQueue) /\ X = 1..coUsed.ids OBVIOUS
<1>5. s \in Seq(X) /\ s # <<>> /\ IsInjective(s) /\ Len(s) <= CompQueue
  BY <1>1, <1>2, <1>4 DEF CompTypeOK, CompQueueOnce
<1>6. /\ h \in X /\ h \in Range(s) /\ coQueue' \in Seq(X) /\ Len(coQueue') <= Len(s)
      /\ IsInjective(coQueue') /\ Range(coQueue') = Range(s) \ {h}
  BY <1>2, <1>4, <1>5, TailRetains
<1>7. /\ coWorker' \in CompHands(coUsed.ids) /\ coWorker'.step = "popped" /\ coWorker'.id = h
  <2>1. PICK w, n : w = NoHand /\ n = coUsed.ids OBVIOUS
  <2>2. w \in CompHands(n) BY <2>1, <1>3, CompNoHand
  <2>3. PICK v : v = [w EXCEPT !.step = "popped", !.id = h] OBVIOUS
  <2>4. h \in 0..n BY <1>6, <1>4, <2>1, <1>3
  <2>5. v \in CompHands(n) /\ v.step = "popped" /\ v.id = h BY <2>2, <2>3, <2>4 DEF CompHands, CompSteps
  <2> QED BY <2>1, <2>3, <2>5, <1>2, <1>4
<1>8. CompTypeOK' BY <1>1, <1>2, <1>4, <1>6, <1>7 DEF CompTypeOK
<1>9. CompDiskTrue' /\ CompOneJob' BY <1>1, <1>2 DEF CompDiskTrue, CompOneJob
<1>10. CompQueueOnce'
  <2>1. Len(s) \in Nat /\ Len(coQueue') \in Nat BY <1>5, <1>6
  <2> QED BY <1>6, <1>5, <1>7, <2>1, CompAssumption DEF CompQueueOnce, CompAssumption
<1>11. CompJobsPlaced'
  BY <1>1, <1>2, <1>4, <1>6, <1>7 DEF CompJobsPlaced, CompAtWork
<1>12. CompRanOnce'
  BY <1>1, <1>2, <1>4, <1>6, <1>7 DEF CompRanOnce, CompTaken
<1> QED BY <1>8, <1>9, <1>10, <1>11, <1>12 DEF CompInv

\* What the worker has goes on, or is given up, with no job changed.
LEMMA CompWorkerMoves ==
  ASSUME CompInv, UNCHANGED <<coQueue, coJobs, coDisk, coGrant, coRuns>>,
         coUsed' \in CompCounts, coUsed'.ids = coUsed.ids,
         coWorker' \in CompHands(coUsed.ids), coWorker'.step # "popped",
         \/ /\ coWorker'.step = "idle"
            /\ coWorker.step # "idle" /\ coWorker.id \in DOMAIN coJobs =>
                 coJobs[coWorker.id].state # "running" /\ ~coJobs[coWorker.id].queued
         \/ /\ coWorker'.id = coWorker.id /\ coWorker'.req = coWorker.req
            /\ coWorker.step \in {"checking", "running", "ended"}
            /\ coWorker'.step \in {"running", "ended"}
  PROVE CompInv'
<1>1. /\ CompTypeOK /\ CompDiskTrue /\ CompOneJob /\ CompQueueOnce /\ CompJobsPlaced /\ CompRanOnce
  BY DEF CompInv
<1>2. CompTypeOK' BY <1>1 DEF CompTypeOK
<1>3. CompDiskTrue' /\ CompOneJob' BY <1>1 DEF CompDiskTrue, CompOneJob
<1>4. CompQueueOnce' BY <1>1 DEF CompQueueOnce
<1>5. CompJobsPlaced' BY <1>1 DEF CompJobsPlaced, CompAtWork
<1>6. CompRanOnce' BY <1>1 DEF CompRanOnce, CompTaken
<1> QED BY <1>2, <1>3, <1>4, <1>5, <1>6 DEF CompInv

\* The parts of the invariant.
LEMMA CompParts ==
  ASSUME CompInv
  PROVE CompTypeOK /\ CompDiskTrue /\ CompOneJob /\ CompQueueOnce /\ CompJobsPlaced /\ CompRanOnce
  BY DEF CompInv

\* Begin: a job that was superseded or is gone is given up.
LEMMA CompBegins == ASSUME CompInv, Begin PROVE CompInv'
<1>1. CompTypeOK /\ CompDiskTrue /\ CompOneJob /\ CompQueueOnce /\ CompJobsPlaced /\ CompRanOnce
  BY CompParts
<1>2. PICK i : i = coWorker.id OBVIOUS
<1>3. /\ coWorker.step = "popped"
      /\ UNCHANGED <<coQueue, coDisk, coGrant, coPreview, coRuns, coUsed>>
  BY DEF Begin
<1>4. coUsed.ids \in Nat /\ coUsed \in CompCounts BY <1>1 DEF CompTypeOK, CompCounts
<1>5. CASE ~Runnable(i)
  <2>1. coWorker' = NoHand /\ UNCHANGED coJobs BY <1>2, <1>5, Zenon DEF Begin
  <2>2. coWorker' \in CompHands(coUsed.ids) /\ coWorker'.step = "idle" BY <2>1, <1>4, CompNoHand
  <2>3. i \in DOMAIN coJobs => coJobs[i].superseded BY <1>5 DEF Runnable
  <2>4. i \in DOMAIN coJobs => coJobs[i].state # "running" /\ ~coJobs[i].queued
    BY <1>1, <2>3 DEF CompJobsPlaced
  <2> QED BY <1>2, <1>3, <1>4, <2>1, <2>2, <2>4, CompWorkerMoves
<1>6. CASE Runnable(i)
  <2>1. /\ coJobs' = [coJobs EXCEPT ![i].queued = FALSE, ![i].state = "running"]
        /\ coWorker' = [coWorker EXCEPT !.step = "checking", !.req = coJobs[i].req,
                                        !.grant = coJobs[i].grant]
    BY <1>2, <1>6, Zenon DEF Begin
  <2>2. i \in DOMAIN coJobs /\ ~coJobs[i].superseded BY <1>6 DEF Runnable
  <2>3. PICK j : j = coJobs[i] OBVIOUS
  <2>4. j \in CompJobs BY <1>1, <2>2, <2>3 DEF CompTypeOK
  <2>5. PICK v : v = [j EXCEPT !.queued = FALSE, !.state = "running"] OBVIOUS
  <2>6. /\ v \in CompJobs /\ v.req = j.req /\ v.queued = FALSE /\ v.state = "running"
        /\ v.superseded = j.superseded
    BY <2>4, <2>5 DEF CompJobs
  <2>7. coJobs' = [coJobs EXCEPT ![i] = v] BY <2>1, <2>2, <2>3, <2>5, <1>1 DEF CompTypeOK
  <2>8. /\ DOMAIN coJobs' = DOMAIN coJobs /\ coJobs' \in [DOMAIN coJobs' -> CompJobs]
        /\ coJobs'[i] = v /\ \A k \in DOMAIN coJobs : k # i => coJobs'[k] = coJobs[k]
    BY <2>2, <2>6, <2>7, <1>1, CompJobChanged
  <2>9. j.req \in CompReq /\ j.grant \in Nat BY <2>4, CompJobFields
  <2>10. coWorker' \in CompHands(coUsed.ids) /\ coWorker'.step = "checking"
         /\ coWorker'.id = i /\ coWorker'.req = j.req
    <3>1. PICK w, n : w = coWorker /\ n = coUsed.ids OBVIOUS
    <3>2. w \in CompHands(n) BY <1>1, <3>1 DEF CompTypeOK
    <3>3. PICK u : u = [w EXCEPT !.step = "checking", !.req = j.req, !.grant = j.grant] OBVIOUS
    <3>4. u \in CompHands(n) /\ u.step = "checking" /\ u.id = w.id /\ u.req = j.req
      BY <3>2, <3>3, <2>9 DEF CompHands, CompSteps
    <3> QED BY <3>1, <3>3, <3>4, <2>1, <2>3, <1>2
  <2>11. \A k \in DOMAIN coJobs : coJobs'[k].req = coJobs[k].req BY <2>8, <2>6, <2>3
  <2>12. CompTypeOK' BY <1>1, <1>3, <1>4, <2>8, <2>10 DEF CompTypeOK
  <2>13. CompDiskTrue' BY <1>1, <1>3, <2>8, <2>11 DEF CompDiskTrue
  <2>14. CompOneJob' BY <1>1, <2>8, <2>11 DEF CompOneJob
  <2>15. CompQueueOnce' BY <1>1, <1>2, <1>3, <2>10 DEF CompQueueOnce
  <2>16. CompJobsPlaced'
    BY <1>1, <1>2, <1>3, <2>2, <2>3, <2>6, <2>8, <2>10 DEF CompJobsPlaced, CompAtWork
  <2>17. CompRanOnce'
    BY <1>1, <1>2, <1>3, <2>8, <2>10, <2>11 DEF CompRanOnce, CompTaken
  <2> QED BY <2>12, <2>13, <2>14, <2>15, <2>16, <2>17 DEF CompInv
<1> QED BY <1>5, <1>6

\* What a fault uses up.
LEMMA CompFaultCounts ==
  ASSUME NEW f, coUsed \in CompCounts, CompFault(f)
  PROVE coUsed' \in CompCounts /\ coUsed'.ids = coUsed.ids
<1>1. PICK u, v : u = coUsed /\ v = coUsed' OBVIOUS
<1>2. u \in CompCounts /\ v = [u EXCEPT !.faults = u.faults + 1] BY <1>1 DEF CompFault
<1>3. v \in CompCounts /\ v.ids = u.ids BY <1>2 DEF CompCounts
<1> QED BY <1>1, <1>3

\* Finish: only what the worker has changes.
LEMMA CompFinishes == ASSUME CompInv, Finish PROVE CompInv'
<1>1. CompTypeOK /\ CompDiskTrue /\ CompOneJob /\ CompQueueOnce /\ CompJobsPlaced /\ CompRanOnce
  BY CompParts
<1>2. /\ coWorker.step = "running"
      /\ UNCHANGED <<coJobs, coQueue, coDisk, coGrant, coPreview, coRuns>>
  BY DEF Finish
<1>3. coUsed \in CompCounts BY <1>1 DEF CompTypeOK
<1>4. coUsed' \in CompCounts /\ coUsed'.ids = coUsed.ids
  <2>1. UNCHANGED coUsed \/ CompFault("fail") BY Zenon DEF Finish
  <2> QED BY <2>1, <1>3, CompFaultCounts
<1>5. PICK o \in CompEnds : coWorker' = [coWorker EXCEPT !.step = "ended", !.outcome = o]
  <2>1. "canceled" \in CompEnds /\ "done" \in CompEnds /\ "failed" \in CompEnds BY DEF CompEnds
  <2> QED BY <2>1, Zenon DEF Finish
<1>6. /\ coWorker' \in CompHands(coUsed.ids) /\ coWorker'.step = "ended"
      /\ coWorker'.id = coWorker.id /\ coWorker'.req = coWorker.req
  <2>1. PICK w, n : w = coWorker /\ n = coUsed.ids OBVIOUS
  <2>2. w \in CompHands(n) BY <1>1, <2>1 DEF CompTypeOK
  <2>3. PICK u : u = [w EXCEPT !.step = "ended", !.outcome = o] OBVIOUS
  <2>4. u \in CompHands(n) /\ u.step = "ended" /\ u.id = w.id /\ u.req = w.req
    BY <2>2, <2>3 DEF CompHands, CompSteps
  <2> QED BY <2>1, <2>3, <2>4, <1>5
<1> QED BY <1>2, <1>4, <1>6, CompWorkerMoves

\* Spawn: the request of the job in hand was not started before, because its one
\* job is this one.
LEMMA CompSpawns == ASSUME CompInv, Spawn, CompAssumption PROVE CompInv'
<1>1. CompTypeOK /\ CompDiskTrue /\ CompOneJob /\ CompQueueOnce /\ CompJobsPlaced /\ CompRanOnce
  BY CompParts
<1>2. coWorker.step = "checking" /\ UNCHANGED <<coJobs, coQueue, coDisk, coGrant, coPreview>>
  BY DEF Spawn
<1>3. coUsed \in CompCounts BY <1>1 DEF CompTypeOK
<1>4. coUsed' \in CompCounts /\ coUsed'.ids = coUsed.ids
  <2>1. UNCHANGED coUsed \/ CompFault("fail") BY Zenon DEF Spawn
  <2> QED BY <2>1, <1>3, CompFaultCounts
<1>5. PICK s \in {"running", "ended"}, o \in CompEnds :
        coWorker' = [coWorker EXCEPT !.step = s, !.outcome = o]
  <2>1. CASE coWorker' = [coWorker EXCEPT !.step = "running"]
    <3>1. PICK w, n : w = coWorker /\ n = coUsed.ids OBVIOUS
    <3>2. w \in CompHands(n) BY <1>1, <3>1 DEF CompTypeOK
    <3>3. w.outcome \in CompEnds BY <3>2, CompHandFields
    <3>4. [w EXCEPT !.step = "running"] = [w EXCEPT !.step = "running", !.outcome = w.outcome]
      BY <3>2 DEF CompHands
    <3>5. coWorker' = [coWorker EXCEPT !.step = "running", !.outcome = w.outcome] BY <3>4, <3>1, <2>1
    <3> QED BY <3>5, <3>3
  <2>2. CASE coWorker' = [coWorker EXCEPT !.step = "ended", !.outcome = "failed"]
    <3>1. "failed" \in CompEnds BY DEF CompEnds
    <3> QED BY <2>2, <3>1
  <2> QED BY <2>1, <2>2, Zenon DEF Spawn
<1>6. /\ coWorker' \in CompHands(coUsed.ids) /\ coWorker'.step \in {"running", "ended"}
      /\ coWorker'.id = coWorker.id /\ coWorker'.req = coWorker.req
  <2>1. PICK w, n : w = coWorker /\ n = coUsed.ids OBVIOUS
  <2>2. w \in CompHands(n) BY <1>1, <2>1 DEF CompTypeOK
  <2>3. PICK u : u = [w EXCEPT !.step = s, !.outcome = o] OBVIOUS
  <2>4. u \in CompHands(n) /\ u.step = s /\ u.id = w.id /\ u.req = w.req
    BY <2>2, <2>3 DEF CompHands, CompSteps
  <2> QED BY <2>1, <2>3, <2>4, <1>5
<1>7. CASE UNCHANGED coRuns
  BY <1>2, <1>4, <1>6, <1>7, CompWorkerMoves
<1>8. CASE /\ coWorker.id \in DOMAIN coJobs
           /\ coRuns' = [coRuns EXCEPT ![coWorker.req] = coRuns[coWorker.req] + 1]
  <2>1. PICK i, q : i = coWorker.id /\ q = coWorker.req OBVIOUS
  <2>2. /\ i \in DOMAIN coJobs /\ ~coJobs[i].queued /\ ~coJobs[i].superseded /\ q = coJobs[i].req
    BY <1>1, <1>2, <1>8, <2>1 DEF CompJobsPlaced, CompAtWork
  <2>3. q \in CompReq /\ coRuns \in [CompReq -> Nat]
    BY <1>1, <2>2, CompJobFields DEF CompTypeOK
  <2>4. /\ coRuns' \in [CompReq -> Nat] /\ coRuns'[q] = coRuns[q] + 1
        /\ \A r \in CompReq : r # q => coRuns'[r] = coRuns[r]
    BY <1>8, <2>1, <2>3
  <2>5. i \notin Range(coQueue) BY <1>1, <1>2, <2>1 DEF CompQueueOnce
  <2>6. CompTypeOK' BY <1>1, <1>2, <1>4, <1>6, <2>4 DEF CompTypeOK
  <2>7. CompDiskTrue' /\ CompOneJob' BY <1>1, <1>2 DEF CompDiskTrue, CompOneJob
  <2>8. CompQueueOnce' BY <1>1, <1>2, <1>6 DEF CompQueueOnce
  <2>9. CompJobsPlaced' BY <1>1, <1>2, <1>6 DEF CompJobsPlaced, CompAtWork
  <2>10. CompRanOnce'
    <3>1. q \in CompKept => coRuns[q] = 0
      <4>1. SUFFICES ASSUME q \in CompKept, coRuns[q] > 0 PROVE FALSE BY <2>3
      <4>2. PICK k \in DOMAIN coJobs : coJobs[k].req = q /\ ~CompTaken(k)
        BY <4>1, <1>1 DEF CompRanOnce
      <4>3. k = i BY <4>1, <4>2, <2>2, <1>1 DEF CompOneJob
      <4> QED BY <4>2, <4>3, <2>1, <1>2 DEF CompTaken
    <3>2. ASSUME NEW r \in CompKept PROVE
            /\ coRuns'[r] <= 1
            /\ coRuns'[r] > 0 => \E k \in DOMAIN coJobs :
                 coJobs[k].req = r /\ k \notin Range(coQueue) /\ ~CompTaken(k)'
      <4>1. r \in CompReq BY CompAssumption DEF CompAssumption
      <4>2. CASE r = q
        <5>1. ~CompTaken(i)' BY <1>6 DEF CompTaken
        <5>2. coRuns'[r] <= 1 BY <4>2, <3>1, <2>4
        <5> QED BY <5>1, <5>2, <4>2, <2>2, <2>5
      <4>3. CASE r # q
        <5>1. coRuns'[r] = coRuns[r] BY <4>1, <4>3, <2>4
        <5>2. \A k : ~CompTaken(k)' BY <1>6 DEF CompTaken
        <5> QED BY <5>1, <5>2, <1>1 DEF CompRanOnce
      <4> QED BY <4>2, <4>3
    <3> QED BY <3>2, <1>2 DEF CompRanOnce
  <2> QED BY <2>6, <2>7, <2>8, <2>9, <2>10 DEF CompInv
<1> QED BY <1>7, <1>8, Zenon DEF Spawn

\* Conclude: the outcome is never "running", whatever the disk does.
LEMMA CompConcludes == ASSUME CompInv, Conclude PROVE CompInv'
<1>1. CompTypeOK /\ CompDiskTrue /\ CompOneJob /\ CompQueueOnce /\ CompJobsPlaced /\ CompRanOnce
  BY CompParts
<1>2. PICK i, o : i = coWorker.id /\ o = coWorker.outcome OBVIOUS
<1>3. coWorker.step = "ended" /\ coWorker' = NoHand /\ UNCHANGED <<coQueue, coGrant, coPreview, coRuns>>
  BY DEF Conclude
<1>4. coUsed.ids \in Nat /\ coUsed \in CompCounts BY <1>1 DEF CompTypeOK, CompCounts
<1>5. coWorker' \in CompHands(coUsed.ids) /\ coWorker'.step = "idle" BY <1>3, <1>4, CompNoHand
<1>6. CASE i \notin DOMAIN coJobs
  <2>1. UNCHANGED <<coJobs, coDisk, coUsed>> BY <1>2, <1>6, Zenon DEF Conclude
  <2> QED BY <2>1, <1>2, <1>3, <1>4, <1>5, <1>6, CompWorkerMoves
<1>7. CASE i \in DOMAIN coJobs
  <2>1. /\ coJobs' = [coJobs EXCEPT ![i].state = o, ![i].finished = TRUE]
        /\ \/ /\ coDisk' = IF coWorker.req \in CompKept THEN [coDisk EXCEPT ![i].state = o] ELSE coDisk
              /\ UNCHANGED coUsed
           \/ CompFault("disk") /\ UNCHANGED coDisk
    BY <1>2, <1>7, Zenon DEF Conclude
  <2>2. coUsed' \in CompCounts /\ coUsed'.ids = coUsed.ids BY <2>1, <1>4, CompFaultCounts
  <2>3. PICK j : j = coJobs[i] OBVIOUS
  <2>4. j \in CompJobs BY <1>1, <1>7, <2>3 DEF CompTypeOK
  <2>5. o \in CompEnds
    <3>1. PICK w, n : w = coWorker /\ n = coUsed.ids OBVIOUS
    <3>2. w \in CompHands(n) BY <1>1, <3>1 DEF CompTypeOK
    <3> QED BY <3>1, <3>2, <1>2, CompHandFields
  <2>6. PICK v : v = [j EXCEPT !.state = o, !.finished = TRUE] OBVIOUS
  <2>7. /\ v \in CompJobs /\ v.req = j.req /\ v.queued = j.queued /\ v.state = o
        /\ v.superseded = j.superseded
    BY <2>4, <2>5, <2>6 DEF CompJobs
  <2>8. coJobs' = [coJobs EXCEPT ![i] = v] BY <2>1, <1>7, <2>3, <2>6, <1>1 DEF CompTypeOK
  <2>9. /\ DOMAIN coJobs' = DOMAIN coJobs /\ coJobs' \in [DOMAIN coJobs' -> CompJobs]
        /\ coJobs'[i] = v /\ \A k \in DOMAIN coJobs : k # i => coJobs'[k] = coJobs[k]
    BY <1>7, <2>7, <2>8, <1>1, CompJobChanged
  <2>10. \A k \in DOMAIN coJobs : coJobs'[k].req = coJobs[k].req BY <2>9, <2>7, <2>3
  <2>11. /\ DOMAIN coDisk' = DOMAIN coDisk /\ coDisk' \in [DOMAIN coDisk' -> CompRecords]
         /\ \A k \in DOMAIN coDisk : coDisk'[k].req = coDisk[k].req
    <3>1. coDisk \in [DOMAIN coDisk -> CompRecords] BY <1>1 DEF CompTypeOK
    <3>2. CASE UNCHANGED coDisk BY <3>1, <3>2
    <3>3. CASE coDisk' = [coDisk EXCEPT ![i].state = o] /\ i \notin DOMAIN coDisk BY <3>1, <3>3
    <3>4. CASE coDisk' = [coDisk EXCEPT ![i].state = o] /\ i \in DOMAIN coDisk
      <4>1. PICK d : d = coDisk[i] OBVIOUS
      <4>2. d \in CompRecords BY <3>1, <3>4, <4>1
      <4>3. PICK e : e = [d EXCEPT !.state = o] OBVIOUS
      <4>4. e \in CompRecords /\ e.req = d.req BY <4>2, <4>3, <2>5 DEF CompRecords
      <4>5. coDisk' = [coDisk EXCEPT ![i] = e] BY <3>4, <4>1, <4>3
      <4> QED BY <4>1, <4>4, <4>5, <3>1
    <3> QED BY <2>1, <3>2, <3>3, <3>4
  <2>12. CompTypeOK' BY <1>1, <1>3, <1>4, <1>5, <2>2, <2>9, <2>11 DEF CompTypeOK
  <2>13. CompDiskTrue' BY <1>1, <2>9, <2>10, <2>11 DEF CompDiskTrue
  <2>14. CompOneJob' BY <1>1, <2>9, <2>10 DEF CompOneJob
  <2>15. CompQueueOnce' BY <1>1, <1>3, <1>5 DEF CompQueueOnce
  <2>16. CompJobsPlaced'
    <3>1. ~j.queued /\ ~j.superseded
      BY <1>1, <1>2, <1>3, <1>7, <2>3 DEF CompJobsPlaced, CompAtWork
    <3>2. o # "running" BY <2>5 DEF CompEnds
    <3> QED BY <1>1, <1>2, <1>3, <1>5, <2>3, <2>7, <2>9, <3>1, <3>2 DEF CompJobsPlaced, CompAtWork
  <2>17. CompRanOnce'
    BY <1>1, <1>3, <1>5, <2>9, <2>10 DEF CompRanOnce, CompTaken
  <2> QED BY <2>12, <2>13, <2>14, <2>15, <2>16, <2>17 DEF CompInv
<1> QED BY <1>6, <1>7

\* A job forgotten: deleted while it waits or runs, or aged out.
LEMMA CompForgets ==
  ASSUME CompInv, CompAssumption, NEW i \in DOMAIN coJobs,
         coJobs' = Drop(coJobs, {i}), coDisk' = Drop(coDisk, {i}),
         coRuns' = [coRuns EXCEPT ![coJobs[i].req] = 0],
         coQueue' = coQueue \/ coQueue' = Waiting({i}), UNCHANGED <<coWorker, coGrant, coUsed>>
  PROVE CompInv'
<1>1. CompTypeOK /\ CompDiskTrue /\ CompOneJob /\ CompQueueOnce /\ CompJobsPlaced /\ CompRanOnce
  BY CompParts
<1>2. /\ DOMAIN coJobs' = DOMAIN coJobs \ {i} /\ coJobs' \in [DOMAIN coJobs' -> CompJobs]
      /\ \A k \in DOMAIN coJobs' : coJobs'[k] = coJobs[k]
  BY <1>1 DEF CompTypeOK, Drop, Restrict
<1>3. /\ DOMAIN coDisk' = DOMAIN coDisk \ {i} /\ coDisk' \in [DOMAIN coDisk' -> CompRecords]
      /\ \A k \in DOMAIN coDisk' : coDisk'[k] = coDisk[k]
  BY <1>1 DEF CompTypeOK, Drop, Restrict
<1>4. PICK q, X : q = coJobs[i].req /\ X = 1..coUsed.ids OBVIOUS
<1>5. coQueue \in Seq(X) /\ Len(coQueue) <= CompQueue /\ IsInjective(coQueue)
  BY <1>1, <1>4 DEF CompTypeOK, CompQueueOnce
<1>6. /\ coQueue' \in Seq(X) /\ Len(coQueue') <= Len(coQueue) /\ IsInjective(coQueue')
      /\ Range(coQueue') \subseteq Range(coQueue) /\ Range(coQueue) \ {i} \subseteq Range(coQueue')
  <2>1. CASE coQueue' = coQueue BY <2>1, <1>5
  <2>2. CASE coQueue' = Waiting({i})
    <3>1. PICK S : S = {i} OBVIOUS
    <3>2. /\ Waiting(S) \in Seq(X) /\ Len(Waiting(S)) <= Len(coQueue)
          /\ Range(Waiting(S)) = Range(coQueue) \ S /\ IsInjective(Waiting(S))
      BY <1>5, WaitingKeeps
    <3> QED BY <3>1, <3>2, <2>2
  <2> QED BY <2>1, <2>2
<1>7. q \in CompReq BY <1>1, <1>4, CompJobFields DEF CompTypeOK
<1>8. /\ coRuns' \in [CompReq -> Nat] /\ coRuns'[q] = 0
      /\ \A r \in CompReq : r # q => coRuns'[r] = coRuns[r]
  BY <1>1, <1>4, <1>7 DEF CompTypeOK
<1>9. CompTypeOK' BY <1>1, <1>2, <1>3, <1>4, <1>6, <1>8 DEF CompTypeOK
<1>10. CompDiskTrue' BY <1>1, <1>2, <1>3 DEF CompDiskTrue
<1>11. CompOneJob' BY <1>1, <1>2 DEF CompOneJob
<1>12. CompQueueOnce'
  <2>1. Len(coQueue) \in Nat /\ Len(coQueue') \in Nat /\ CompQueue \in Nat
    BY <1>5, <1>6, CompAssumption DEF CompAssumption
  <2>2. Len(coQueue') <= CompQueue BY <2>1, <1>5, <1>6
  <2> QED BY <1>1, <1>6, <2>2 DEF CompQueueOnce
<1>13. CompJobsPlaced'
  <2>1. ASSUME NEW k \in DOMAIN coJobs'
        PROVE k \in DOMAIN coJobs /\ k # i /\ coJobs'[k] = coJobs[k]
              /\ (k \in Range(coQueue) => k \in Range(coQueue'))
    BY <1>2, <1>6
  <2>2. ASSUME NEW k \in DOMAIN coJobs'
        PROVE /\ coJobs'[k].queued =>
                   /\ coJobs'[k].state = "queued" /\ ~coJobs'[k].superseded
                   /\ k \in Range(coQueue') \/ (coWorker'.id = k /\ coWorker'.step = "popped")
              /\ coJobs'[k].superseded => coJobs'[k].state = "queued"
              /\ coJobs'[k].state = "running" => CompAtWork(k)'
              /\ CompAtWork(k)' => /\ ~coJobs'[k].queued /\ ~coJobs'[k].superseded
                                   /\ coWorker'.req = coJobs'[k].req
    <3>1. CompAtWork(k)' <=> CompAtWork(k) BY DEF CompAtWork
    <3>2. PICK j : j = coJobs[k] OBVIOUS
    <3>3. coJobs'[k] = j /\ k \in DOMAIN coJobs BY <3>2, <2>1
    <3>4. /\ j.queued => /\ j.state = "queued" /\ ~j.superseded
                         /\ k \in Range(coQueue) \/ (coWorker.id = k /\ coWorker.step = "popped")
          /\ j.superseded => j.state = "queued"
          /\ j.state = "running" => CompAtWork(k)
          /\ CompAtWork(k) => ~j.queued /\ ~j.superseded /\ coWorker.req = j.req
      BY <3>2, <3>3, <1>1 DEF CompJobsPlaced
    <3> QED BY <2>1, <3>1, <3>3, <3>4
  <2> QED BY <2>2 DEF CompJobsPlaced
<1>14. CompRanOnce'
  <2>1. ASSUME NEW r \in CompKept PROVE
          /\ coRuns'[r] <= 1
          /\ coRuns'[r] > 0 => \E k \in DOMAIN coJobs' :
               coJobs'[k].req = r /\ k \notin Range(coQueue') /\ ~CompTaken(k)'
    <3>1. r \in CompReq BY CompAssumption DEF CompAssumption
    <3>2. CASE r = q BY <3>2, <1>8
    <3>3. CASE r # q
      <4>1. coRuns'[r] = coRuns[r] /\ coRuns[r] <= 1 BY <3>1, <3>3, <1>8, <1>1 DEF CompRanOnce
      <4>2. ASSUME coRuns[r] > 0 PROVE \E k \in DOMAIN coJobs' :
               coJobs'[k].req = r /\ k \notin Range(coQueue') /\ ~CompTaken(k)'
        <5>1. PICK k \in DOMAIN coJobs : coJobs[k].req = r /\ k \notin Range(coQueue) /\ ~CompTaken(k)
          BY <4>2, <1>1 DEF CompRanOnce
        <5>2. k \in DOMAIN coJobs' BY <5>1, <3>3, <1>2, <1>4
        <5> QED BY <5>1, <5>2, <1>2, <1>6 DEF CompTaken
      <4> QED BY <4>1, <4>2
    <3> QED BY <3>2, <3>3
  <2> QED BY <2>1 DEF CompRanOnce
<1> QED BY <1>9, <1>10, <1>11, <1>12, <1>13, <1>14 DEF CompInv

\* CancelJob: out of the queue, or marked.
LEMMA CompCancels == ASSUME CompInv, CompAssumption, NEW i, CancelJob(i) PROVE CompInv'
<1>1. CompTypeOK /\ CompDiskTrue /\ CompOneJob /\ CompQueueOnce /\ CompJobsPlaced /\ CompRanOnce
  BY CompParts
<1>2. /\ i \in DOMAIN coJobs /\ ~coJobs[i].superseded
      /\ UNCHANGED <<coWorker, coDisk, coGrant, coPreview, coRuns, coUsed>>
  BY DEF CancelJob
<1>3. PICK j : j = coJobs[i] OBVIOUS
<1>4. j \in CompJobs BY <1>1, <1>2, <1>3 DEF CompTypeOK
<1>5. PICK v : /\ coJobs' = [coJobs EXCEPT ![i] = v] /\ v \in CompJobs /\ v.req = j.req
               /\ v.superseded = FALSE /\ v.queued = FALSE
               /\ v.state = "canceled" \/ (v.state = j.state /\ ~j.queued)
               /\ \/ j.queued /\ coQueue' = Waiting({i})
                  \/ ~j.queued /\ coQueue' = coQueue
  <2>1. CASE j.queued
    <3>1. PICK v : v = [j EXCEPT !.cancel = TRUE, !.queued = FALSE, !.state = "canceled",
                                 !.finished = TRUE] OBVIOUS
    <3>2. coJobs' = [coJobs EXCEPT ![i] = v] /\ coQueue' = Waiting({i})
      BY <2>1, <3>1, <1>2, <1>3 DEF CancelJob
    <3>3. /\ v \in CompJobs /\ v.req = j.req /\ v.superseded = j.superseded /\ v.queued = FALSE
          /\ v.state = "canceled"
      BY <1>4, <3>1 DEF CompJobs, CompEnds
    <3>4. v.superseded = FALSE BY <3>3, <1>2, <1>3, <1>4, CompJobFields
    <3> QED BY <2>1, <3>2, <3>3, <3>4
  <2>2. CASE ~j.queued
    <3>1. PICK v : v = [j EXCEPT !.cancel = TRUE] OBVIOUS
    <3>2. coJobs' = [coJobs EXCEPT ![i] = v] /\ coQueue' = coQueue
      BY <2>2, <3>1, <1>2, <1>3 DEF CancelJob
    <3>3. /\ v \in CompJobs /\ v.req = j.req /\ v.superseded = j.superseded /\ v.queued = j.queued
          /\ v.state = j.state
      BY <1>4, <3>1 DEF CompJobs, CompEnds
    <3>4. v.superseded = FALSE /\ v.queued = FALSE
      BY <3>3, <1>2, <1>3, <1>4, <2>2, CompJobFields
    <3> QED BY <2>2, <3>2, <3>3, <3>4
  <2> QED BY <2>1, <2>2
<1>6. /\ DOMAIN coJobs' = DOMAIN coJobs /\ coJobs' \in [DOMAIN coJobs' -> CompJobs]
      /\ coJobs'[i] = v /\ \A k \in DOMAIN coJobs : k # i => coJobs'[k] = coJobs[k]
  BY <1>1, <1>2, <1>5, CompJobChanged
<1>7. \A k \in DOMAIN coJobs : coJobs'[k].req = coJobs[k].req BY <1>3, <1>5, <1>6
<1>8. PICK X : X = 1..coUsed.ids OBVIOUS
<1>9. coQueue \in Seq(X) /\ Len(coQueue) <= CompQueue /\ IsInjective(coQueue)
  BY <1>1, <1>8 DEF CompTypeOK, CompQueueOnce
<1>10. /\ coQueue' \in Seq(X) /\ Len(coQueue') <= Len(coQueue) /\ IsInjective(coQueue')
       /\ Range(coQueue') \subseteq Range(coQueue) /\ Range(coQueue) \ {i} \subseteq Range(coQueue')
  <2>1. CASE coQueue' = coQueue BY <2>1, <1>9
  <2>2. CASE coQueue' = Waiting({i})
    <3>1. PICK S : S = {i} OBVIOUS
    <3>2. /\ Waiting(S) \in Seq(X) /\ Len(Waiting(S)) <= Len(coQueue)
          /\ Range(Waiting(S)) = Range(coQueue) \ S /\ IsInjective(Waiting(S))
      BY <1>9, WaitingKeeps
    <3> QED BY <3>1, <3>2, <2>2
  <2> QED BY <2>1, <2>2, <1>5
<1>11. CompTypeOK' BY <1>1, <1>2, <1>6, <1>8, <1>10 DEF CompTypeOK
<1>12. CompDiskTrue' BY <1>1, <1>2, <1>6, <1>7 DEF CompDiskTrue
<1>13. CompOneJob' BY <1>1, <1>6, <1>7 DEF CompOneJob
<1>14. CompQueueOnce'
  <2>1. Len(coQueue) \in Nat /\ Len(coQueue') \in Nat /\ CompQueue \in Nat
    BY <1>9, <1>10, CompAssumption DEF CompAssumption
  <2>2. Len(coQueue') <= CompQueue BY <2>1, <1>9, <1>10
  <2> QED BY <1>1, <1>2, <1>10, <2>2 DEF CompQueueOnce
<1>15. CompJobsPlaced'
  BY <1>1, <1>2, <1>3, <1>5, <1>6, <1>10 DEF CompJobsPlaced, CompAtWork
<1>16. CompRanOnce' BY <1>1, <1>2, <1>6, <1>7, <1>10 DEF CompRanOnce, CompTaken
<1> QED BY <1>11, <1>12, <1>13, <1>14, <1>15, <1>16 DEF CompInv

\* What a newer generation leaves of the table and of the queue.
LEMMA CompSupersedes ==
  ASSUME CompInv, CompAssumption, NEW r, NEW t, t = Superseding(r), NEW w, w = Waiting(Outdated(r))
  PROVE /\ DOMAIN t = DOMAIN coJobs /\ t \in [DOMAIN coJobs -> CompJobs]
        /\ w \in Seq(1..coUsed.ids) /\ IsInjective(w) /\ Len(w) \in Nat /\ Len(w) <= CompQueue
        /\ Range(w) \subseteq Range(coQueue)
        /\ \A i \in DOMAIN coJobs :
             /\ t[i].req = coJobs[i].req
             /\ t[i].queued => /\ t[i].state = "queued" /\ ~t[i].superseded
                               /\ i \in Range(w) \/ (coWorker.id = i /\ coWorker.step = "popped")
             /\ t[i].superseded => t[i].state = "queued"
             /\ t[i].state = "running" => CompAtWork(i)
             /\ CompAtWork(i) => /\ ~t[i].queued /\ ~t[i].superseded
                                 /\ coWorker.req = t[i].req
<1>1. CompTypeOK /\ CompDiskTrue /\ CompOneJob /\ CompQueueOnce /\ CompJobsPlaced /\ CompRanOnce
  BY CompParts
<1>2. PICK D, X : D = Outdated(r) /\ X = 1..coUsed.ids OBVIOUS
<1>3. coQueue \in Seq(X) /\ Len(coQueue) <= CompQueue /\ IsInjective(coQueue)
  BY <1>1, <1>2 DEF CompTypeOK, CompQueueOnce
<1>4. w = Waiting(D) BY <1>2
<1>5. /\ w \in Seq(X) /\ Len(w) <= Len(coQueue) /\ Range(w) = Range(coQueue) \ D /\ IsInjective(w)
  BY <1>3, <1>4, WaitingKeeps
<1>6. Len(w) \in Nat /\ Len(w) <= CompQueue
  <2>1. Len(coQueue) \in Nat /\ Len(w) \in Nat /\ CompQueue \in Nat
    BY <1>3, <1>5, CompAssumption DEF CompAssumption
  <2> QED BY <2>1, <1>3, <1>5
<1>7. t = [i \in DOMAIN coJobs |->
             IF i \in D THEN [coJobs[i] EXCEPT !.superseded = TRUE, !.queued = FALSE] ELSE coJobs[i]]
  BY <1>2, Zenon DEF Superseding
<1>8. ASSUME NEW i \in DOMAIN coJobs
      PROVE /\ t[i] \in CompJobs /\ t[i].req = coJobs[i].req
            /\ t[i].queued => /\ t[i].state = "queued" /\ ~t[i].superseded
                              /\ i \in Range(w) \/ (coWorker.id = i /\ coWorker.step = "popped")
            /\ t[i].superseded => t[i].state = "queued"
            /\ t[i].state = "running" => CompAtWork(i)
            /\ CompAtWork(i) => /\ ~t[i].queued /\ ~t[i].superseded
                                /\ coWorker.req = t[i].req
  <2>1. PICK j : j = coJobs[i] OBVIOUS
  <2>2. j \in CompJobs BY <1>1, <2>1 DEF CompTypeOK
  <2>3. CASE i \notin D
    <3>1. t[i] = j BY <1>7, <2>1, <2>3
    <3>2. i \in Range(coQueue) => i \in Range(w) BY <1>5, <2>3
    <3> QED BY <3>1, <3>2, <2>1, <2>2, <1>1 DEF CompJobsPlaced
  <2>4. CASE i \in D
    <3>1. j.queued BY <2>4, <2>1, <1>2 DEF Outdated
    <3>2. PICK v : v = [j EXCEPT !.superseded = TRUE, !.queued = FALSE] OBVIOUS
    <3>3. /\ v \in CompJobs /\ v.req = j.req /\ v.queued = FALSE /\ v.superseded = TRUE
          /\ v.state = j.state
      BY <2>2, <3>2 DEF CompJobs
    <3>4. t[i] = v BY <1>7, <2>1, <2>4, <3>2
    <3>5. j.state = "queued" /\ ~CompAtWork(i) BY <3>1, <2>1, <1>1 DEF CompJobsPlaced
    <3> QED BY <3>3, <3>4, <3>5, <2>1
  <2> QED BY <2>3, <2>4
<1>9. DOMAIN t = DOMAIN coJobs /\ t = [i \in DOMAIN coJobs |-> t[i]] BY <1>7
<1>10. t \in [DOMAIN coJobs -> CompJobs] BY <1>8, <1>9
<1> QED BY <1>2, <1>5, <1>6, <1>8, <1>9, <1>10

\* Post: a recorded request has no job yet, and the queue has a place.
LEMMA CompPosts == ASSUME CompInv, CompAssumption, NEW r \in CompReq, Post(r) PROVE CompInv'
<1>1. CompTypeOK /\ CompDiskTrue /\ CompOneJob /\ CompQueueOnce /\ CompJobsPlaced /\ CompRanOnce
  BY CompParts
<1>2. PICK t, w, id : t = Superseding(r) /\ w = Waiting(Outdated(r)) /\ id = coUsed.ids + 1 OBVIOUS
<1>3. /\ DOMAIN t = DOMAIN coJobs /\ t \in [DOMAIN coJobs -> CompJobs]
      /\ w \in Seq(1..coUsed.ids) /\ IsInjective(w) /\ Len(w) \in Nat /\ Len(w) <= CompQueue
      /\ Range(w) \subseteq Range(coQueue)
      /\ \A i \in DOMAIN coJobs :
           /\ t[i].req = coJobs[i].req
           /\ t[i].queued => /\ t[i].state = "queued" /\ ~t[i].superseded
                             /\ i \in Range(w) \/ (coWorker.id = i /\ coWorker.step = "popped")
           /\ t[i].superseded => t[i].state = "queued"
           /\ t[i].state = "running" => CompAtWork(i)
           /\ CompAtWork(i) => /\ ~t[i].queued /\ ~t[i].superseded
                               /\ coWorker.req = t[i].req
  BY <1>2, CompSupersedes
<1>4. /\ UNCHANGED <<coWorker, coGrant, coPreview, coRuns>>
      /\ r \in CompKept => KnownJob(r) = {}
  BY DEF Post, Admissible
<1>5. coUsed \in CompCounts /\ coUsed.ids \in Nat BY <1>1 DEF CompTypeOK, CompCounts
<1>6. \/ /\ Len(w) < CompQueue
         /\ coJobs' = Put(t, id, CompJob(r)) /\ coQueue' = Append(w, id)
         /\ coDisk' = IF r \in CompKept THEN Put(coDisk, id, [req |-> r, state |-> "queued"])
                      ELSE coDisk
         /\ coUsed' = [coUsed EXCEPT !.ids = id]
      \/ /\ coJobs' = t /\ coQueue' = w /\ UNCHANGED coDisk
         /\ UNCHANGED coUsed \/ CompFault("disk")
  <2>1. ~(Len(w) >= CompQueue) => Len(w) < CompQueue
    BY <1>3, CompAssumption DEF CompAssumption
  <2> QED BY <2>1, <1>2, Zenon DEF Post
<1>7. CASE /\ coJobs' = t /\ coQueue' = w /\ UNCHANGED coDisk
           /\ UNCHANGED coUsed \/ CompFault("disk")
  <2>1. coUsed' \in CompCounts /\ coUsed'.ids = coUsed.ids BY <1>5, <1>7, CompFaultCounts
  <2>2. CompTypeOK' BY <1>1, <1>3, <1>4, <1>7, <2>1 DEF CompTypeOK
  <2>3. CompDiskTrue' BY <1>1, <1>3, <1>7 DEF CompDiskTrue
  <2>4. CompOneJob' BY <1>1, <1>3, <1>7 DEF CompOneJob
  <2>5. CompQueueOnce' BY <1>1, <1>3, <1>4, <1>7 DEF CompQueueOnce
  <2>6. CompJobsPlaced' BY <1>3, <1>4, <1>7 DEF CompJobsPlaced, CompAtWork
  <2>7. CompRanOnce' BY <1>1, <1>3, <1>4, <1>7 DEF CompRanOnce, CompTaken
  <2> QED BY <2>2, <2>3, <2>4, <2>5, <2>6, <2>7 DEF CompInv
<1>8. CASE /\ Len(w) < CompQueue
           /\ coJobs' = Put(t, id, CompJob(r)) /\ coQueue' = Append(w, id)
           /\ coDisk' = IF r \in CompKept THEN Put(coDisk, id, [req |-> r, state |-> "queued"])
                        ELSE coDisk
           /\ coUsed' = [coUsed EXCEPT !.ids = id]
  <2>1. PICK j : j = CompJob(r) OBVIOUS
  <2>2. /\ j \in CompJobs /\ j.req = r /\ j.queued = TRUE /\ j.superseded = FALSE
        /\ j.state = "queued"
    BY <1>1, <2>1 DEF CompJob, CompJobs, CompTypeOK
  <2>3. coUsed' \in CompCounts /\ coUsed'.ids = id /\ id \in Nat
    <3>1. PICK u, v : u = coUsed /\ v = coUsed' OBVIOUS
    <3>2. v \in CompCounts /\ v.ids = id BY <3>1, <1>2, <1>5, <1>8 DEF CompCounts
    <3> QED BY <3>1, <3>2, <1>2, <1>5
  <2>4. id \notin DOMAIN coJobs /\ id \notin 1..coUsed.ids /\ 1..coUsed'.ids = 1..coUsed.ids \cup {id}
    BY <1>1, <1>2, <1>5, <2>3 DEF CompTypeOK
  <2>5. /\ DOMAIN coJobs' = DOMAIN coJobs \cup {id} /\ coJobs' \in [DOMAIN coJobs' -> CompJobs]
        /\ coJobs'[id] = j /\ \A k \in DOMAIN coJobs : coJobs'[k] = t[k]
    BY <1>3, <1>8, <2>1, <2>2, <2>4 DEF Put
  <2>6. PICK X : X = 1..id OBVIOUS
  <2>7. w \in Seq(X) /\ id \in X /\ id \notin Range(w) /\ id \notin Range(coQueue)
    <3>1. PICK q, Y : q = coQueue /\ Y = 1..coUsed.ids OBVIOUS
    <3>2. Y \subseteq X /\ q \in Seq(Y) /\ w \in Seq(Y)
      BY <3>1, <2>6, <1>1, <1>2, <1>3, <1>5 DEF CompTypeOK
    <3>3. w \in Seq(X) BY <3>2, RetainWider
    <3>4. Range(q) \subseteq Y BY <3>2, RetainWider
    <3>5. id \in X BY <2>6, <1>2, <1>5
    <3> QED BY <3>1, <3>3, <3>4, <3>5, <1>3, <2>4
  <2>8. /\ coQueue' \in Seq(X) /\ Len(coQueue') = Len(w) + 1 /\ Range(coQueue') = Range(w) \cup {id}
        /\ IsInjective(coQueue')
    <3>1. Append(w, id) \in Seq(X) /\ Len(Append(w, id)) = Len(w) + 1 BY <2>7
    <3>2. Range(Append(w, id)) = Range(w) \cup {id} BY <2>7, RetainAppend
    <3>3. IsInjective(Append(w, id)) BY <1>3, <2>7, InjectiveAppend
    <3> QED BY <3>1, <3>2, <3>3, <1>8
  <2>9. /\ coDisk' \in [DOMAIN coDisk' -> CompRecords]
        /\ DOMAIN coDisk' = DOMAIN coDisk \cup {k \in {id} : r \in CompKept}
        /\ \A k \in DOMAIN coDisk : k # id => coDisk'[k] = coDisk[k]
        /\ r \in CompKept => coDisk'[id].req = r
    <3>1. coDisk \in [DOMAIN coDisk -> CompRecords] BY <1>1 DEF CompTypeOK
    <3>2. CASE r \notin CompKept BY <3>1, <3>2, <1>8
    <3>3. CASE r \in CompKept
      <4>1. PICK d : d = [req |-> r, state |-> "queued"] OBVIOUS
      <4>2. d \in CompRecords /\ d.req = r BY <4>1 DEF CompRecords
      <4>3. coDisk' = Put(coDisk, id, d) BY <1>8, <3>3, <4>1
      <4> QED BY <3>1, <3>3, <4>2, <4>3 DEF Put
    <3> QED BY <3>2, <3>3
  <2>10. CompTypeOK'
    <3>1. coWorker' \in CompHands(coUsed'.ids)
      <4>1. PICK h, n, m : h = coWorker /\ n = coUsed.ids /\ m = id OBVIOUS
      <4>2. h \in CompHands(n) /\ 0..n \subseteq 0..m BY <4>1, <1>1, <1>2, <1>5 DEF CompTypeOK
      <4>3. h \in CompHands(m) BY <4>2 DEF CompHands
      <4> QED BY <4>1, <4>3, <2>3, <1>4
    <3>2. DOMAIN coJobs' \subseteq 1..coUsed'.ids BY <2>4, <2>5, <1>1 DEF CompTypeOK
    <3> QED BY <3>1, <3>2, <1>1, <1>4, <2>3, <2>5, <2>6, <2>8, <2>9 DEF CompTypeOK
  <2>11. CompDiskTrue'
    <3>1. id \notin DOMAIN coDisk BY <2>4, <1>1 DEF CompDiskTrue
    <3>2. \A k \in DOMAIN coJobs : coJobs'[k].req = coJobs[k].req BY <1>3, <2>5
    <3> QED BY <3>1, <3>2, <2>2, <2>4, <2>5, <2>9, <1>1 DEF CompDiskTrue
  <2>12. CompOneJob'
    <3>1. \A k \in DOMAIN coJobs : coJobs'[k].req = coJobs[k].req BY <1>3, <2>5
    <3>2. r \in CompKept => \A k \in DOMAIN coJobs : coJobs[k].req # r BY <1>4 DEF KnownJob
    <3> QED BY <3>1, <3>2, <2>2, <2>5, <1>1 DEF CompOneJob
  <2>13. CompQueueOnce'
    <3>1. Len(coQueue') <= CompQueue BY <2>8, <1>3, <1>8, CompAssumption DEF CompAssumption
    <3>2. coWorker.id # id
      <4>1. PICK h, n : h = coWorker /\ n = coUsed.ids OBVIOUS
      <4>2. h \in CompHands(n) BY <4>1, <1>1 DEF CompTypeOK
      <4>3. h.id \in 0..n BY <4>2, CompHandFields
      <4> QED BY <4>1, <4>3, <1>2, <1>5
    <3> QED BY <3>1, <3>2, <2>8, <1>1, <1>3, <1>4 DEF CompQueueOnce
  <2>14. CompJobsPlaced'
    <3>1. ASSUME NEW k \in DOMAIN coJobs
          PROVE /\ coJobs'[k] = t[k] /\ (k \in Range(w) => k \in Range(coQueue'))
      BY <2>5, <2>8
    <3>2. id \in Range(coQueue') /\ ~CompAtWork(id)'
      <4>1. PICK h, n : h = coWorker /\ n = coUsed.ids OBVIOUS
      <4>2. h \in CompHands(n) BY <4>1, <1>1 DEF CompTypeOK
      <4>3. h.id \in 0..n BY <4>2, CompHandFields
      <4> QED BY <4>1, <4>3, <1>2, <1>4, <1>5, <2>8 DEF CompAtWork
    <3> QED BY <3>1, <3>2, <2>2, <2>5, <1>3, <1>4 DEF CompJobsPlaced, CompAtWork
  <2>15. CompRanOnce'
    <3>1. \A k \in DOMAIN coJobs : coJobs'[k].req = coJobs[k].req /\ k # id BY <1>3, <2>4, <2>5
    <3>2. \A k \in DOMAIN coJobs : k \notin Range(coQueue) => k \notin Range(coQueue')
      BY <3>1, <1>3, <2>8
    <3> QED BY <3>1, <3>2, <2>5, <1>1, <1>4 DEF CompRanOnce, CompTaken
  <2> QED BY <2>10, <2>11, <2>12, <2>13, <2>14, <2>15 DEF CompInv
<1> QED BY <1>6, <1>7, <1>8

\* Previews change nothing the invariant reads.
LEMMA CompPreviews == ASSUME CompInv, StartPreview \/ StopPreview PROVE CompInv'
<1>1. UNCHANGED <<coJobs, coQueue, coWorker, coDisk, coGrant, coRuns, coUsed>>
  BY DEF StartPreview, StopPreview
<1> QED BY <1>1 DEF CompInv, CompTypeOK, CompDiskTrue, CompOneJob, CompQueueOnce, CompJobsPlaced,
      CompAtWork, CompRanOnce, CompTaken

\* Nor does a grant, but the number a later job takes.
LEMMA CompGrantsChange == ASSUME CompInv, Grant PROVE CompInv'
<1>1. CompTypeOK /\ CompDiskTrue /\ CompOneJob /\ CompQueueOnce /\ CompJobsPlaced /\ CompRanOnce
  BY CompParts
<1>2. /\ UNCHANGED <<coJobs, coQueue, coWorker, coDisk, coPreview, coRuns>>
      /\ coUsed' = [coUsed EXCEPT !.grants = coUsed.grants + 1]
      /\ coGrant' \in {0, coUsed.grants + 1}
  BY DEF Grant
<1>3. PICK u, v : u = coUsed /\ v = coUsed' OBVIOUS
<1>4. u \in CompCounts /\ u.grants \in Nat BY <1>1, <1>3 DEF CompTypeOK, CompCounts
<1>5. v \in CompCounts /\ v.ids = u.ids BY <1>2, <1>3, <1>4 DEF CompCounts
<1>6. coGrant' \in Nat BY <1>2, <1>3, <1>4
<1>7. CompTypeOK' BY <1>1, <1>2, <1>3, <1>5, <1>6 DEF CompTypeOK
<1> QED BY <1>1, <1>2, <1>7 DEF CompInv, CompDiskTrue, CompOneJob, CompQueueOnce, CompJobsPlaced,
      CompAtWork, CompRanOnce, CompTaken

\* Restart: every recorded job comes back finished, so what ran is not forgotten.
LEMMA CompRestarts ==
  ASSUME CompInv, CompAssumption, "torn" \notin CompFaults, Restart
  PROVE CompInv'
<1>1. CompTypeOK /\ CompDiskTrue /\ CompOneJob /\ CompQueueOnce /\ CompJobsPlaced /\ CompRanOnce
  BY CompParts
<1>2. /\ CompFault("stop") /\ coWorker' = NoHand /\ coQueue' = <<>> /\ UNCHANGED <<coGrant, coRuns>>
      /\ coJobs' = [i \in DOMAIN coDisk |-> CompRecovered(i)]
      /\ coDisk' = [i \in DOMAIN coDisk |-> [coDisk[i] EXCEPT !.state = CompRecovered(i).state]]
  <2>1. PICK lost \in {{}} \cup {S \in {Torn} : "torn" \in CompFaults} :
          LET kept == DOMAIN coDisk \ lost
          IN /\ coJobs' = [i \in kept |-> CompRecovered(i)]
             /\ coDisk' = [i \in kept |-> [coDisk[i] EXCEPT !.state = CompRecovered(i).state]]
    BY Zenon DEF Restart
  <2>2. DOMAIN coDisk \ lost = DOMAIN coDisk BY <2>1
  <2>3. PICK K : K = DOMAIN coDisk \ lost OBVIOUS
  <2>4. /\ coJobs' = [i \in K |-> CompRecovered(i)]
        /\ coDisk' = [i \in K |-> [coDisk[i] EXCEPT !.state = CompRecovered(i).state]]
    BY <2>1, <2>3, Zenon
  <2>5. K = DOMAIN coDisk BY <2>2, <2>3
  <2> QED BY <2>4, <2>5, Zenon DEF Restart
<1>3. coUsed' \in CompCounts /\ coUsed'.ids = coUsed.ids /\ coUsed.ids \in Nat
  BY <1>1, <1>2, CompFaultCounts DEF CompTypeOK, CompCounts
<1>4. coWorker' \in CompHands(coUsed.ids) /\ coWorker'.step = "idle" BY <1>2, <1>3, CompNoHand
<1>5. ASSUME NEW i \in DOMAIN coDisk
      PROVE /\ coJobs'[i] \in CompJobs /\ coJobs'[i].req = coDisk[i].req /\ coJobs'[i].queued = FALSE
            /\ coJobs'[i].superseded = FALSE /\ coJobs'[i].state # "running"
            /\ coDisk'[i] \in CompRecords /\ coDisk'[i].req = coDisk[i].req
  <2>1. PICK d, e : d = coDisk[i] /\ e = CompRecovered(i) OBVIOUS
  <2>2. d \in CompRecords BY <1>1, <2>1 DEF CompTypeOK
  <2>3. /\ e \in CompJobs /\ e.req = d.req /\ e.queued = FALSE /\ e.superseded = FALSE
        /\ e.state \in CompEnds
    BY <2>1, <2>2 DEF CompRecovered, CompRecords, CompJobs, CompEnds
  <2>4. PICK s : s = e.state OBVIOUS
  <2>5. [d EXCEPT !.state = s] \in CompRecords /\ [d EXCEPT !.state = s].req = d.req
    BY <2>2, <2>3, <2>4 DEF CompRecords
  <2>6. e.state # "running" BY <2>3 DEF CompEnds
  <2> QED BY <2>1, <2>3, <2>4, <2>5, <2>6, <1>2
<1>6. /\ DOMAIN coJobs' = DOMAIN coDisk /\ coJobs' \in [DOMAIN coJobs' -> CompJobs]
      /\ DOMAIN coDisk' = DOMAIN coDisk /\ coDisk' \in [DOMAIN coDisk' -> CompRecords]
  BY <1>2, <1>5
<1>7. \A i \in DOMAIN coDisk : /\ i \in DOMAIN coJobs /\ coDisk[i].req = coJobs[i].req
                               /\ coDisk[i].req \in CompKept
  BY <1>1 DEF CompDiskTrue
<1>8. Range(coQueue') = {} /\ IsInjective(coQueue') /\ Len(coQueue') = 0
      /\ coQueue' \in Seq(1..coUsed.ids)
  BY <1>2 DEF Range, IsInjective
<1>9. CompTypeOK' BY <1>1, <1>2, <1>3, <1>4, <1>6, <1>7, <1>8 DEF CompTypeOK
<1>10. CompDiskTrue' BY <1>5, <1>6, <1>7 DEF CompDiskTrue
<1>11. CompOneJob' BY <1>1, <1>5, <1>6, <1>7 DEF CompOneJob
<1>12. CompQueueOnce' BY <1>4, <1>8, CompAssumption DEF CompQueueOnce, CompAssumption
<1>13. CompJobsPlaced' BY <1>4, <1>5, <1>6 DEF CompJobsPlaced, CompAtWork
<1>14. CompRanOnce'
  <2>1. ASSUME NEW r \in CompKept, coRuns[r] > 0
        PROVE \E i \in DOMAIN coDisk : coDisk[i].req = r
    <3>1. PICK i \in DOMAIN coJobs : coJobs[i].req = r BY <2>1, <1>1 DEF CompRanOnce
    <3> QED BY <3>1, <2>1, <1>1 DEF CompDiskTrue
  <2>2. \A i : ~CompTaken(i)' BY <1>4 DEF CompTaken
  <2>3. ASSUME NEW r \in CompKept
        PROVE /\ coRuns'[r] <= 1
              /\ coRuns'[r] > 0 => \E i \in DOMAIN coJobs' :
                   coJobs'[i].req = r /\ i \notin Range(coQueue') /\ ~CompTaken(i)'
    BY <2>1, <2>2, <1>1, <1>2, <1>5, <1>6, <1>8 DEF CompRanOnce
  <2> QED BY <2>3 DEF CompRanOnce
<1> QED BY <1>9, <1>10, <1>11, <1>12, <1>13, <1>14 DEF CompInv

\* It holds at the start.
LEMMA CompStarts == ASSUME CompAssumption, CompInit PROVE CompInv
<1>1. coUsed \in CompCounts /\ coUsed.ids = 0 BY DEF CompInit, CompCounts
<1>2. coWorker \in CompHands(0) /\ coWorker.step = "idle" BY CompNoHand DEF CompInit
<1>3. coJobs = <<>> /\ coQueue = <<>> /\ coDisk = <<>> /\ coGrant = 1
      /\ coRuns = [r \in CompReq |-> 0]
  BY DEF CompInit
<1>4. CompTypeOK BY <1>1, <1>2, <1>3 DEF CompTypeOK
<1>5. CompDiskTrue /\ CompOneJob BY <1>3 DEF CompDiskTrue, CompOneJob
<1>6. CompQueueOnce BY <1>2, <1>3, CompAssumption DEF CompQueueOnce, CompAssumption, IsInjective
<1>7. CompJobsPlaced BY <1>3 DEF CompJobsPlaced
<1>8. CompRanOnce BY <1>3, CompAssumption DEF CompRanOnce, CompAssumption
<1> QED BY <1>4, <1>5, <1>6, <1>7, <1>8 DEF CompInv

\* It is inductive.
LEMMA CompNextKeeps == ASSUME CompInv, CompAssumption, "torn" \notin CompFaults, [CompNext]_compVars
  PROVE CompInv'
<1>1. CASE CompWork
  BY <1>1, CompPop, CompBegins, CompSpawns, CompFinishes, CompConcludes DEF CompWork
<1>2. CASE StartPreview \/ StopPreview BY <1>2, CompPreviews
<1>3. CASE Grant BY <1>3, CompGrantsChange
<1>4. CASE Restart BY <1>4, CompRestarts
<1>5. CASE \E r \in CompReq : Post(r) BY <1>5, CompPosts
<1>6. CASE \E i \in DOMAIN coJobs : CancelJob(i) \/ DeleteJob(i) \/ Reap(i)
  <2>1. PICK i \in DOMAIN coJobs : CancelJob(i) \/ DeleteJob(i) \/ Reap(i) BY <1>6
  <2>2. CASE CancelJob(i) BY <2>2, CompCancels
  <2>3. CASE DeleteJob(i) BY <2>3, CompForgets DEF DeleteJob, Removed
  <2>4. CASE Reap(i) BY <2>4, CompForgets DEF Reap
  <2> QED BY <2>1, <2>2, <2>3, <2>4
<1>7. CASE UNCHANGED compVars
  BY <1>7 DEF compVars, CompInv, CompTypeOK, CompDiskTrue, CompOneJob, CompQueueOnce,
     CompJobsPlaced, CompAtWork, CompRanOnce, CompTaken
<1> QED BY <1>1, <1>2, <1>3, <1>4, <1>5, <1>6, <1>7, Zenon DEF CompNext

\* It implies what the run checks.
LEMMA CompInvSuffices == ASSUME CompInv PROVE CompJobsRunOnce
<1>1. CompTypeOK /\ CompDiskTrue /\ CompOneJob /\ CompQueueOnce /\ CompJobsPlaced /\ CompRanOnce
  BY CompParts
<1>2. ASSUME NEW i \in Range(coQueue)
      PROVE Cardinality({n \in DOMAIN coQueue : coQueue[n] = i}) = 1
  <2>1. PICK m \in DOMAIN coQueue : coQueue[m] = i BY <1>2 DEF Range
  <2>2. {n \in DOMAIN coQueue : coQueue[n] = i} = {m}
    BY <2>1, <1>1 DEF CompQueueOnce, IsInjective
  <2> QED BY <2>2, FS_Singleton
<1>3. ASSUME NEW i, CompAtWork(i) PROVE InHand(i) BY <1>3 DEF CompAtWork, InHand
<1>4. \A i \in DOMAIN coJobs :
       /\ coJobs[i].queued => i \in Range(coQueue) \/ InHand(i)
       /\ coJobs[i].state = "running" => InHand(i)
       /\ coJobs[i].superseded => coJobs[i].state = "queued"
  BY <1>1, <1>3 DEF CompJobsPlaced, InHand
<1>5. (\A r \in CompKept : coRuns[r] <= 1) /\ Len(coQueue) <= CompQueue
  BY <1>1 DEF CompRanOnce, CompQueueOnce
<1> QED BY <1>2, <1>4, <1>5, Zenon DEF CompJobsRunOnce

\* In every behaviour of the companion whose records are written whole the invariant
\* holds: any number of requests, jobs, posts, restarts and failures.
THEOREM CompanionInvariant ==
  ASSUME "torn" \notin CompFaults PROVE CompSpec => []CompInv
<1>1. CompInit => CompInv BY CompAssumption, CompStarts
<1>2. CompInv /\ [CompNext]_compVars => CompInv' BY CompAssumption, CompNextKeeps
<1> QED BY <1>1, <1>2, PTL DEF CompSpec

\* While the service knows a key it starts the code of that request at most once, and
\* no waiting job is lost from the queue.
THEOREM JobsRunOnce ==
  ASSUME "torn" \notin CompFaults PROVE CompSpec => []CompJobsRunOnce
<1>1. CompInv => CompJobsRunOnce BY CompInvSuffices
<1> QED BY <1>1, CompanionInvariant, PTL

---------------------------------------------------------------------------
(***************************************************************************)
(* The assistant's tool calls, for any keys, batches, workers, limits of   *)
(* the journal and failures: what a call did to the document is confirmed  *)
(* in the runner's journal or still asked for.  The one hypothesis is that *)
(* no part of a batch fails at a server whose lease is live.               *)
(***************************************************************************)

\* What can be called, what an event is about, and the types of an answer, a receipt,
\* a worker's call, the lease and an event.
ToolKinds == {"call", "lookup", "cancel"}
ToolKeys == (ToolKinds \X ToolOp) \cup {<<"note", 0>>}
ToolIds == SUBSET {1, 2}
ToolAnswers == [settled : BOOLEAN, ids : ToolIds]
ToolReceiptSet == [done : BOOLEAN, items : ToolIds]
ToolJobs == [step : {"idle", "sent", "work", "answer", "settle"}, kind : ToolKinds,
             op : ToolOp \cup {0}, epoch : Nat, todo : ToolIds, items : ToolIds,
             answer : ToolAnswers, heard : BOOLEAN]
ToolLeases == [number : Nat, active : BOOLEAN]
ToolEventSet == [key : ToolKeys, resolved : BOOLEAN, ids : ToolIds]
\* The state is of its type.
ToolTypeOK ==
  /\ tlParts \in [ToolOp -> ToolIds] /\ tlReceipt \in [ToolOp -> ToolReceiptSet]
  /\ tlCancel \in [ToolOp -> {"none", "requested", "already"}]
  /\ tlLease \in ToolLeases /\ tlJob \in [ToolJob -> ToolJobs] /\ tlJournal \in Seq(ToolEventSet)
  /\ tlAsk \subseteq ToolKinds \X ToolOp /\ tlTold \in [ToolOp -> ToolIds]

\* A key's effects are final; the journal still has the key to ask for.
Frozen(o) == tlReceipt[o].done \/ tlCancel[o] = "requested"
Asked(o) == <<"call", o>> \in Unresolved(tlJournal)

\* What holds of a key: a receipt names all parts, and only a cancellation without
\* a receipt freezes fewer; what is not confirmed is still asked for.
EffectsTrue(o) ==
  /\ tlParts[o] \subseteq Parts(o) /\ tlTold[o] \subseteq tlParts[o]
  /\ tlReceipt[o].done => tlParts[o] = Parts(o) /\ tlReceipt[o].items = Parts(o)
  /\ tlCancel[o] = "requested" => ~tlReceipt[o].done
  /\ tlCancel[o] = "already" => tlReceipt[o].done
  /\ o \notin ToolBatch /\ ~tlReceipt[o].done => tlParts[o] = {}
  /\ tlParts[o] \subseteq tlTold[o] \/ Asked(o)
\* What holds of a worker's call: the answer it brings is final and names what is
\* there, and the server works only on what is asked for or final.
JobTrue(job) ==
  /\ job.step # "idle" => job.op \in ToolOp /\ job.epoch <= tlLease.number
  /\ job.step = "sent" => job.items = {}
  /\ job.step = "work" => job.kind = "call"
  /\ job.step = "work" /\ job.op \in ToolBatch =>
       /\ job.todo \subseteq Parts(job.op)
       /\ job.items \subseteq tlParts[job.op]
       /\ Live(job.epoch) => job.items = Parts(job.op) \ job.todo
  /\ job.step \in {"sent", "work"} /\ job.kind = "call" => Asked(job.op) \/ Frozen(job.op)
  /\ job.step = "answer" => IF job.answer.settled
       THEN Frozen(job.op) /\ job.answer.ids = tlParts[job.op] ELSE job.answer.ids = {}
  /\ job.step = "settle" =>
       /\ Frozen(job.op) /\ job.answer.ids \subseteq tlParts[job.op]
       /\ tlParts[job.op] \subseteq tlTold[job.op] \cup job.answer.ids
\* The inductive invariant of the tool calls.
ToolInv ==
  /\ ToolTypeOK /\ (\A o \in ToolOp : EffectsTrue(o)) /\ (\A j \in ToolJob : JobTrue(tlJob[j]))

\* What every step leaves to those who are not concerned.
Grows ==
  /\ tlLease' \in ToolLeases /\ tlLease.number <= tlLease'.number
  /\ \A n \in 0..tlLease.number : Live(n)' => Live(n)
  /\ \A o \in ToolOp :
       /\ tlParts[o] \subseteq tlParts'[o] /\ tlTold[o] \subseteq tlTold'[o]
       /\ Frozen(o) => Frozen(o)' /\ tlParts'[o] = tlParts[o]
       /\ Asked(o) => Asked(o)' \/ Frozen(o)'

---------------------------------------------------------------------------
\* A set of numbers has a least one, and a bounded one a greatest.
LEMMA MinOf ==
  ASSUME NEW T, T \subseteq Nat, T # {}
  PROVE Min(T) \in T
<1>1. PICK k \in T : \A i \in T : k <= i BY LeastOf
<1> QED BY <1>1 DEF Min

LEMMA MaxOf ==
  ASSUME NEW n \in Nat, NEW T, T \subseteq 1..n, T # {}
  PROVE Max(T) \in T /\ \A i \in T : i <= Max(T)
<1>0. \A i \in T : i \in Nat /\ i <= n /\ n - i \in Nat OBVIOUS
<1>1. PICK U : U = {n - i : i \in T} OBVIOUS
<1>2. U \subseteq Nat /\ U # {}
  <2>1. \A u \in U : \E i \in T : u = n - i BY <1>1
  <2>2. PICK i \in T : TRUE OBVIOUS
  <2>3. n - i \in U BY <1>1, <2>2
  <2>4. \A u \in U : u \in Nat BY <2>1, <1>0
  <2> QED BY <2>3, <2>4
<1>3. PICK u \in U : \A v \in U : u <= v BY <1>2, LeastOf
<1>4. PICK k \in T : u = n - k BY <1>1
<1>5. ASSUME NEW i \in T PROVE k >= i
  <2>1. n - i \in U BY <1>1
  <2>2. n - k <= n - i BY <1>3, <1>4, <2>1
  <2>3. i \in Nat /\ k \in Nat BY <1>0
  <2> QED BY <2>2, <2>3
<1>6. \E x \in T : \A y \in T : x >= y BY <1>5
<1>7. Max(T) \in T /\ \A y \in T : Max(T) >= y BY <1>6, Zenon DEF Max
<1>8. PICK x : x = Max(T) OBVIOUS
<1>9. \A y \in T : y \in Nat /\ x \in Nat /\ x >= y BY <1>0, <1>7, <1>8
<1>10. \A y \in T : y <= x BY <1>9
<1> QED BY <1>7, <1>8, <1>10

\* RemoveAt takes out one element and closes the gap.
LEMMA RemovedIs ==
  ASSUME NEW T, NEW q \in Seq(T), NEW n \in 1 .. Len(q)
  PROVE  /\ RemoveAt(q, n) \in Seq(T) /\ Len(RemoveAt(q, n)) = Len(q) - 1
         /\ \A i \in 1 .. Len(q) - 1 : RemoveAt(q, n)[i] = IF i < n THEN q[i] ELSE q[i + 1]
<1>1. PICK a, b, e : a = SubSeq(q, 1, n - 1) /\ b = SubSeq(q, n + 1, e) /\ e = Len(q) OBVIOUS
<1>2. e \in Nat /\ n \in 1..e /\ \A i \in 1..e : q[i] \in T BY <1>1
<1>3. a \in Seq(T) /\ Len(a) = n - 1 /\ \A i \in 1..(n - 1) : a[i] = q[i] BY <1>1, <1>2
<1>4. b \in Seq(T) /\ Len(b) = e - n /\ \A i \in 1..(e - n) : b[i] = q[n + i] BY <1>1, <1>2
<1>5. PICK w : w = a \o b OBVIOUS
<1>6. /\ w \in Seq(T) /\ Len(w) = (n - 1) + (e - n)
      /\ \A i \in 1..Len(w) : w[i] = IF i <= n - 1 THEN a[i] ELSE b[i - (n - 1)]
  <2>1. a \in Seq(T) /\ b \in Seq(T) BY <1>3, <1>4
  <2>2. /\ Len(w) = Len(a) + Len(b)
        /\ \A i \in 1..(Len(a) + Len(b)) : w[i] = IF i <= Len(a) THEN a[i] ELSE b[i - Len(a)]
    BY ONLY <2>1, <1>5, ConcatProperties
  <2>3. w \in Seq(T) BY ONLY <2>1, <1>5, ConcatProperties
  <2>4. Len(a) = n - 1 /\ Len(b) = e - n BY <1>3, <1>4
  <2> QED BY ONLY <2>2, <2>3, <2>4
<1>7. Len(w) = e - 1 BY <1>6, <1>2
<1>8. ASSUME NEW i \in 1..(e - 1) PROVE w[i] = IF i < n THEN q[i] ELSE q[i + 1]
  <2>1. CASE i < n
    <3>1. i <= n - 1 /\ i \in 1..(n - 1) BY <2>1, <1>2
    <3> QED BY <3>1, <2>1, <1>3, <1>6, <1>7
  <2>2. CASE ~(i < n)
    <3>1. ~(i <= n - 1) /\ i - (n - 1) \in 1..(e - n) /\ n + (i - (n - 1)) = i + 1 BY <2>2, <1>2
    <3> QED BY <3>1, <2>2, <1>4, <1>6, <1>7
  <2> QED BY <2>1, <2>2
<1>9. RemoveAt(q, n) = w BY <1>1, <1>5 DEF RemoveAt
<1> QED BY <1>1, <1>6, <1>7, <1>8, <1>9

\* The last event of a key does not resolve it.
OpenKey(s, k) ==
  \E i \in 1..Len(s) : /\ s[i].key = k /\ ~s[i].resolved
                       /\ \A m \in 1..Len(s) : m > i => s[m].key # k
LEMMA UnresolvedIs ==
  ASSUME NEW s \in Seq(ToolEventSet), NEW k
  PROVE k \in Unresolved(s) <=> k # <<"note", 0>> /\ OpenKey(s, k)
<1>1. PICK e : e = Len(s) OBVIOUS
<1>2. e \in Nat /\ DOMAIN s = 1..e BY <1>1
<1>3. PICK T : T = {i \in DOMAIN s : s[i].key = k} OBVIOUS
<1>4. ASSUME T # {} PROVE Max(T) \in T /\ \A i \in T : i <= Max(T)
  <2>1. T \subseteq 1..e BY <1>2, <1>3
  <2> QED BY <2>1, <1>2, <1>4, MaxOf
<1>5. k \in Keys(s) <=> T # {} /\ k # <<"note", 0>> BY <1>3 DEF Keys
<1>6. k \in Unresolved(s) <=> k \in Keys(s) /\ ~s[Max(T)].resolved
  BY <1>3 DEF Unresolved, Latest
<1>7. ASSUME k \in Unresolved(s) PROVE k # <<"note", 0>> /\ OpenKey(s, k)
  <2>1. T # {} /\ k # <<"note", 0>> /\ ~s[Max(T)].resolved BY <1>5, <1>6, <1>7
  <2>2. PICK x : x = Max(T) OBVIOUS
  <2>3. x \in T /\ \A i \in T : i <= x BY <2>1, <2>2, <1>4
  <2>4. x \in 1..e /\ s[x].key = k BY <2>3, <1>2, <1>3
  <2>5. \A m \in 1..e : m > x => s[m].key # k BY <2>3, <2>4, <1>2, <1>3
  <2> QED BY <2>1, <2>2, <2>4, <2>5, <1>1 DEF OpenKey
<1>8. ASSUME k # <<"note", 0>>, OpenKey(s, k) PROVE k \in Unresolved(s)
  <2>1. PICK i \in 1..e : s[i].key = k /\ ~s[i].resolved /\ \A m \in 1..e : m > i => s[m].key # k
    BY <1>8, <1>1 DEF OpenKey
  <2>2. i \in T BY <2>1, <1>2, <1>3
  <2>3. PICK x : x = Max(T) OBVIOUS
  <2>4. x \in T /\ i <= x BY <2>2, <2>3, <1>4
  <2>5. x \in 1..e /\ s[x].key = k BY <2>4, <1>2, <1>3
  <2>6. x = i BY <2>1, <2>4, <2>5, <1>2
  <2> QED BY <2>1, <2>2, <2>3, <2>6, <1>5, <1>6, <1>8
<1> QED BY <1>7, <1>8

\* An event leaves every other key unresolved that is, and its own unless it resolves it.
LEMMA AppendOpens ==
  ASSUME NEW s \in Seq(ToolEventSet), NEW e \in ToolEventSet, NEW k
  PROVE /\ Append(s, e) \in Seq(ToolEventSet)
        /\ k \in Unresolved(s) /\ k # e.key => k \in Unresolved(Append(s, e))
        /\ k = e.key /\ k # <<"note", 0>> /\ ~e.resolved => k \in Unresolved(Append(s, e))
<1>1. PICK t, n : t = Append(s, e) /\ n = Len(s) OBVIOUS
<1>2. /\ n \in Nat /\ t \in Seq(ToolEventSet) /\ Len(t) = n + 1 /\ t[n + 1] = e
      /\ \A i \in 1..n : t[i] = s[i]
  BY <1>1
<1>3. ASSUME k \in Unresolved(s), k # e.key PROVE k \in Unresolved(t)
  <2>1. k # <<"note", 0>> /\ OpenKey(s, k) BY <1>3, UnresolvedIs
  <2>2. PICK i \in 1..n : s[i].key = k /\ ~s[i].resolved /\ \A m \in 1..n : m > i => s[m].key # k
    BY <2>1, <1>1 DEF OpenKey
  <2>3. i \in 1..(n + 1) /\ t[i].key = k /\ ~t[i].resolved BY <2>2, <1>2
  <2>4. \A m \in 1..(n + 1) : m > i => t[m].key # k
    <3>1. \A m \in 1..(n + 1) : m \in 1..n \/ m = n + 1 BY <1>2
    <3> QED BY <3>1, <2>2, <1>2, <1>3
  <2>5. OpenKey(t, k) BY <2>3, <2>4, <1>2 DEF OpenKey
  <2> QED BY <2>1, <2>5, <1>2, UnresolvedIs
<1>4. ASSUME k = e.key, k # <<"note", 0>>, ~e.resolved PROVE k \in Unresolved(t)
  <2>1. n + 1 \in 1..(n + 1) /\ \A m \in 1..(n + 1) : ~(m > n + 1) BY <1>2
  <2>2. OpenKey(t, k) BY <2>1, <1>2, <1>4 DEF OpenKey
  <2> QED BY <2>2, <1>2, <1>4, UnresolvedIs
<1> QED BY <1>1, <1>2, <1>3, <1>4

\* Forgetting an event that no unresolved key needs leaves every key unresolved that is.
LEMMA TrimmedKeeps ==
  ASSUME NEW s \in Seq(ToolEventSet), NEW k \in Unresolved(s), Len(s) <= ToolEvents \/ Spare(s) # {}
  PROVE Trimmed(s) \in Seq(ToolEventSet) /\ k \in Unresolved(Trimmed(s))
<1>1. CASE Len(s) <= ToolEvents BY <1>1 DEF Trimmed
<1>2. CASE ~(Len(s) <= ToolEvents)
  <2>1. PICK n, e, t : n = Min(Spare(s)) /\ e = Len(s) /\ t = RemoveAt(s, n) OBVIOUS
  <2>2. Trimmed(s) = t BY <1>2, <2>1 DEF Trimmed
  <2>3. e \in Nat /\ DOMAIN s = 1..e BY <2>1
  <2>4. Spare(s) \subseteq Nat /\ Spare(s) # {} BY <2>3, <1>2 DEF Spare
  <2>5. n \in Spare(s) BY <2>1, <2>4, MinOf
  <2>6. n \in 1..e /\ s[n].key \notin Unresolved(s) BY <2>3, <2>5 DEF Spare
  <2>7. /\ t \in Seq(ToolEventSet) /\ Len(t) = e - 1
        /\ \A i \in 1..(e - 1) : t[i] = IF i < n THEN s[i] ELSE s[i + 1]
    BY <2>1, <2>6, RemovedIs
  <2>8. k # <<"note", 0>> /\ OpenKey(s, k) BY UnresolvedIs
  <2>9. PICK i \in 1..e : s[i].key = k /\ ~s[i].resolved /\ \A m \in 1..e : m > i => s[m].key # k
    BY <2>1, <2>8 DEF OpenKey
  <2>10. i # n BY <2>6, <2>9
  <2>11. PICK x : x = IF i < n THEN i ELSE i - 1 OBVIOUS
  <2>12. x \in 1..(e - 1) /\ t[x] = s[i]
    <3>1. CASE i < n BY <3>1, <2>3, <2>6, <2>7, <2>9, <2>11
    <3>2. CASE ~(i < n)
      <4>1. x = i - 1 /\ i > n /\ x \in 1..(e - 1) /\ ~(x < n) /\ x + 1 = i
        BY <3>2, <2>3, <2>6, <2>9, <2>10, <2>11
      <4> QED BY <4>1, <2>7
    <3> QED BY <3>1, <3>2
  <2>13. ASSUME NEW m \in 1..(e - 1), m > x PROVE t[m].key # k
    <3>1. CASE m < n
      <4>1. i < n /\ m > i /\ m \in 1..e BY <3>1, <2>3, <2>6, <2>9, <2>11, <2>13
      <4> QED BY <4>1, <3>1, <2>7, <2>9
    <3>2. CASE ~(m < n)
      <4>1. m + 1 > i /\ m + 1 \in 1..e BY <3>2, <2>3, <2>6, <2>9, <2>11, <2>13
      <4> QED BY <4>1, <3>2, <2>7, <2>9
    <3> QED BY <3>1, <3>2
  <2>14. OpenKey(t, k) BY <2>7, <2>9, <2>12, <2>13 DEF OpenKey
  <2> QED BY <2>2, <2>7, <2>8, <2>14, UnresolvedIs
<1> QED BY <1>1, <1>2

---------------------------------------------------------------------------
\* The unresolved keys are calls, lookups and cancellations.
LEMMA KeysAre ==
  ASSUME NEW s \in Seq(ToolEventSet) PROVE Unresolved(s) \subseteq ToolKinds \X ToolOp
<1>1. \A i \in DOMAIN s : s[i] \in ToolEventSet OBVIOUS
<1>2. \A e \in ToolEventSet : e.key \in ToolKeys BY DEF ToolEventSet
<1>3. Keys(s) \subseteq ToolKinds \X ToolOp BY <1>1, <1>2 DEF Keys, ToolKeys
<1> QED BY <1>3 DEF Unresolved

\* The fields of an event.
LEMMA EventsAre ==
  ASSUME NEW e \in ToolEventSet
  PROVE /\ e.resolved \in BOOLEAN /\ e.ids \in ToolIds
        /\ e.key[1] = "call" => e.key[2] \in ToolOp /\ e.key = <<"call", e.key[2]>>
        /\ e.key[1] # "call" => \A o : e.key # <<"call", o>>
<1>1. e.resolved \in BOOLEAN /\ e.ids \in ToolIds /\ e.key \in ToolKeys BY DEF ToolEventSet
<1>2. PICK k : k = e.key OBVIOUS
<1>3. CASE k = <<"note", 0>> BY <1>1, <1>2, <1>3
<1>4. CASE k \in ToolKinds \X ToolOp BY <1>1, <1>2, <1>4
<1> QED BY <1>1, <1>2, <1>3, <1>4 DEF ToolKeys

\* Writing an event keeps every call asked for that it does not resolve.
LEMMA WrittenKeeps ==
  ASSUME ToolAssumption, ToolInv, NEW e \in ToolEventSet, Written(e),
         UNCHANGED <<tlServerVars, tlLease>>,
         e.key[1] = "call" =>
           /\ e.ids \subseteq tlParts[e.key[2]]
           /\ e.resolved => /\ Frozen(e.key[2])
                            /\ tlParts[e.key[2]] \subseteq tlTold[e.key[2]] \cup e.ids
  PROVE /\ tlJournal' \in Seq(ToolEventSet) /\ tlTold' \in [ToolOp -> ToolIds]
        /\ \A o \in ToolOp : EffectsTrue(o)'
        /\ \A o \in ToolOp : e.key = <<"call", o>> /\ ~e.resolved => Asked(o)'
        /\ Grows
<1>1. PICK s : s = Append(tlJournal, e) OBVIOUS
<1>2. tlJournal \in Seq(ToolEventSet) /\ tlTold \in [ToolOp -> ToolIds]
  BY DEF ToolInv, ToolTypeOK
<1>3. Len(s) = Len(tlJournal) + 1 /\ Len(tlJournal) \in Nat /\ s \in Seq(ToolEventSet)
  BY <1>1, <1>2
<1>4. tlJournal' = Trimmed(s) /\ (Len(tlJournal) < ToolEvents \/ Spare(s) # {})
  BY <1>1 DEF Written, HasRoom
<1>5. Len(s) <= ToolEvents \/ Spare(s) # {}
  BY <1>3, <1>4, ToolAssumption DEF ToolAssumption
<1>6. tlJournal' \in Seq(ToolEventSet)
  <2>1. CASE Len(s) <= ToolEvents BY <2>1, <1>3, <1>4 DEF Trimmed
  <2>2. CASE ~(Len(s) <= ToolEvents)
    <3>1. PICK n : n = Min(Spare(s)) OBVIOUS
    <3>2. Spare(s) \subseteq Nat /\ Spare(s) # {} BY <1>3, <1>5, <2>2 DEF Spare
    <3>3. n \in Spare(s) BY <3>1, <3>2, MinOf
    <3>4. n \in 1 .. Len(s) BY <3>3, <1>3 DEF Spare
    <3>5. RemoveAt(s, n) \in Seq(ToolEventSet) BY <3>4, <1>3, RemovedIs
    <3> QED BY <3>1, <3>5, <1>4, <2>2 DEF Trimmed
  <2> QED BY <2>1, <2>2
<1>7. ASSUME NEW o \in ToolOp, Asked(o), e.key # <<"call", o>> PROVE Asked(o)'
  <2>1. PICK k : k = <<"call", o>> OBVIOUS
  <2>2. k \in Unresolved(tlJournal) /\ k # e.key BY <2>1, <1>7 DEF Asked
  <2>3. k \in Unresolved(s) BY <2>2, <1>1, <1>2, AppendOpens
  <2>4. k \in Unresolved(Trimmed(s)) BY <2>3, <1>3, <1>5, TrimmedKeeps
  <2> QED BY <2>1, <2>4, <1>4 DEF Asked
<1>8. ASSUME NEW o \in ToolOp, e.key = <<"call", o>>, ~e.resolved PROVE Asked(o)'
  <2>1. PICK k : k = <<"call", o>> OBVIOUS
  <2>2. k # <<"note", 0>> BY <2>1
  <2>3. k \in Unresolved(s) BY <2>1, <2>2, <1>8, <1>1, <1>2, AppendOpens
  <2>4. k \in Unresolved(Trimmed(s)) BY <2>3, <1>3, <1>5, TrimmedKeeps
  <2> QED BY <2>1, <2>4, <1>4 DEF Asked
<1>9. ASSUME NEW o \in ToolOp
      PROVE /\ tlTold'[o] = IF e.key = <<"call", o>> THEN tlTold[o] \cup e.ids ELSE tlTold[o]
            /\ e.key = <<"call", o>> => e.key[1] = "call" /\ e.key[2] = o
  <2>1. CASE e.key[1] = "call"
    <3>1. PICK u : u = e.key[2] OBVIOUS
    <3>2. u \in ToolOp /\ e.key = <<"call", u>> BY <3>1, <2>1, EventsAre
    <3>3. tlTold' = [tlTold EXCEPT ![u] = @ \cup e.ids] BY <3>1, <2>1 DEF Written
    <3>4. e.key = <<"call", o>> <=> o = u BY <3>2
    <3> QED BY <3>1, <3>2, <3>3, <3>4, <1>2, <2>1
  <2>2. CASE e.key[1] # "call"
    <3>1. e.key # <<"call", o>> BY <2>2, EventsAre
    <3> QED BY <3>1, <2>2 DEF Written
  <2> QED BY <2>1, <2>2
<1>10. tlTold' \in [ToolOp -> ToolIds]
  <2>1. CASE e.key[1] = "call"
    <3>1. PICK u : u = e.key[2] OBVIOUS
    <3>2. u \in ToolOp /\ e.ids \in ToolIds BY <3>1, <2>1, EventsAre
    <3>3. tlTold[u] \cup e.ids \in ToolIds BY <3>2, <1>2 DEF ToolIds
    <3>4. tlTold' = [tlTold EXCEPT ![u] = @ \cup e.ids] BY <3>1, <2>1 DEF Written
    <3> QED BY <3>2, <3>3, <3>4, <1>2
  <2>2. CASE e.key[1] # "call" BY <2>2, <1>2 DEF Written
  <2> QED BY <2>1, <2>2
<1>11. /\ tlParts' = tlParts /\ tlReceipt' = tlReceipt /\ tlCancel' = tlCancel
       /\ tlLease' = tlLease
  BY DEF tlServerVars
<1>12. ASSUME NEW o \in ToolOp PROVE EffectsTrue(o)'
  <2>1. EffectsTrue(o) BY DEF ToolInv
  <2>2. tlTold'[o] \subseteq tlParts[o] /\ tlTold[o] \subseteq tlTold'[o]
    BY <2>1, <1>9 DEF EffectsTrue
  <2>3. tlParts[o] \subseteq tlTold'[o] \/ Asked(o)'
    <3>1. CASE e.key = <<"call", o>> BY <3>1, <1>8, <1>9
    <3>2. CASE e.key # <<"call", o>> BY <3>2, <2>1, <1>7, <1>9 DEF EffectsTrue
    <3> QED BY <3>1, <3>2
  <2> QED BY <2>1, <2>2, <2>3, <1>11 DEF EffectsTrue
<1>13. Grows
  <2>1. tlLease' \in ToolLeases /\ tlLease.number <= tlLease'.number
    BY <1>11 DEF ToolInv, ToolTypeOK, ToolLeases
  <2>2. ASSUME NEW o \in ToolOp
        PROVE /\ tlParts[o] \subseteq tlParts'[o] /\ tlTold[o] \subseteq tlTold'[o]
              /\ Frozen(o) => Frozen(o)' /\ tlParts'[o] = tlParts[o]
              /\ Asked(o) => Asked(o)' \/ Frozen(o)'
    <3>1. Frozen(o)' <=> Frozen(o) BY <1>11 DEF Frozen
    <3>2. Asked(o) => Asked(o)' \/ Frozen(o)
      <4>1. CASE e.key = <<"call", o>> BY <4>1, <1>8, <1>9
      <4>2. CASE e.key # <<"call", o>> BY <4>2, <1>7
      <4> QED BY <4>1, <4>2
    <3> QED BY <3>1, <3>2, <1>9, <1>11
  <2>3. \A n \in 0..tlLease.number : Live(n)' => Live(n) BY <1>11 DEF Live
  <2> QED BY <2>1, <2>2, <2>3 DEF Grows
<1> QED BY <1>6, <1>8, <1>10, <1>12, <1>13

\* A job at rest stays true whatever the others do.
LEMMA JobKept ==
  ASSUME ToolInv, Grows, NEW job \in ToolJobs, JobTrue(job) PROVE JobTrue(job)'
<1>1. CASE job.step = "idle" BY <1>1 DEF JobTrue
<1>2. CASE job.step # "idle"
  <2>1. job.op \in ToolOp /\ job.epoch <= tlLease.number /\ job.epoch \in Nat /\ tlLease \in ToolLeases /\ tlLease.number \in Nat
    BY <1>2 DEF JobTrue, ToolJobs, ToolInv, ToolTypeOK, ToolLeases
  <2>2. PICK o : o = job.op OBVIOUS
  <2>3. job.epoch <= tlLease'.number BY <2>1 DEF Grows, ToolLeases
  <2>4. Live(job.epoch)' => Live(job.epoch) BY <2>1 DEF Grows
  <2>5. /\ tlParts[o] \subseteq tlParts'[o] /\ tlTold[o] \subseteq tlTold'[o]
        /\ Frozen(o) => Frozen(o)' /\ tlParts'[o] = tlParts[o]
        /\ Asked(o) => Asked(o)' \/ Frozen(o)'
    BY <2>1, <2>2 DEF Grows
  <2> QED BY <1>2, <2>1, <2>2, <2>3, <2>4, <2>5 DEF JobTrue
<1> QED BY <1>1, <1>2

\* One worker's call changes to one that is true; or none does.
LEMMA JobMoves ==
  ASSUME ToolInv, Grows, NEW j \in ToolJob, NEW v \in ToolJobs, JobTrue(v)',
         tlJob' = [tlJob EXCEPT ![j] = v]
  PROVE tlJob' \in [ToolJob -> ToolJobs] /\ \A i \in ToolJob : JobTrue(tlJob[i])'
<1>1. tlJob \in [ToolJob -> ToolJobs] BY DEF ToolInv, ToolTypeOK
<1>2. tlJob' \in [ToolJob -> ToolJobs] BY <1>1
<1>3. ASSUME NEW i \in ToolJob PROVE JobTrue(tlJob[i])'
  <2>1. PICK w : w = tlJob'[i] OBVIOUS
  <2>2. CASE i = j
    <3>1. w = v BY <2>1, <2>2, <1>1
    <3> QED BY <2>1, <3>1 DEF JobTrue
  <2>3. CASE i # j
    <3>1. w = tlJob[i] BY <2>1, <2>3, <1>1
    <3>2. w \in ToolJobs /\ JobTrue(w) BY <3>1, <1>1 DEF ToolInv
    <3>3. JobTrue(w)' BY <3>2, JobKept
    <3> QED BY <2>1, <3>3 DEF JobTrue
  <2> QED BY <2>2, <2>3
<1> QED BY <1>2, <1>3

LEMMA JobsStay ==
  ASSUME ToolInv, Grows, tlJob' = tlJob
  PROVE tlJob' \in [ToolJob -> ToolJobs] /\ \A i \in ToolJob : JobTrue(tlJob[i])'
<1>1. tlJob \in [ToolJob -> ToolJobs] BY DEF ToolInv, ToolTypeOK
<1>2. ASSUME NEW i \in ToolJob PROVE JobTrue(tlJob[i])'
  <2>1. PICK w : w = tlJob[i] OBVIOUS
  <2>2. w \in ToolJobs /\ JobTrue(w) BY <2>1, <1>1 DEF ToolInv
  <2>3. JobTrue(w)' BY <2>2, JobKept
  <2> QED BY <2>1, <2>3 DEF JobTrue
<1> QED BY <1>1, <1>2

\* A step that touches neither the server's state nor the journal.
LEMMA NothingGrows ==
  ASSUME ToolInv, UNCHANGED <<tlServerVars, tlJournal, tlTold>>,
         tlLease' \in ToolLeases, tlLease.number <= tlLease'.number,
         \A n \in 0..tlLease.number : Live(n)' => Live(n)
  PROVE Grows /\ \A o \in ToolOp : EffectsTrue(o)'
<1>1. /\ tlParts' = tlParts /\ tlReceipt' = tlReceipt /\ tlCancel' = tlCancel
      /\ tlJournal' = tlJournal /\ tlTold' = tlTold
  BY DEF tlServerVars
<1>2. ASSUME NEW o \in ToolOp PROVE EffectsTrue(o)' /\ (Frozen(o)' <=> Frozen(o)) /\ (Asked(o)' <=> Asked(o))
  <2>1. EffectsTrue(o) BY DEF ToolInv
  <2>2. (Frozen(o)' <=> Frozen(o)) /\ (Asked(o)' <=> Asked(o)) BY <1>1 DEF Frozen, Asked
  <2> QED BY <2>1, <2>2, <1>1 DEF EffectsTrue
<1>3. Grows BY <1>1, <1>2 DEF Grows
<1> QED BY <1>2, <1>3

---------------------------------------------------------------------------
\* The fields of a job, and a job with some of them changed.
LEMMA JobFields ==
  ASSUME NEW job \in ToolJobs
  PROVE /\ job.kind \in ToolKinds /\ job.op \in ToolOp \cup {0} /\ job.epoch \in Nat
        /\ job.todo \in ToolIds /\ job.items \in ToolIds /\ job.heard \in BOOLEAN
        /\ job.answer \in ToolAnswers
        /\ job.answer.settled \in BOOLEAN /\ job.answer.ids \in ToolIds
BY DEF ToolJobs, ToolAnswers

\* Of a key whose effects are final, receipt and cancellation name the parts.
LEMMA AnswerTrue ==
  ASSUME ToolInv, NEW o \in ToolOp, Frozen(o)
  PROVE /\ tlReceipt[o].done => tlReceipt[o].items = tlParts[o]
        /\ tlCancel[o] = "requested" => Cancelled(o) = ToolSettled(tlParts[o])
        /\ ToolSettled(tlParts[o]) \in ToolAnswers
<1>1. EffectsTrue(o) /\ tlParts[o] \in ToolIds BY DEF ToolInv, ToolTypeOK
<1>2. ToolSettled(tlParts[o]) \in ToolAnswers BY <1>1 DEF ToolSettled, ToolAnswers
<1> QED BY <1>1, <1>2 DEF EffectsTrue, Cancelled

\* What a lookup says of a key.
LEMMA LookedTrue ==
  ASSUME ToolInv, NEW o \in ToolOp
  PROVE Looked(o) = IF Frozen(o) THEN ToolSettled(tlParts[o]) ELSE Unsettled
<1>1. CASE Frozen(o) BY <1>1, AnswerTrue DEF Looked, Frozen
<1>2. CASE ~Frozen(o) BY <1>2 DEF Looked, Frozen
<1> QED BY <1>1, <1>2

\* The invariant from what each step shows.
LEMMA ToolAssembled ==
  ASSUME ToolInv, tlParts' \in [ToolOp -> ToolIds], tlReceipt' \in [ToolOp -> ToolReceiptSet],
         tlCancel' \in [ToolOp -> {"none", "requested", "already"}],
         tlJournal' \in Seq(ToolEventSet), tlTold' \in [ToolOp -> ToolIds],
         tlAsk' \subseteq ToolKinds \X ToolOp, Grows,
         tlJob' \in [ToolJob -> ToolJobs], \A i \in ToolJob : JobTrue(tlJob[i])',
         \A o \in ToolOp : EffectsTrue(o)'
  PROVE ToolInv'
BY DEF ToolInv, ToolTypeOK, Grows

\* A job that is answered with what is true of its key by then.
LEMMA AnswerGiven ==
  ASSUME ToolInv, Grows, NEW j \in ToolJob, tlJob[j].step # "idle", NEW o, o = tlJob[j].op,
         NEW a \in ToolAnswers, Answered(j, a),
         IF a.settled THEN Frozen(o)' /\ a.ids = tlParts'[o] ELSE a.ids = {}
  PROVE tlJob' \in [ToolJob -> ToolJobs] /\ \A i \in ToolJob : JobTrue(tlJob[i])'
<1>1. PICK job : job = tlJob[j] OBVIOUS
<1>2. job \in ToolJobs /\ JobTrue(job) BY <1>1 DEF ToolInv, ToolTypeOK
<1>3. o \in ToolOp /\ job.epoch <= tlLease.number BY <1>1, <1>2 DEF JobTrue
<1>4. job.epoch <= tlLease'.number
  BY <1>2, <1>3, JobFields DEF Grows, ToolInv, ToolTypeOK, ToolLeases
<1>5. PICK v : v = [job EXCEPT !.step = "answer", !.answer = a] OBVIOUS
<1>6. v \in ToolJobs BY <1>5, <1>2 DEF ToolJobs
<1>7. v.step = "answer" /\ v.answer = a /\ v.op = o /\ v.epoch = job.epoch
  BY <1>5, <1>1, <1>2 DEF ToolJobs
<1>8. JobTrue(v)' BY <1>7, <1>3, <1>4 DEF JobTrue
<1>9. tlJob' = [tlJob EXCEPT ![j] = v] BY <1>5, <1>1 DEF Answered
<1> QED BY <1>6, <1>8, <1>9, JobMoves

\* The server answers with what is final, or begins work on what is asked for.
LEMMA StartTrue ==
  ASSUME ToolInv, NEW j \in ToolJob, ServerStart(j) PROVE ToolInv'
<1>1. PICK job, o : job = tlJob[j] /\ o = job.op OBVIOUS
<1>2. job \in ToolJobs /\ JobTrue(job) /\ tlJob \in [ToolJob -> ToolJobs]
  BY <1>1 DEF ToolInv, ToolTypeOK
<1>3. job.step = "sent" BY <1>1 DEF ServerStart
<1>4. /\ o \in ToolOp /\ job.epoch <= tlLease.number /\ job.items = {}
      /\ job.kind = "call" => Asked(o) \/ Frozen(o)
  BY <1>1, <1>2, <1>3 DEF JobTrue
<1>5. EffectsTrue(o) BY <1>4 DEF ToolInv
<1>6. /\ tlParts' = tlParts /\ tlReceipt' = tlReceipt /\ tlJournal' = tlJournal
      /\ tlTold' = tlTold /\ tlLease' = tlLease /\ tlAsk' = tlAsk
  BY DEF ServerStart
<1>7. tlCancel' = tlCancel \/ tlCancel' = [tlCancel EXCEPT ![o] = CancelOf(o)]
  BY <1>1 DEF ServerStart, StartCancel
<1>8. /\ tlCancel \in [ToolOp -> {"none", "requested", "already"}]
      /\ tlReceipt \in [ToolOp -> ToolReceiptSet] /\ tlParts \in [ToolOp -> ToolIds]
      /\ tlLease \in ToolLeases /\ tlLease.number \in Nat
  BY DEF ToolInv, ToolTypeOK, ToolLeases
<1>9. CancelOf(o) \in {"none", "requested", "already"} BY <1>4, <1>8 DEF CancelOf
<1>10. tlCancel' \in [ToolOp -> {"none", "requested", "already"}] BY <1>7, <1>8, <1>9
<1>11. ASSUME NEW u \in ToolOp
       PROVE /\ EffectsTrue(u)' /\ (Asked(u)' <=> Asked(u)) /\ (Frozen(u) => Frozen(u)')
  <2>1. EffectsTrue(u) BY DEF ToolInv
  <2>2. Asked(u)' <=> Asked(u) BY <1>6 DEF Asked
  <2>3. tlCancel'[u] = tlCancel[u] \/ (u = o /\ tlCancel'[u] = CancelOf(u)) BY <1>7, <1>8
  <2>4. /\ tlCancel[u] = "requested" => tlCancel'[u] = "requested"
        /\ tlCancel'[u] = "requested" => ~tlReceipt[u].done
        /\ tlCancel'[u] = "already" => tlReceipt[u].done
    BY <2>1, <2>3 DEF CancelOf, EffectsTrue
  <2>5. Frozen(u) => Frozen(u)' BY <2>4, <1>6 DEF Frozen
  <2> QED BY <2>1, <2>2, <2>4, <2>5, <1>6 DEF EffectsTrue
<1>12. Grows
  <2>1. tlLease' \in ToolLeases /\ tlLease.number <= tlLease'.number BY <1>6, <1>8
  <2>2. \A n \in 0..tlLease.number : Live(n)' => Live(n) BY <1>6 DEF Live
  <2> QED BY <2>1, <2>2, <1>6, <1>11 DEF Grows
\* An answer that is true when it is given.
<1>13. ASSUME NEW a \in ToolAnswers, Answered(j, a),
              IF a.settled THEN Frozen(o)' /\ a.ids = tlParts[o] ELSE a.ids = {}
       PROVE ToolInv'
  <2>6. tlJob' \in [ToolJob -> ToolJobs] /\ \A i \in ToolJob : JobTrue(tlJob[i])'
    BY <1>1, <1>3, <1>6, <1>12, <1>13, AnswerGiven
  <2>7. tlJournal' \in Seq(ToolEventSet) /\ tlTold' \in [ToolOp -> ToolIds] /\ tlAsk' \subseteq ToolKinds \X ToolOp
    BY <1>6 DEF ToolInv, ToolTypeOK
  <2> QED BY <2>6, <2>7, <1>6, <1>8, <1>10, <1>11, <1>12, ToolAssembled
<1>14. CASE Answered(j, Unsettled)
  <2>1. PICK a : a = Unsettled OBVIOUS
  <2>2. a \in ToolAnswers /\ a.settled = FALSE /\ a.ids = {} BY <2>1 DEF Unsettled, ToolAnswers, ToolIds
  <2> QED BY <2>1, <2>2, <1>13, <1>14
<1>15. CASE Answered(j, ToolSettled(tlParts[o])) /\ Frozen(o)'
  <2>1. PICK a : a = ToolSettled(tlParts[o]) OBVIOUS
  <2>2. a \in ToolAnswers /\ a.settled = TRUE /\ a.ids = tlParts[o]
    BY <2>1, <1>4, <1>8 DEF ToolSettled, ToolAnswers
  <2> QED BY <2>1, <2>2, <1>13, <1>15
<1>16. CASE job.kind = "call" /\ StartCall(j, o)
  <2>1. CASE Frozen(o) /\ \E a : a = ToolSettled(tlParts[o]) /\ Answered(j, a)
    BY <2>1, <1>4, <1>11, <1>15
  <2>2. CASE /\ ~Frozen(o)
             /\ tlJob' = [tlJob EXCEPT ![j].step = "work", ![j].todo = Parts(o)]
    <3>1. PICK v : v = [job EXCEPT !.step = "work", !.todo = Parts(o)] OBVIOUS
    <3>2. Parts(o) \in ToolIds BY DEF Parts, ToolIds
    <3>3. v \in ToolJobs BY <3>1, <3>2, <1>2 DEF ToolJobs
    <3>4. /\ v.step = "work" /\ v.kind = "call" /\ v.op = o /\ v.epoch = job.epoch
          /\ v.todo = Parts(o) /\ v.items = {}
      BY <3>1, <1>1, <1>2, <1>4, <1>16 DEF ToolJobs
    <3>5. JobTrue(v)' BY <3>4, <1>4, <1>6, <1>11, <1>16 DEF JobTrue
    <3>6. tlJob' = [tlJob EXCEPT ![j] = v] BY <3>1, <1>1, <2>2
    <3>7. tlJob' \in [ToolJob -> ToolJobs] /\ \A i \in ToolJob : JobTrue(tlJob[i])'
      BY <3>3, <3>5, <3>6, <1>12, JobMoves
    <3>8. tlJournal' \in Seq(ToolEventSet) /\ tlTold' \in [ToolOp -> ToolIds] /\ tlAsk' \subseteq ToolKinds \X ToolOp
      BY <1>6 DEF ToolInv, ToolTypeOK
    <3> QED BY <3>7, <3>8, <1>6, <1>8, <1>10, <1>11, <1>12, ToolAssembled
  <2>3. tlReceipt[o].done => tlReceipt[o].items = tlParts[o]
    BY <1>4, AnswerTrue DEF Frozen
  <2>4. tlCancel[o] = "requested" => Cancelled(o) = ToolSettled(tlParts[o])
    BY <1>4, AnswerTrue DEF Frozen
  <2> QED BY <1>16, <2>1, <2>2, <2>3, <2>4 DEF StartCall, Frozen
<1>17. CASE Answered(j, Looked(o))
  <2>1. CASE Frozen(o) BY <2>1, <1>4, <1>11, <1>15, <1>17, LookedTrue
  <2>2. CASE ~Frozen(o) BY <2>2, <1>4, <1>14, <1>17, LookedTrue
  <2> QED BY <2>1, <2>2
<1>18. CASE StartCancel(j, o)
  <2>1. tlCancel'[o] = CancelOf(o) BY <1>4, <1>8, <1>18 DEF StartCancel
  <2>2. CASE CancelOf(o) = "requested"
    <3>1. Frozen(o)' BY <2>1, <2>2 DEF Frozen
    <3>2. ~tlReceipt[o].done BY <2>2, <1>5 DEF CancelOf, EffectsTrue
    <3>3. Cancelled(o) = ToolSettled(tlParts[o]) BY <3>2, <1>5 DEF Cancelled, EffectsTrue
    <3> QED BY <3>1, <3>3, <2>2, <1>15, <1>18 DEF StartCancel
  <2>3. CASE CancelOf(o) # "requested"
    <3>1. tlReceipt[o].done BY <2>3, <1>4, <1>5, <1>8 DEF CancelOf, EffectsTrue
    <3>2. Frozen(o) BY <3>1 DEF Frozen
    <3>3. tlReceipt[o].items = tlParts[o] BY <3>1, <3>2, <1>4, AnswerTrue
    <3>4. Frozen(o)' BY <3>2, <1>4, <1>11
    <3> QED BY <3>3, <3>4, <2>3, <1>15, <1>18 DEF StartCancel
  <2> QED BY <2>2, <2>3
<1> QED BY <1>1, <1>14, <1>16, <1>17, <1>18 DEF ServerStart

\* A part of a batch is known: the call that works on it is still asked for.
LEMMA PartTrue ==
  ASSUME "item" \notin ToolFaults, ToolInv, NEW j \in ToolJob, ServerPart(j) PROVE ToolInv'
<1>1. PICK job, o : job = tlJob[j] /\ o = job.op OBVIOUS
<1>2. job \in ToolJobs /\ JobTrue(job) /\ tlJob \in [ToolJob -> ToolJobs]
  BY <1>1 DEF ToolInv, ToolTypeOK
<1>3. job.step = "work" /\ o \in ToolBatch /\ job.todo # {} BY <1>1 DEF ServerPart
<1>4. /\ o \in ToolOp /\ job.epoch <= tlLease.number /\ job.kind = "call"
      /\ job.todo \subseteq Parts(o) /\ job.items \subseteq tlParts[o]
      /\ Live(job.epoch) => job.items = Parts(o) \ job.todo
      /\ Asked(o) \/ Frozen(o)
  BY <1>1, <1>2, <1>3 DEF JobTrue
<1>5. Parts(o) = {1, 2} BY <1>3 DEF Parts
<1>6. PICK p : p = Min(job.todo) OBVIOUS
<1>7. p \in job.todo /\ p \in Parts(o)
  <2>1. job.todo \subseteq Nat BY <1>4, <1>5
  <2> QED BY <2>1, <1>3, <1>4, <1>6, MinOf
<1>8. EffectsTrue(o) BY <1>4 DEF ToolInv
<1>9. /\ tlReceipt' = tlReceipt /\ tlCancel' = tlCancel /\ tlJournal' = tlJournal
      /\ tlTold' = tlTold /\ tlLease' = tlLease /\ tlAsk' = tlAsk
  BY DEF ServerPart
<1>10. /\ tlJournal' \in Seq(ToolEventSet) /\ tlTold' \in [ToolOp -> ToolIds]
       /\ tlAsk' \subseteq ToolKinds \X ToolOp /\ tlReceipt' \in [ToolOp -> ToolReceiptSet]
       /\ tlCancel' \in [ToolOp -> {"none", "requested", "already"}]
       /\ tlLease \in ToolLeases /\ tlLease.number \in Nat /\ tlParts \in [ToolOp -> ToolIds]
  BY <1>9 DEF ToolInv, ToolTypeOK, ToolLeases
<1>11. CASE tlParts' = tlParts
  <2>1. Grows /\ \A u \in ToolOp : EffectsTrue(u)'
    <3>1. UNCHANGED <<tlServerVars, tlJournal, tlTold>> BY <1>9, <1>11 DEF tlServerVars
    <3>2. \A n \in 0..tlLease.number : Live(n)' => Live(n) BY <1>9 DEF Live
    <3> QED BY <3>1, <3>2, <1>9, <1>10, NothingGrows
  <2>2. CASE tlCancel[o] = "requested" /\ Answered(j, Cancelled(o))
    <3>1. Frozen(o) BY <2>2 DEF Frozen
    <3>2. PICK a : a = ToolSettled(tlParts[o]) OBVIOUS
    <3>3. a \in ToolAnswers /\ Answered(j, a) BY <3>1, <3>2, <2>2, <1>4, AnswerTrue
    <3>4. a.settled = TRUE /\ a.ids = tlParts'[o] BY <3>2, <1>11 DEF ToolSettled
    <3>5. Frozen(o)' BY <3>1, <1>4, <2>1 DEF Grows
    <3>6. tlJob' \in [ToolJob -> ToolJobs] /\ \A i \in ToolJob : JobTrue(tlJob[i])'
      BY <3>3, <3>4, <3>5, <2>1, <1>1, <1>3, AnswerGiven
    <3> QED BY <3>6, <2>1, <1>10, <1>11, ToolAssembled
  <2>3. CASE ~Live(job.epoch) /\ tlJob' = [tlJob EXCEPT ![j] = [job EXCEPT !.todo = @ \ {p}]]
    <3>1. PICK v : v = [job EXCEPT !.todo = @ \ {p}] OBVIOUS
    <3>2. job.todo \ {p} \in ToolIds BY <1>2, JobFields DEF ToolIds
    <3>3. v \in ToolJobs BY <3>1, <3>2, <1>2 DEF ToolJobs
    <3>4. /\ v.step = "work" /\ v.kind = "call" /\ v.op = o /\ v.epoch = job.epoch
          /\ v.todo = job.todo \ {p} /\ v.items = job.items
      BY <3>1, <1>1, <1>2, <1>3, <1>4 DEF ToolJobs
    <3>5. ~Live(v.epoch)' BY <3>4, <2>3, <1>9 DEF Live
    <3>6. Asked(o)' \/ Frozen(o)' BY <1>4, <2>1 DEF Grows
    <3>7. JobTrue(v)' BY <3>4, <3>5, <3>6, <1>4, <1>9, <1>11 DEF JobTrue
    <3>8. tlJob' \in [ToolJob -> ToolJobs] /\ \A i \in ToolJob : JobTrue(tlJob[i])'
      BY <3>1, <3>3, <3>7, <2>1, <2>3, JobMoves
    <3> QED BY <3>8, <2>1, <1>10, <1>11, ToolAssembled
  <2>4. CASE MayCommit(j) /\ tlParts' = [tlParts EXCEPT ![o] = @ \cup {p}]
             /\ tlJob' = [tlJob EXCEPT ![j] = [job EXCEPT !.todo = @ \ {p}, !.items = @ \cup {p}]]
    <3>1. PICK v : v = [job EXCEPT !.todo = @ \ {p}, !.items = @ \cup {p}] OBVIOUS
    <3>2. job.todo \ {p} \in ToolIds /\ job.items \cup {p} \in ToolIds
      BY <1>2, <1>5, <1>7, JobFields DEF ToolIds
    <3>3. v \in ToolJobs BY <3>1, <3>2, <1>2 DEF ToolJobs
    <3>4. /\ v.step = "work" /\ v.kind = "call" /\ v.op = o /\ v.epoch = job.epoch
          /\ v.todo = job.todo \ {p} /\ v.items = job.items \cup {p}
      BY <3>1, <1>1, <1>2, <1>3, <1>4 DEF ToolJobs
    <3>5. v.items = Parts(o) \ v.todo BY <3>4, <2>4, <1>1, <1>4, <1>7 DEF MayCommit
    <3>6. Asked(o)' \/ Frozen(o)' BY <1>4, <2>1 DEF Grows
    <3>7. v.items \subseteq tlParts'[o] BY <3>4, <2>4, <1>4, <1>10
    <3>8. v.todo \subseteq Parts(o) BY <3>4, <1>4
    <3>9. JobTrue(v)' BY <3>4, <3>5, <3>6, <3>7, <3>8, <1>4, <1>9 DEF JobTrue
    <3>10. tlJob' \in [ToolJob -> ToolJobs] /\ \A i \in ToolJob : JobTrue(tlJob[i])'
      BY <3>1, <3>3, <3>9, <2>1, <2>4, JobMoves
    <3> QED BY <3>10, <2>1, <1>10, <1>11, ToolAssembled
  <2>5. ~Fault("item") BY DEF Fault
  <2> QED BY <2>2, <2>3, <2>4, <2>5, <1>1, <1>6 DEF ServerPart
<1>12. CASE tlParts' # tlParts
  <2>1. /\ MayCommit(j) /\ tlParts' = [tlParts EXCEPT ![o] = @ \cup {p}]
        /\ tlJob' = [tlJob EXCEPT ![j] = [job EXCEPT !.todo = @ \ {p}, !.items = @ \cup {p}]]
    BY <1>1, <1>2, <1>6, <1>12 DEF ServerPart, ToolJobs
  <2>2. Live(job.epoch) /\ tlCancel[o] # "requested" BY <2>1, <1>1 DEF MayCommit
  <2>3. /\ tlParts'[o] = tlParts[o] \cup {p} /\ tlParts' \in [ToolOp -> ToolIds]
        /\ \A u \in ToolOp \ {o} : tlParts'[u] = tlParts[u]
    <3>1. tlParts[o] \cup {p} \in ToolIds BY <1>4, <1>5, <1>7, <1>10 DEF ToolIds
    <3> QED BY <3>1, <2>1, <1>4, <1>10
  <2>4. ~Frozen(o)
    <3>1. ~tlReceipt[o].done
      <4>1. ASSUME tlReceipt[o].done PROVE FALSE
        <5>1. tlParts[o] = Parts(o) BY <4>1, <1>8 DEF EffectsTrue
        <5>2. tlParts[o] \cup {p} = tlParts[o] BY <5>1, <1>7
        <5>3. [tlParts EXCEPT ![o] = tlParts[o]] = tlParts BY <1>4, <1>10
        <5> QED BY <5>2, <5>3, <2>1, <1>12
      <4> QED BY <4>1
    <3> QED BY <3>1, <2>2 DEF Frozen
  <2>5. ASSUME NEW u \in ToolOp
        PROVE /\ EffectsTrue(u)' /\ (Asked(u)' <=> Asked(u)) /\ (Frozen(u)' <=> Frozen(u))
              /\ tlParts[u] \subseteq tlParts'[u] /\ (Frozen(u) => tlParts'[u] = tlParts[u])
    <3>1. EffectsTrue(u) BY DEF ToolInv
    <3>2. (Asked(u)' <=> Asked(u)) /\ (Frozen(u)' <=> Frozen(u)) BY <1>9 DEF Asked, Frozen
    <3>3. CASE u = o
      <4>1. Asked(o)' /\ ~tlReceipt[o].done BY <3>2, <3>3, <1>4, <2>4 DEF Frozen
      <4>2. tlParts'[o] \subseteq Parts(o) /\ tlTold'[o] \subseteq tlParts'[o]
        BY <1>7, <1>8, <1>9, <2>3 DEF EffectsTrue
      <4>3. EffectsTrue(o)' BY <4>1, <4>2, <1>3, <1>8, <1>9, <2>4 DEF EffectsTrue, Frozen
      <4> QED BY <4>3, <3>2, <3>3, <2>3, <2>4
    <3>4. CASE u # o BY <3>1, <3>2, <3>4, <1>9, <2>3 DEF EffectsTrue
    <3> QED BY <3>3, <3>4
  <2>6. Grows
    <3>1. \A n \in 0..tlLease.number : Live(n)' => Live(n) BY <1>9 DEF Live
    <3>2. tlLease' \in ToolLeases /\ tlLease.number <= tlLease'.number BY <1>9, <1>10
    <3> QED BY <3>1, <3>2, <2>5, <1>9 DEF Grows
  <2>7. PICK v : v = [job EXCEPT !.todo = @ \ {p}, !.items = @ \cup {p}] OBVIOUS
  <2>8. job.todo \ {p} \in ToolIds /\ job.items \cup {p} \in ToolIds
    BY <1>2, <1>5, <1>7, JobFields DEF ToolIds
  <2>9. v \in ToolJobs BY <2>7, <2>8, <1>2 DEF ToolJobs
  <2>10. /\ v.step = "work" /\ v.kind = "call" /\ v.op = o /\ v.epoch = job.epoch
         /\ v.todo = job.todo \ {p} /\ v.items = job.items \cup {p}
    BY <2>7, <1>1, <1>2, <1>3, <1>4 DEF ToolJobs
  <2>11. v.items = Parts(o) \ v.todo BY <2>10, <2>2, <1>4, <1>7
  <2>12. Asked(o)' BY <2>4, <2>5, <1>4
  <2>13. v.items \subseteq tlParts'[o] BY <2>10, <2>3, <1>4
  <2>14. v.todo \subseteq Parts(o) BY <2>10, <1>4
  <2>15. JobTrue(v)' BY <2>10, <2>11, <2>12, <2>13, <2>14, <1>4, <1>9 DEF JobTrue
  <2>16. tlJob' \in [ToolJob -> ToolJobs] /\ \A i \in ToolJob : JobTrue(tlJob[i])'
    BY <2>1, <2>6, <2>7, <2>9, <2>15, JobMoves
  <2> QED BY <2>3, <2>5, <2>6, <2>16, <1>10, ToolAssembled
<1> QED BY <1>11, <1>12

\* A receipt names every part, and freezes them.
LEMMA CommitTrue ==
  ASSUME ToolInv, NEW j \in ToolJob, ServerCommit(j) PROVE ToolInv'
<1>1. PICK job, o : job = tlJob[j] /\ o = job.op OBVIOUS
<1>2. job \in ToolJobs /\ JobTrue(job) /\ tlJob \in [ToolJob -> ToolJobs]
  BY <1>1 DEF ToolInv, ToolTypeOK
<1>3. job.step = "work" /\ (o \in ToolBatch => job.todo = {}) BY <1>1 DEF ServerCommit
<1>4. /\ o \in ToolOp /\ job.kind = "call"
      /\ o \in ToolBatch /\ Live(job.epoch) => job.items = Parts(o) \ job.todo
      /\ Asked(o) \/ Frozen(o)
  BY <1>1, <1>2, <1>3 DEF JobTrue
<1>5. EffectsTrue(o) BY <1>4 DEF ToolInv
<1>6. /\ tlCancel' = tlCancel /\ tlJournal' = tlJournal
      /\ tlTold' = tlTold /\ tlLease' = tlLease /\ tlAsk' = tlAsk
  BY DEF ServerCommit
<1>7. /\ tlJournal' \in Seq(ToolEventSet) /\ tlTold' \in [ToolOp -> ToolIds]
      /\ tlAsk' \subseteq ToolKinds \X ToolOp
      /\ tlCancel' \in [ToolOp -> {"none", "requested", "already"}]
      /\ tlReceipt \in [ToolOp -> ToolReceiptSet]
      /\ tlLease \in ToolLeases /\ tlLease.number \in Nat /\ tlParts \in [ToolOp -> ToolIds]
  BY <1>6 DEF ToolInv, ToolTypeOK, ToolLeases
<1>8. \A n \in 0..tlLease.number : Live(n)' => Live(n) BY <1>6 DEF Live
<1>9. tlLease' \in ToolLeases /\ tlLease.number <= tlLease'.number BY <1>6, <1>7
<1>10. CASE tlParts' = tlParts /\ tlReceipt' = tlReceipt
  <2>1. Grows /\ \A u \in ToolOp : EffectsTrue(u)'
    <3>1. UNCHANGED <<tlServerVars, tlJournal, tlTold>> BY <1>6, <1>10 DEF tlServerVars
    <3> QED BY <3>1, <1>8, <1>9, NothingGrows
  <2>2. ASSUME NEW a \in ToolAnswers, Answered(j, a),
               IF a.settled THEN Frozen(o)' /\ a.ids = tlParts[o] ELSE a.ids = {}
        PROVE ToolInv'
    <3>1. tlJob' \in [ToolJob -> ToolJobs] /\ \A i \in ToolJob : JobTrue(tlJob[i])'
      BY <2>1, <2>2, <1>1, <1>3, <1>10, AnswerGiven
    <3> QED BY <3>1, <2>1, <1>7, <1>10, ToolAssembled
  <2>3. CASE Answered(j, Unsettled)
    <3>1. PICK a : a = Unsettled OBVIOUS
    <3>2. a \in ToolAnswers /\ a.settled = FALSE /\ a.ids = {}
      BY <3>1 DEF Unsettled, ToolAnswers, ToolIds
    <3> QED BY <3>1, <3>2, <2>2, <2>3
  <2>4. CASE tlReceipt[o].done /\ Answered(j, ToolSettled(tlReceipt[o].items))
    <3>1. Frozen(o) BY <2>4 DEF Frozen
    <3>2. tlReceipt[o].items = tlParts[o] BY <3>1, <2>4, <1>4, AnswerTrue
    <3>3. PICK a : a = ToolSettled(tlParts[o]) OBVIOUS
    <3>4. a \in ToolAnswers /\ Answered(j, a) BY <3>1, <3>2, <3>3, <2>4, <1>4, AnswerTrue
    <3>5. a.settled = TRUE /\ a.ids = tlParts[o] BY <3>3 DEF ToolSettled
    <3>6. Frozen(o)' BY <3>1, <1>4, <2>1 DEF Grows
    <3> QED BY <3>4, <3>5, <3>6, <2>2
  <2>5. CASE /\ ~tlReceipt[o].done
             /\ \E items : tlReceipt' = [tlReceipt EXCEPT ![o] = [done |-> TRUE, items |-> items]]
    <3>1. tlReceipt'[o].done BY <2>5, <1>4, <1>7
    <3> QED BY <3>1, <2>5, <1>10
  <2> QED BY <2>3, <2>4, <2>5, <1>1 DEF ServerCommit
<1>11. CASE ~(tlParts' = tlParts /\ tlReceipt' = tlReceipt)
  <2>1. PICK items : items = IF o \in ToolBatch THEN job.items ELSE {1} OBVIOUS
  <2>2. /\ ~tlReceipt[o].done /\ MayCommit(j)
        /\ tlReceipt' = [tlReceipt EXCEPT ![o] = [done |-> TRUE, items |-> items]]
        /\ tlParts' = [tlParts EXCEPT ![o] = @ \cup items]
        /\ Answered(j, ToolSettled(items))
    BY <2>1, <1>1, <1>11 DEF ServerCommit
  <2>3. Live(job.epoch) /\ tlCancel[o] # "requested" BY <2>2, <1>1 DEF MayCommit
  <2>4. items = Parts(o) /\ items \in ToolIds
    <3>1. CASE o \in ToolBatch
      <4>1. job.items = Parts(o) BY <3>1, <2>3, <1>3, <1>4
      <4> QED BY <4>1, <3>1, <2>1, <1>2, JobFields
    <3>2. CASE o \notin ToolBatch BY <3>2, <2>1 DEF Parts, ToolIds
    <3> QED BY <3>1, <3>2
  <2>5. /\ tlParts'[o] = Parts(o) /\ tlParts' \in [ToolOp -> ToolIds]
        /\ \A u \in ToolOp \ {o} : tlParts'[u] = tlParts[u]
    <3>1. tlParts[o] \cup items = Parts(o) BY <2>4, <1>5 DEF EffectsTrue
    <3>2. tlParts' = [tlParts EXCEPT ![o] = Parts(o)] BY <3>1, <2>2
    <3> QED BY <3>2, <2>4, <1>4, <1>7
  <2>6. /\ tlReceipt'[o] = [done |-> TRUE, items |-> items] /\ tlReceipt' \in [ToolOp -> ToolReceiptSet]
        /\ \A u \in ToolOp \ {o} : tlReceipt'[u] = tlReceipt[u]
    <3>1. [done |-> TRUE, items |-> items] \in ToolReceiptSet BY <2>4 DEF ToolReceiptSet
    <3> QED BY <3>1, <2>2, <1>4, <1>7
  <2>7. ~Frozen(o) BY <2>2, <2>3 DEF Frozen
  <2>8. Frozen(o)' BY <2>6 DEF Frozen
  <2>9. ASSUME NEW u \in ToolOp
        PROVE /\ EffectsTrue(u)' /\ (Asked(u)' <=> Asked(u)) /\ (Frozen(u) => Frozen(u)')
              /\ tlParts[u] \subseteq tlParts'[u] /\ (Frozen(u) => tlParts'[u] = tlParts[u])
    <3>1. EffectsTrue(u) /\ (Asked(u)' <=> Asked(u)) BY <1>6 DEF ToolInv, Asked
    <3>2. CASE u = o
      <4>1. Asked(o)' BY <3>1, <3>2, <1>4, <2>7
      <4>2. tlTold'[o] \subseteq tlParts'[o] BY <1>5, <1>6, <2>5 DEF EffectsTrue
      <4>3. EffectsTrue(o)' BY <4>1, <4>2, <1>6, <2>3, <2>4, <2>5, <2>6 DEF EffectsTrue
      <4>4. tlParts[o] \subseteq tlParts'[o] BY <1>5, <2>5 DEF EffectsTrue
      <4> QED BY <4>3, <4>4, <3>1, <3>2, <2>7
    <3>3. CASE u # o
      <4>1. tlParts'[u] = tlParts[u] /\ tlReceipt'[u] = tlReceipt[u] BY <3>3, <2>5, <2>6
      <4> QED BY <4>1, <3>1, <1>6 DEF EffectsTrue, Frozen
    <3> QED BY <3>2, <3>3
  <2>10. Grows BY <1>6, <1>8, <1>9, <2>9 DEF Grows
  <2>11. PICK a : a = ToolSettled(items) OBVIOUS
  <2>12. a \in ToolAnswers /\ a.settled = TRUE /\ a.ids = tlParts'[o]
    BY <2>4, <2>5, <2>11 DEF ToolSettled, ToolAnswers
  <2>13. tlJob' \in [ToolJob -> ToolJobs] /\ \A i \in ToolJob : JobTrue(tlJob[i])'
    BY <2>2, <2>8, <2>10, <2>11, <2>12, <1>1, <1>3, AnswerGiven
  <2> QED BY <2>5, <2>6, <2>9, <2>10, <2>13, <1>7, ToolAssembled
<1> QED BY <1>10, <1>11

---------------------------------------------------------------------------
\* An idle worker.
LEMMA NoJobTrue == NoJob \in ToolJobs /\ NoJob.step = "idle"
BY DEF NoJob, ToolJobs, Unsettled, ToolAnswers, ToolIds, ToolKinds

LEMMA IdleTrue ==
  ASSUME NEW v \in ToolJobs, v.step = "idle" PROVE JobTrue(v)'
BY DEF JobTrue

\* The journal gets an event that is true of its key, or the step leaves it alone.
ToldTruly(e) ==
  e.key[1] = "call" =>
    /\ e.ids \subseteq tlParts[e.key[2]]
    /\ e.resolved => /\ Frozen(e.key[2])
                     /\ tlParts[e.key[2]] \subseteq tlTold[e.key[2]] \cup e.ids
LEMMA JournalMoves ==
  ASSUME ToolAssumption, ToolInv, UNCHANGED <<tlServerVars, tlLease>>,
         NotWritten \/ \E e \in ToolEventSet : Written(e) /\ ToldTruly(e)
  PROVE /\ tlJournal' \in Seq(ToolEventSet) /\ tlTold' \in [ToolOp -> ToolIds]
        /\ \A o \in ToolOp : EffectsTrue(o)'
        /\ Grows
<1>1. CASE NotWritten
  <2>1. UNCHANGED <<tlServerVars, tlJournal, tlTold>> BY <1>1 DEF NotWritten
  <2>2. \A n \in 0..tlLease.number : Live(n)' => Live(n) BY DEF Live
  <2>3. tlLease' \in ToolLeases /\ tlLease.number <= tlLease'.number BY DEF ToolInv, ToolTypeOK, ToolLeases
  <2>4. tlJournal' \in Seq(ToolEventSet) /\ tlTold' \in [ToolOp -> ToolIds]
    BY <2>1 DEF ToolInv, ToolTypeOK
  <2> QED BY <2>1, <2>2, <2>3, <2>4, NothingGrows
<1>2. ASSUME NEW e \in ToolEventSet, Written(e), ToldTruly(e)
      PROVE /\ tlJournal' \in Seq(ToolEventSet) /\ tlTold' \in [ToolOp -> ToolIds]
            /\ \A o \in ToolOp : EffectsTrue(o)'
            /\ Grows
  BY <1>2, WrittenKeeps DEF ToldTruly
<1> QED BY <1>1, <1>2

\* What a step of the runner or the adapter must show.
LEMMA RunnerAssembled ==
  ASSUME ToolInv, UNCHANGED tlServerVars,
         tlJournal' \in Seq(ToolEventSet), tlTold' \in [ToolOp -> ToolIds],
         tlAsk' \subseteq ToolKinds \X ToolOp, Grows,
         tlJob' \in [ToolJob -> ToolJobs], \A i \in ToolJob : JobTrue(tlJob[i])',
         \A o \in ToolOp : EffectsTrue(o)'
  PROVE ToolInv'
<1>1. /\ tlParts' \in [ToolOp -> ToolIds] /\ tlReceipt' \in [ToolOp -> ToolReceiptSet]
      /\ tlCancel' \in [ToolOp -> {"none", "requested", "already"}]
  BY DEF tlServerVars, ToolInv, ToolTypeOK
<1> QED BY <1>1, ToolAssembled

\* An event for a key of the model.
LEMMA EventIs ==
  ASSUME NEW k \in ToolKeys, NEW r \in BOOLEAN, NEW ids \in ToolIds, NEW e, e = Event(k, r, ids)
  PROVE e \in ToolEventSet /\ e.key = k /\ e.resolved = r /\ e.ids = ids
BY DEF Event, ToolEventSet

\* A call is asked for from before it is sent.
LEMMA CallTrue ==
  ASSUME ToolAssumption, ToolInv, NEW j \in ToolJob, NEW kind \in ToolKinds, NEW o \in ToolOp,
         Call(j, kind, o)
  PROVE ToolInv'
<1>1. PICK k, r, ids, e : k = <<kind, o>> /\ r = FALSE /\ ids = {} /\ e = Event(k, r, ids)
  OBVIOUS
<1>2. k \in ToolKeys /\ r \in BOOLEAN /\ ids \in ToolIds BY <1>1 DEF ToolKeys, ToolIds
<1>3. e \in ToolEventSet /\ e.key = k /\ e.resolved = FALSE /\ e.ids = {}
  BY <1>1, <1>2, EventIs
<1>4. Written(e) /\ UNCHANGED <<tlServerVars, tlLease>> /\ tlAsk' = tlAsk BY <1>1 DEF Call
<1>5. /\ tlJournal' \in Seq(ToolEventSet) /\ tlTold' \in [ToolOp -> ToolIds]
      /\ \A u \in ToolOp : EffectsTrue(u)'
      /\ \A u \in ToolOp : e.key = <<"call", u>> /\ ~e.resolved => Asked(u)'
      /\ Grows
  BY <1>3, <1>4, WrittenKeeps
<1>6. PICK n : n = IF tlRunner = "joined" THEN tlLease.number ELSE 0 OBVIOUS
<1>7. n \in Nat /\ n <= tlLease.number BY <1>6 DEF ToolInv, ToolTypeOK, ToolLeases
<1>8. PICK v : v = [NoJob EXCEPT !.step = "sent", !.kind = kind, !.op = o, !.heard = TRUE, !.epoch = n]
  OBVIOUS
<1>9. v \in ToolJobs BY <1>7, <1>8, NoJobTrue DEF ToolJobs
<1>10. v.step = "sent" /\ v.kind = kind /\ v.op = o /\ v.epoch = n /\ v.items = {}
  BY <1>8 DEF NoJob
<1>11. kind = "call" => Asked(o)' BY <1>1, <1>3, <1>5
<1>12. n <= tlLease'.number BY <1>4, <1>7
<1>13. JobTrue(v)' BY <1>10, <1>11, <1>12 DEF JobTrue
<1>14. tlJob' = [tlJob EXCEPT ![j] = v] BY <1>6, <1>8 DEF Call
<1>15. tlJob' \in [ToolJob -> ToolJobs] /\ \A i \in ToolJob : JobTrue(tlJob[i])'
  BY <1>5, <1>9, <1>13, <1>14, JobMoves
<1>16. tlAsk' \subseteq ToolKinds \X ToolOp BY <1>4 DEF ToolInv, ToolTypeOK
<1> QED BY <1>4, <1>5, <1>15, <1>16, RunnerAssembled

\* An event without an operation forgets no key that is asked for.
LEMMA NoteTrue ==
  ASSUME ToolAssumption, ToolInv, RunnerNote PROVE ToolInv'
<1>1. PICK k, r, ids, e : k = <<"note", 0>> /\ r = FALSE /\ ids = {} /\ e = Event(k, r, ids)
  OBVIOUS
<1>2. k \in ToolKeys /\ r \in BOOLEAN /\ ids \in ToolIds BY <1>1 DEF ToolKeys, ToolIds
<1>3. e \in ToolEventSet /\ e.key = k BY <1>1, <1>2, EventIs
<1>4. /\ Written(e) /\ UNCHANGED <<tlServerVars, tlLease>> /\ tlAsk' = tlAsk /\ tlJob' = tlJob
  BY <1>1 DEF RunnerNote, Note
<1>5. ToldTruly(e) BY <1>1, <1>3 DEF ToldTruly
<1>6. /\ tlJournal' \in Seq(ToolEventSet) /\ tlTold' \in [ToolOp -> ToolIds]
      /\ \A u \in ToolOp : EffectsTrue(u)'
      /\ Grows
  BY <1>3, <1>4, <1>5, JournalMoves
<1>7. tlJob' \in [ToolJob -> ToolJobs] /\ \A i \in ToolJob : JobTrue(tlJob[i])'
  BY <1>4, <1>6, JobsStay
<1>8. tlAsk' \subseteq ToolKinds \X ToolOp BY <1>4 DEF ToolInv, ToolTypeOK
<1> QED BY <1>4, <1>6, <1>7, <1>8, RunnerAssembled

\* A starting runner records what is settled of a key.
LEMMA AskTrue ==
  ASSUME ToolAssumption, ToolInv, NEW k \in tlAsk, AskReceipt(k) PROVE ToolInv'
<1>0. tlAsk \subseteq ToolKinds \X ToolOp BY DEF ToolInv, ToolTypeOK
<1>1. PICK kind \in ToolKinds, o \in ToolOp : k = <<kind, o>>
  <2>1. k \in ToolKinds \X ToolOp BY <1>0
  <2>2. k[1] \in ToolKinds /\ k[2] \in ToolOp /\ k = <<k[1], k[2]>> BY ONLY <2>1
  <2> QED BY ONLY <2>2
<1>2. /\ UNCHANGED <<tlServerVars, tlLease>> /\ tlAsk' = tlAsk \ {k} /\ tlJob' = tlJob
  BY DEF AskReceipt
<1>3. NotWritten \/ \E e \in ToolEventSet : Written(e) /\ ToldTruly(e)
  <2>1. CASE Found(k).settled /\ Written(Event(k, TRUE, Found(k).ids))
    <3>1. PICK r, ids, e : r = TRUE /\ ids = Found(k).ids /\ e = Event(k, r, ids) OBVIOUS
    <3>2. k[1] = kind /\ k[2] = o BY <1>1
    <3>3. CASE kind = "cancel"
      <4>1. ids = {} BY <3>1, <3>2, <3>3 DEF Found
      <4>2. k \in ToolKeys /\ r \in BOOLEAN /\ ids \in ToolIds
        BY <1>1, <3>1, <4>1 DEF ToolKeys, ToolIds
      <4>3. e \in ToolEventSet /\ e.key = k BY <3>1, <4>2 DEF Event, ToolEventSet
      <4>4. ToldTruly(e) BY <3>2, <3>3, <4>3 DEF ToldTruly
      <4> QED BY <2>1, <3>1, <4>3, <4>4
    <3>4. CASE kind # "cancel"
      <4>1. Found(k) = IF Frozen(o) THEN ToolSettled(tlParts[o]) ELSE Unsettled
        BY <3>2, <3>4, LookedTrue DEF Found
      <4>2. Frozen(o) /\ ids = tlParts[o] BY <2>1, <3>1, <4>1 DEF ToolSettled, Unsettled
      <4>3. ids \in ToolIds BY <4>2 DEF ToolInv, ToolTypeOK
      <4>4. k \in ToolKeys /\ r \in BOOLEAN BY <1>1, <3>1 DEF ToolKeys
      <4>5. e \in ToolEventSet /\ e.key = k /\ e.ids = ids
        BY <3>1, <4>3, <4>4 DEF Event, ToolEventSet
      <4>6. ToldTruly(e) BY <3>2, <4>2, <4>5 DEF ToldTruly
      <4> QED BY <2>1, <3>1, <4>5, <4>6
    <3> QED BY <3>3, <3>4
  <2> QED BY <2>1 DEF AskReceipt
<1>4. /\ tlJournal' \in Seq(ToolEventSet) /\ tlTold' \in [ToolOp -> ToolIds]
      /\ \A u \in ToolOp : EffectsTrue(u)'
      /\ Grows
  BY <1>2, <1>3, JournalMoves
<1>5. tlJob' \in [ToolJob -> ToolJobs] /\ \A i \in ToolJob : JobTrue(tlJob[i])'
  BY <1>2, <1>4, JobsStay
<1>6. tlAsk' \subseteq ToolKinds \X ToolOp BY <1>2 DEF ToolInv, ToolTypeOK
<1> QED BY <1>2, <1>4, <1>5, <1>6, RunnerAssembled

\* What the adapter hears is settled only when its key is, and names its parts.
LEMMA ReceivedTrue ==
  ASSUME ToolInv, NEW j \in ToolJob, tlJob[j].step = "answer", NEW job, job = tlJob[j],
         NEW answer, answer = Received(j)
  PROVE /\ answer \in ToolAnswers /\ answer.settled \in BOOLEAN /\ answer.ids \in ToolIds
        /\ answer.ids \subseteq tlParts[job.op]
        /\ answer.settled => /\ Frozen(job.op)
                             /\ tlParts[job.op] \subseteq tlTold[job.op] \cup answer.ids
        /\ answer.settled /\ job.kind = "call" => answer.ids = tlParts[job.op]
<1>1. job \in ToolJobs /\ JobTrue(job) BY DEF ToolInv, ToolTypeOK
<1>2. job.answer \in ToolAnswers /\ job.answer.settled \in BOOLEAN /\ job.answer.ids \in ToolIds
  BY <1>1, JobFields
<1>3. job.op \in ToolOp BY <1>1 DEF JobTrue
<1>4. EffectsTrue(job.op) BY <1>3 DEF ToolInv
<1>5. IF job.answer.settled THEN Frozen(job.op) /\ job.answer.ids = tlParts[job.op]
      ELSE job.answer.ids = {}
  BY <1>1 DEF JobTrue
<1>6. CASE answer = Unsettled
  <2>1. answer.settled = FALSE /\ answer.ids = {} /\ answer \in ToolAnswers
    BY <1>6 DEF Unsettled, ToolAnswers, ToolIds
  <2> QED BY <2>1 DEF ToolIds
<1>7. CASE answer = job.answer BY <1>2, <1>5, <1>7
<1>8. CASE /\ answer = [job.answer EXCEPT !.ids = {}]
           /\ job.kind # "call" /\ <<"call", job.op>> \notin Keys(tlJournal)
  <2>1. /\ answer.settled = job.answer.settled /\ answer.ids = {} /\ answer \in ToolAnswers
    BY <1>2, <1>8 DEF ToolAnswers, ToolIds
  <2>2. ~Asked(job.op) BY <1>8 DEF Asked, Unresolved
  <2>3. tlParts[job.op] \subseteq tlTold[job.op] BY <2>2, <1>4 DEF EffectsTrue
  <2> QED BY <2>1, <2>3, <1>2, <1>5, <1>8 DEF ToolIds
<1> QED BY <1>6, <1>7, <1>8 DEF Received

\* The adapter records what it heard.
LEMMA RecordTrue ==
  ASSUME ToolAssumption, ToolInv, NEW j \in ToolJob, Record(j) PROVE ToolInv'
<1>1. PICK job, o, answer : job = tlJob[j] /\ o = job.op /\ answer = Received(j) OBVIOUS
<1>2. job \in ToolJobs /\ JobTrue(job) BY <1>1 DEF ToolInv, ToolTypeOK
<1>3. job.step = "answer" BY <1>1 DEF Record
<1>4. o \in ToolOp /\ job.epoch <= tlLease.number /\ job.kind \in ToolKinds
  BY <1>1, <1>2, <1>3, JobFields DEF JobTrue
<1>5. /\ answer \in ToolAnswers /\ answer.settled \in BOOLEAN /\ answer.ids \in ToolIds
      /\ answer.ids \subseteq tlParts[o]
      /\ answer.settled => Frozen(o) /\ tlParts[o] \subseteq tlTold[o] \cup answer.ids
  BY <1>1, <1>3, ReceivedTrue
<1>6. UNCHANGED <<tlServerVars, tlLease>> /\ tlAsk' = tlAsk BY DEF Record
<1>7. PICK k, r, ids, e : k = <<job.kind, o>> /\ r = answer.settled /\ ids = answer.ids /\ e = Event(k, r, ids)
  OBVIOUS
<1>8. k \in ToolKeys /\ r \in BOOLEAN /\ ids \in ToolIds BY <1>4, <1>5, <1>7 DEF ToolKeys
<1>9. e \in ToolEventSet /\ e.key = k /\ e.resolved = r /\ e.ids = ids BY <1>7, <1>8, EventIs
<1>10. ToldTruly(e) BY <1>5, <1>7, <1>9 DEF ToldTruly
<1>11. NotWritten \/ Written(e) BY <1>1, <1>7 DEF Record
<1>12. /\ tlJournal' \in Seq(ToolEventSet) /\ tlTold' \in [ToolOp -> ToolIds]
       /\ \A u \in ToolOp : EffectsTrue(u)'
       /\ Grows
  BY <1>6, <1>9, <1>10, <1>11, JournalMoves
<1>13. tlJob' \in [ToolJob -> ToolJobs] /\ \A i \in ToolJob : JobTrue(tlJob[i])'
  <2>1. CASE tlJob' = [tlJob EXCEPT ![j] = NoJob]
    <3>1. PICK v : v = NoJob OBVIOUS
    <3>2. v \in ToolJobs /\ v.step = "idle" BY <3>1, NoJobTrue
    <3>3. JobTrue(v)' BY <3>2, IdleTrue
    <3> QED BY <3>1, <3>2, <3>3, <2>1, <1>12, JobMoves
  <2>2. CASE /\ answer.settled
             /\ tlJob' = [tlJob EXCEPT ![j] = [job EXCEPT !.step = "settle", !.answer = answer]]
    <3>1. PICK v : v = [job EXCEPT !.step = "settle", !.answer = answer] OBVIOUS
    <3>2. v \in ToolJobs BY <3>1, <1>2, <1>5 DEF ToolJobs
    <3>3. v.step = "settle" /\ v.op = o /\ v.epoch = job.epoch /\ v.answer = answer
      BY <3>1, <1>1, <1>2 DEF ToolJobs
    <3>4. Frozen(o)' /\ tlTold[o] \subseteq tlTold'[o] /\ tlParts'[o] = tlParts[o]
      BY <2>2, <1>4, <1>5, <1>12 DEF Grows
    <3>5. tlParts'[o] \subseteq tlTold'[o] \cup answer.ids BY <3>4, <2>2, <1>5
    <3>6. job.epoch <= tlLease'.number BY <1>4, <1>6
    <3>7. JobTrue(v)' BY <3>3, <3>4, <3>5, <3>6, <1>4, <1>5 DEF JobTrue
    <3> QED BY <3>1, <3>2, <3>7, <2>2, <1>12, JobMoves
  <2> QED BY <2>1, <2>2, <1>1 DEF Record
<1>14. tlAsk' \subseteq ToolKinds \X ToolOp BY <1>6 DEF ToolInv, ToolTypeOK
<1> QED BY <1>6, <1>12, <1>13, <1>14, RunnerAssembled

\* A settled lookup resolves its call by naming what was not confirmed yet.
LEMMA SettleTrue ==
  ASSUME ToolAssumption, ToolInv, NEW j \in ToolJob, Settle(j) PROVE ToolInv'
<1>1. PICK job, o : job = tlJob[j] /\ o = job.op OBVIOUS
<1>2. job \in ToolJobs /\ JobTrue(job) BY <1>1 DEF ToolInv, ToolTypeOK
<1>3. job.step = "settle" BY <1>1 DEF Settle
<1>4. /\ o \in ToolOp /\ Frozen(o) /\ job.answer.ids \subseteq tlParts[o]
      /\ tlParts[o] \subseteq tlTold[o] \cup job.answer.ids
  BY <1>1, <1>2, <1>3 DEF JobTrue
<1>5. UNCHANGED <<tlServerVars, tlLease>> /\ tlAsk' = tlAsk /\ tlJob' = [tlJob EXCEPT ![j] = NoJob]
  BY DEF Settle
<1>6. PICK k, r, ids, e : k = <<"call", o>> /\ r = TRUE /\ ids = job.answer.ids /\ e = Event(k, r, ids)
  OBVIOUS
<1>7. k \in ToolKeys /\ r \in BOOLEAN /\ ids \in ToolIds
  BY <1>2, <1>4, <1>6, JobFields DEF ToolKeys, ToolKinds
<1>8. e \in ToolEventSet /\ e.key[2] = o /\ e.ids = job.answer.ids
  BY <1>6, <1>7 DEF Event, ToolEventSet
<1>9. ToldTruly(e) BY <1>4, <1>8 DEF ToldTruly
<1>10. NotWritten \/ Written(e) BY <1>1, <1>6 DEF Settle
<1>11. /\ tlJournal' \in Seq(ToolEventSet) /\ tlTold' \in [ToolOp -> ToolIds]
       /\ \A u \in ToolOp : EffectsTrue(u)'
       /\ Grows
  BY <1>5, <1>8, <1>9, <1>10, JournalMoves
<1>12. PICK v : v = NoJob OBVIOUS
<1>13. v \in ToolJobs /\ v.step = "idle" BY <1>12, NoJobTrue
<1>14. JobTrue(v)' BY <1>13, IdleTrue
<1>15. tlJob' \in [ToolJob -> ToolJobs] /\ \A i \in ToolJob : JobTrue(tlJob[i])'
  BY <1>5, <1>11, <1>12, <1>13, <1>14, JobMoves
<1>16. tlAsk' \subseteq ToolKinds \X ToolOp BY <1>5 DEF ToolInv, ToolTypeOK
<1> QED BY <1>5, <1>11, <1>15, <1>16, RunnerAssembled

---------------------------------------------------------------------------
\* A step that changes no more than who is heard, the lease and what is asked for.
LEMMA QuietTrue ==
  ASSUME ToolAssumption, ToolInv, UNCHANGED <<tlServerVars, tlJournal, tlTold>>,
         tlAsk' \subseteq ToolKinds \X ToolOp,
         tlLease' \in ToolLeases,
         \/ tlLease' = tlLease
         \/ tlLease'.number = tlLease.number /\ ~tlLease'.active
         \/ tlLease'.number = tlLease.number + 1,
         tlJob' \in [ToolJob -> ToolJobs],
         \A i \in ToolJob : \/ tlJob'[i] = NoJob
                            \/ \E h \in BOOLEAN : tlJob'[i] = [tlJob[i] EXCEPT !.heard = h]
  PROVE ToolInv'
<1>1. tlLease \in ToolLeases /\ tlLease.number \in Nat BY DEF ToolInv, ToolTypeOK, ToolLeases
<1>2. tlLease' \in ToolLeases /\ tlLease.number <= tlLease'.number BY <1>1
<1>3. \A n \in 0..tlLease.number : Live(n)' => Live(n) BY <1>1 DEF Live
<1>4. Grows /\ \A o \in ToolOp : EffectsTrue(o)' BY <1>2, <1>3, NothingGrows
<1>5. ASSUME NEW i \in ToolJob PROVE JobTrue(tlJob[i])'
  <2>1. PICK w : w = tlJob'[i] OBVIOUS
  <2>2. CASE w = NoJob
    <3>1. w \in ToolJobs /\ w.step = "idle" BY <2>2, NoJobTrue
    <3>2. JobTrue(w)' BY <3>1, IdleTrue
    <3> QED BY <2>1, <3>2 DEF JobTrue
  <2>3. ASSUME NEW h \in BOOLEAN, w = [tlJob[i] EXCEPT !.heard = h] PROVE JobTrue(tlJob[i])'
    <3>1. PICK job : job = tlJob[i] OBVIOUS
    <3>2. job \in ToolJobs /\ JobTrue(job) BY <3>1 DEF ToolInv, ToolTypeOK
    <3>3. w \in ToolJobs /\ w.step = job.step /\ w.kind = job.kind /\ w.op = job.op
      BY <2>3, <3>1, <3>2 DEF ToolJobs
    <3>4. w.epoch = job.epoch /\ w.todo = job.todo /\ w.items = job.items /\ w.answer = job.answer
      BY <2>3, <3>1, <3>2 DEF ToolJobs
    <3>5. JobTrue(w) BY <3>2, <3>3, <3>4 DEF JobTrue
    <3>6. JobTrue(w)' BY <3>3, <3>5, <1>4, JobKept
    <3> QED BY <2>1, <3>6 DEF JobTrue
  <2> QED BY <2>1, <2>2, <2>3
<1>6. tlJournal' \in Seq(ToolEventSet) /\ tlTold' \in [ToolOp -> ToolIds]
  BY DEF ToolInv, ToolTypeOK
<1> QED BY <1>4, <1>5, <1>6, RunnerAssembled

LEMMA QuietSteps ==
  ASSUME ToolAssumption, ToolInv,
         StartRunner \/ Join \/ Offline \/ LeaseEnds \/ RunnerEnds
         \/ \E j \in ToolJob : AnswerLost(j) \/ WorkDropped(j)
  PROVE ToolInv'
<1>1. /\ tlJob \in [ToolJob -> ToolJobs] /\ tlAsk \subseteq ToolKinds \X ToolOp
      /\ tlJournal \in Seq(ToolEventSet) /\ tlLease \in ToolLeases
  BY DEF ToolInv, ToolTypeOK
<1>2. UNCHANGED <<tlServerVars, tlJournal, tlTold>>
  BY DEF StartRunner, Join, Offline, LeaseEnds, RunnerEnds, AnswerLost, WorkDropped
<1>3. tlAsk' \subseteq ToolKinds \X ToolOp
  <2>1. CASE StartRunner
    <3>1. tlAsk' \subseteq Unresolved(tlJournal) BY <2>1 DEF StartRunner, FirstOf
    <3> QED BY <3>1, <1>1, KeysAre
  <2>2. CASE RunnerEnds BY <2>2 DEF RunnerEnds
  <2>3. CASE Join \/ Offline \/ LeaseEnds \/ \E j \in ToolJob : AnswerLost(j) \/ WorkDropped(j)
    BY <2>3, <1>1 DEF Join, Offline, LeaseEnds, AnswerLost, WorkDropped
  <2> QED BY <2>1, <2>2, <2>3
<1>4. /\ tlLease' \in ToolLeases
      /\ \/ tlLease' = tlLease
         \/ tlLease'.number = tlLease.number /\ ~tlLease'.active
         \/ tlLease'.number = tlLease.number + 1
  <2>1. CASE Join BY <2>1, <1>1 DEF Join, ToolLeases
  <2>2. CASE Offline \/ LeaseEnds
    <3>1. tlLease' = tlLease \/ tlLease' = [tlLease EXCEPT !.active = FALSE]
      BY <2>2 DEF Offline, LeaseEnds
    <3> QED BY <3>1, <1>1 DEF ToolLeases
  <2>3. CASE StartRunner \/ RunnerEnds \/ \E j \in ToolJob : AnswerLost(j) \/ WorkDropped(j)
    BY <2>3, <1>1 DEF StartRunner, RunnerEnds, AnswerLost, WorkDropped
  <2> QED BY <2>1, <2>2, <2>3
<1>5. \A i \in ToolJob : \E h \in BOOLEAN : tlJob[i] = [tlJob[i] EXCEPT !.heard = h]
  <2>1. ASSUME NEW i \in ToolJob PROVE \E h \in BOOLEAN : tlJob[i] = [tlJob[i] EXCEPT !.heard = h]
    <3>1. PICK job, h : job = tlJob[i] /\ h = job.heard OBVIOUS
    <3>2. job \in ToolJobs BY <3>1, <1>1
    <3>3. h \in BOOLEAN BY <3>1, <3>2, JobFields
    <3>4. job = [job EXCEPT !.heard = h] BY <3>1, <3>2 DEF ToolJobs
    <3> QED BY <3>1, <3>3, <3>4
  <2> QED BY <2>1
<1>6. /\ tlJob' \in [ToolJob -> ToolJobs]
      /\ \A i \in ToolJob : \/ tlJob'[i] = NoJob
                            \/ \E h \in BOOLEAN : tlJob'[i] = [tlJob[i] EXCEPT !.heard = h]
  <2>1. CASE StartRunner \/ Join \/ Offline \/ LeaseEnds
    <3>1. tlJob' = tlJob BY <2>1 DEF StartRunner, Join, Offline, LeaseEnds
    <3> QED BY <3>1, <1>1, <1>5
  <2>2. CASE RunnerEnds
    <3>1. PICK S \in SUBSET ToolJob :
            tlJob' = [j \in ToolJob |-> IF j \in S THEN [tlJob[j] EXCEPT !.heard = FALSE] ELSE tlJob[j]]
      BY <2>2 DEF RunnerEnds
    <3>2. \A i \in ToolJob : [tlJob[i] EXCEPT !.heard = FALSE] \in ToolJobs BY <1>1 DEF ToolJobs
    <3>3. tlJob' \in [ToolJob -> ToolJobs] BY <3>1, <3>2, <1>1
    <3>4. \A i \in ToolJob : \E h \in BOOLEAN : tlJob'[i] = [tlJob[i] EXCEPT !.heard = h]
      BY <3>1, <1>5
    <3> QED BY <3>3, <3>4
  <2>3. ASSUME NEW j \in ToolJob, AnswerLost(j)
        PROVE /\ tlJob' \in [ToolJob -> ToolJobs]
              /\ \A i \in ToolJob : \E h \in BOOLEAN : tlJob'[i] = [tlJob[i] EXCEPT !.heard = h]
    <3>1. PICK v : v = [tlJob[j] EXCEPT !.heard = FALSE] OBVIOUS
    <3>2. v \in ToolJobs BY <3>1, <1>1 DEF ToolJobs
    <3>3. tlJob' = [tlJob EXCEPT ![j] = v] BY <3>1, <2>3 DEF AnswerLost
    <3> QED BY <3>1, <3>2, <3>3, <1>1, <1>5
  <2>4. ASSUME NEW j \in ToolJob, WorkDropped(j)
        PROVE /\ tlJob' \in [ToolJob -> ToolJobs]
              /\ \A i \in ToolJob : \/ tlJob'[i] = NoJob
                                    \/ \E h \in BOOLEAN : tlJob'[i] = [tlJob[i] EXCEPT !.heard = h]
    <3>1. tlJob' = [tlJob EXCEPT ![j] = NoJob] BY <2>4 DEF WorkDropped
    <3> QED BY <3>1, <1>1, <1>5, NoJobTrue
  <2> QED BY <2>1, <2>2, <2>3, <2>4
<1> QED BY <1>2, <1>3, <1>4, <1>6, QuietTrue

\* The initial state, a stutter, and every step.
LEMMA ToolStarts ==
  ASSUME ToolAssumption, ToolInit PROVE ToolInv
<1>1. {} \in ToolIds /\ NoReceipt \in ToolReceiptSet BY DEF ToolIds, NoReceipt, ToolReceiptSet
<1>2. ToolTypeOK BY <1>1, NoJobTrue DEF ToolInit, ToolTypeOK, ToolLeases
<1>3. \A o \in ToolOp : EffectsTrue(o) BY DEF ToolInit, EffectsTrue, NoReceipt
<1>4. \A j \in ToolJob : JobTrue(tlJob[j]) BY NoJobTrue DEF ToolInit, JobTrue
<1> QED BY <1>2, <1>3, <1>4 DEF ToolInv

LEMMA ToolStays ==
  ASSUME ToolAssumption, ToolInv, UNCHANGED toolVars PROVE ToolInv'
<1>1. /\ UNCHANGED <<tlServerVars, tlLease>> /\ NotWritten /\ tlJob' = tlJob /\ tlAsk' = tlAsk
  BY DEF toolVars, NotWritten
<1>2. /\ tlJournal' \in Seq(ToolEventSet) /\ tlTold' \in [ToolOp -> ToolIds]
      /\ \A o \in ToolOp : EffectsTrue(o)'
      /\ Grows
  BY <1>1, JournalMoves
<1>3. tlJob' \in [ToolJob -> ToolJobs] /\ \A i \in ToolJob : JobTrue(tlJob[i])'
  BY <1>1, <1>2, JobsStay
<1>4. tlAsk' \subseteq ToolKinds \X ToolOp BY <1>1 DEF ToolInv, ToolTypeOK
<1> QED BY <1>1, <1>2, <1>3, <1>4, RunnerAssembled

LEMMA ToolNextKeeps ==
  ASSUME ToolAssumption, "item" \notin ToolFaults, ToolInv, [ToolNext]_toolVars PROVE ToolInv'
<1>1. CASE UNCHANGED toolVars BY <1>1, ToolStays
<1>2. CASE RunnerNote BY <1>2, NoteTrue
<1>3. ASSUME NEW k \in tlAsk, AskReceipt(k) PROVE ToolInv' BY <1>3, AskTrue
<1>4. CASE StartRunner \/ Join \/ Offline \/ LeaseEnds \/ RunnerEnds
           \/ \E j \in ToolJob : AnswerLost(j) \/ WorkDropped(j)
  BY <1>4, QuietSteps
<1>5. ASSUME NEW j \in ToolJob, ServerStart(j) PROVE ToolInv' BY <1>5, StartTrue
<1>6. ASSUME NEW j \in ToolJob, ServerPart(j) PROVE ToolInv' BY <1>6, PartTrue
<1>7. ASSUME NEW j \in ToolJob, ServerCommit(j) PROVE ToolInv' BY <1>7, CommitTrue
<1>8. ASSUME NEW j \in ToolJob, Record(j) PROVE ToolInv' BY <1>8, RecordTrue
<1>9. ASSUME NEW j \in ToolJob, Settle(j) PROVE ToolInv' BY <1>9, SettleTrue
<1>10. ASSUME NEW j \in ToolJob, NEW kind \in ToolKinds, NEW o \in ToolOp, Call(j, kind, o) PROVE ToolInv'
  BY <1>10, CallTrue
<1>11. CASE ToolNext
  BY <1>2, <1>3, <1>4, <1>5, <1>6, <1>7, <1>8, <1>9, <1>10, <1>11 DEF ToolNext, ToolKinds
<1> QED BY <1>1, <1>11

\* The effects of a key are final before an answer names them, and asked for until then.
THEOREM ToolInvariant ==
  ASSUME "item" \notin ToolFaults PROVE ToolSpec => []ToolInv
<1>1. ToolInit => ToolInv BY ToolAssumption, ToolStarts
<1>2. ToolInv /\ [ToolNext]_toolVars => ToolInv' BY ToolAssumption, ToolNextKeeps
<1> QED BY <1>1, <1>2, PTL DEF ToolSpec

\* What a tool call did is confirmed in the runner's journal, or still asked for there,
\* and nothing is confirmed that is not in the document.
THEOREM EffectsKnown ==
  ASSUME "item" \notin ToolFaults PROVE ToolSpec => []ToolEffectsAreKnown
<1>1. ToolInv => ToolEffectsAreKnown BY DEF ToolInv, EffectsTrue, Asked, ToolEffectsAreKnown
<1> QED BY <1>1, ToolInvariant, PTL
=============================================================================
