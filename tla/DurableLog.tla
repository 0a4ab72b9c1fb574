----------------------------- MODULE DurableLog -----------------------------
(***************************************************************************)
(* What the journal promises its callers, without saying how: records      *)
(* become durable and stay durable, a cursor has one record, and Ok is     *)
(* answered only for a record that is durable.                             *)
(***************************************************************************)
CONSTANT Record     \* records: an id and a body
VARIABLES log,      \* the durable records
          answered  \* the records whose append has answered Ok

logVars == <<log, answered>>

Init == log = {} /\ answered = {}

\* Some records become durable together; none of their cursors had another.
Persist ==
  /\ log \subseteq log' /\ log' \subseteq Record
  /\ \A r \in log' \ log, q \in log' : q.id = r.id => q = r

\* Ok for a record that is durable by now: a flush found committed is answered
\* in the step that finds it.
Answer == \/ UNCHANGED answered
          \/ \E r \in log' : answered' = answered \cup {r}

Next == Persist /\ Answer

Spec == Init /\ [][Next]_logVars
=============================================================================
