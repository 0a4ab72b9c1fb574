------------------------------ MODULE MCSession ------------------------------
(* Two tabs of one document: the first reconnects once, and what goes wrong   *)
(* in a run is one member of SessFaults.                                      *)
EXTENDS SessionChannel, TLC

CONSTANTS b1, b2

MCSessConns == b1 :> 2 @@ b2 :> 1

Typing(first, second) == b1 :> first @@ b2 :> second
Trouble(edits, drops, crashes, failures, decisions, ref) ==
  [edits |-> edits, drops |-> drops, crashes |-> crashes, failures |-> failures,
   decisions |-> decisions, ref |-> ref]

\* Two edits of one tab, which a catch-up sends in parts; one of each tab; a
\* lost connection; a failed write; a crash with the state behind a reference.
MCSessFaults == {Trouble(Typing(2, 0), 0, 0, 0, 0, FALSE),
                 Trouble(Typing(1, 1), 0, 0, 0, 0, FALSE),
                 Trouble(Typing(1, 0), 1, 0, 0, 0, FALSE),
                 Trouble(Typing(1, 0), 0, 0, 1, 0, FALSE),
                 Trouble(Typing(1, 0), 0, 1, 0, 0, TRUE)}
\* Two edits and a review of what was there before them.
MCSessReview == {Trouble(Typing(2, 0), 0, 0, 0, 1, FALSE)}
=============================================================================
