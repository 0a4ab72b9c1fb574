------------------------------ MODULE MCJournal ------------------------------
(* Instances of Journal for TLC: the body of an append is its identity, so a *)
(* retry carries the same bytes.                                             *)
EXTENDS Journal, TLC

CONSTANTS w1, w2, r1, r2
MCBody == Identity
MCBodyOf == [id \in Identity |-> id]
Symmetry == Permutations(Writer) \cup Permutations(Room)
=============================================================================
