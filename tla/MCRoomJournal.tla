---------------------------- MODULE MCRoomJournal ----------------------------
(* Two rooms with a client each, over one journal.                           *)
EXTENDS RoomJournal, TLC

CONSTANTS r1, r2, e1, e2
MCBody == SUBSET Edit
\* The rooms choose the bodies, so the clients of Journal's own Next are unused.
MCBodyOf == [id \in Identity |-> {}]
Symmetry == Permutations(Room) \cup Permutations(Edit)
=============================================================================
