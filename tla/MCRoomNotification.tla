------------------------ MODULE MCRoomNotification ------------------------
(* Model values for the runs of RoomNotification.                           *)
EXTENDS RoomNotification, TLC

CONSTANTS o1, o2

\* Operators differ in nothing but their name.
OperatorSymmetry == Permutations(Operators)

=============================================================================
