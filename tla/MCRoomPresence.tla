--------------------------- MODULE MCRoomPresence ---------------------------
(***************************************************************************)
(* Two users, one of whom may connect again with a second socket.          *)
(***************************************************************************)
EXTENDS RoomPresence, TLC

CONSTANTS ua, ub, a1, a2, b1

MCOwner == [s \in Sockets |-> IF s = b1 THEN ub ELSE ua]
MCSymmetry == Permutations({a1, a2})

=============================================================================
