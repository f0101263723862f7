--------------------------- MODULE MCChatRequests ---------------------------
(***************************************************************************)
(* Two users, two requests in one direction: the race of two creations     *)
(* needs both, the race of two answers one of them.                        *)
(***************************************************************************)
EXTENDS ChatRequests, TLC

CONSTANTS u, v, r1, r2, c1, c2

MCEnds == [r \in Requests |-> <<u, v>>]
MCSymmetry == Permutations(Requests) \cup Permutations(Calls)

=============================================================================
