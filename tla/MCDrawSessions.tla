--------------------------- MODULE MCDrawSessions ---------------------------
(***************************************************************************)
(* Sockets of different users share nothing but the admin's sweep, so one  *)
(* user suffices, with a session and the one that replaces it.  Each socket *)
(* may connect, close, be kicked and crash at any point of its handlers.   *)
(* DrawSessions_proofs covers any number of users and sockets.             *)
(***************************************************************************)
EXTENDS DrawSessions

CONSTANTS u1, s1, s2

MCOwner == [s \in Sockets |-> u1]

=============================================================================
