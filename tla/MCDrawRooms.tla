----------------------------- MODULE MCDrawRooms -----------------------------
(***************************************************************************)
(* Two users on two workers with a chat between them and a group that one  *)
(* of them owns: the second room is what a socket may be in already when it *)
(* joins the first.                                                        *)
(***************************************************************************)
EXTENDS DrawRooms, TLC

CONSTANTS a, b, w1, w2, chat, group, owner

MCHome == a :> w1 @@ b :> w2
MCParties == [c \in Chats |-> {a, b}]
MCCreator == [g \in Groups |-> owner]
MCInvitees == [g \in Groups |-> {a}]

=============================================================================
