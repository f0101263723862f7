----------------------------- MODULE MCGroupChats -----------------------------
(***************************************************************************)
(* A group of an owner and one invitee: a removal between two invitations  *)
(* needs two of them, and three calls a removal while two others go on.    *)
(***************************************************************************)
EXTENDS GroupChats, TLC

CONSTANTS owner, guest, team, i1, i2, c1, c2, c3

MCOwner == [h \in Groups |-> owner]
MCInvited == [i \in Invitations |-> <<team, guest>>]
MCSymmetry == Permutations(Invitations) \cup Permutations(Calls)

=============================================================================
