------------------------------ MODULE MCAccounts ------------------------------
(***************************************************************************)
(* Two calls at a time, one link of each kind, logins up to the second.    *)
(***************************************************************************)
EXTENDS Accounts, TLC

CONSTANTS a1, r1, d1, c1, c2

MCKind == [m \in Links |-> CASE m = a1 -> "activationToken"
                             [] m = r1 -> "resetToken"
                             [] m = d1 -> "deleteToken"]
MCSymmetry == Permutations(Calls)

=============================================================================
