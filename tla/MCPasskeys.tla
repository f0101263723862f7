----------------------------- MODULE MCPasskeys -----------------------------
(***************************************************************************)
(* One passkey more than an account may have, two calls at a time.         *)
(***************************************************************************)
EXTENDS Passkeys, TLC

MCSymmetry == Permutations(Keys) \cup Permutations(Calls)

=============================================================================
