-------------------------- MODULE MCSubscriptions --------------------------
(***************************************************************************)
(* One purchase in each store, two calls at a time.                        *)
(***************************************************************************)
EXTENDS Subscriptions, TLC

CONSTANTS g1, i1, c1, c2

MCPlatform == [p \in Purchases |-> IF p = i1 THEN "ios" ELSE "android"]
MCSymmetry == Permutations(Calls)

=============================================================================
