---------------------------- MODULE MCPushTokens ----------------------------
(***************************************************************************)
(* Two users, two tokens, two calls at a time.                             *)
(***************************************************************************)
EXTENDS PushTokens, TLC

MCSymmetry == Permutations(Recipients) \cup Permutations(Tokens) \cup Permutations(Rows) \cup Permutations(Calls)

=============================================================================
