----------------------------- MODULE MCBackups -----------------------------
(***************************************************************************)
(* Two workers with their cron, one of which may start a backup while the  *)
(* store is busy with its last, and two restores on the command line.      *)
(***************************************************************************)
EXTENDS Backups, TLC

CONSTANTS w1, w2, w3, r1, r2

MCProcess == [o \in Ops |-> IF o \in {w1, w2} THEN "worker" ELSE o]
MCSymmetry == Permutations({w1, w2}) \cup Permutations({r1, r2})

=============================================================================
