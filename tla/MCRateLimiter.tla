--------------------------- MODULE MCRateLimiter ---------------------------
(***************************************************************************)
(* The instance TLC checks.  Ten instants with windows of three hold three *)
(* windows in a row and a sweep of a window that ended; a limit of two     *)
(* with four events a window lets a window be exceeded twice.              *)
(***************************************************************************)
EXTENDS RateLimiter

=============================================================================
