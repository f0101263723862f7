---------------------------- MODULE WindowQuota ----------------------------
(***************************************************************************)
(* What a rate limiter of DrawGateway promises to one socket: time is cut  *)
(* into windows that open with an event and last Window, and a window      *)
(* admits its first Limit events.  There is no map, no stored entry and no *)
(* cleanup here; RateLimiter, the translation of the code, is shown to     *)
(* implement this specification.                                           *)
(***************************************************************************)
EXTENDS Naturals

CONSTANTS
    Limit,      \* events a window admits
    Window,     \* length of a window, in clock ticks
    MaxNow,     \* bound: the last instant of the clock
    MaxCount    \* bound: events offered in one window

VARIABLES
    now,        \* the clock
    used,       \* events offered in the open window, 0 when none is open
    connected,  \* the socket is there to offer events
    opened,     \* the instant the open window opened, 0 when none is open
    passed      \* passed[t]: events admitted up to the instant t

vars == <<now, connected, used, opened, passed>>

Init ==
    /\ now = 0
    /\ connected = TRUE
    /\ used = 0
    /\ opened = 0
    /\ passed = [t \in 0..MaxNow |-> 0]

\* Time passes; the open window closes once it has lasted Window.
Pass ==
    \E t \in (now + 1)..MaxNow :
        /\ now' = t
        /\ IF used > 0 /\ t - opened >= Window
              THEN used' = 0 /\ opened' = 0
              ELSE UNCHANGED <<used, opened>>
        /\ UNCHANGED <<connected, passed>>

\* An event opens a window when none is open, and is admitted when it is
\* one of the first Limit events of its window.
Offer ==
    /\ connected
    /\ used < MaxCount
    /\ used' = used + 1
    /\ opened' = IF used = 0 THEN now ELSE opened
    /\ passed' = [t \in 0..MaxNow |-> IF used + 1 <= Limit /\ t >= now THEN passed[t] + 1
                                                                     ELSE passed[t]]
    /\ UNCHANGED <<now, connected>>

\* The socket leaves for good, and its quota with it.
Leave ==
    /\ connected
    /\ connected' = FALSE
    /\ used' = 0
    /\ opened' = 0
    /\ UNCHANGED <<now, passed>>

Next == Pass \/ Offer \/ Leave

Spec == Init /\ [][Next]_vars

=============================================================================
