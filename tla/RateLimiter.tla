---------------------------- MODULE RateLimiter ----------------------------
(***************************************************************************)
(* The rate limiting of one socket by DrawGateway: isClearRateLimited and  *)
(* isStrokeRateLimited, which differ in their constants only (5 events per *)
(* 5000 ms, 120 events per 1000 ms), the sweep that afterInit runs every   *)
(* minute over both maps, and the removal of the entry by                  *)
(* handleDisconnect.  The maps are keyed by socket id and live in the      *)
(* worker the socket is connected to, so sockets do not interact and the   *)
(* module follows one entry of one map.                                    *)
(*                                                                         *)
(* Date.now() is the variable now; it is taken to never go backwards.      *)
(***************************************************************************)
EXTENDS Naturals

CONSTANTS
    Limit,      \* CLEAR_RATE_LIMIT or STROKE_RATE_LIMIT
    Window,     \* CLEAR_RATE_WINDOW_MS or STROKE_RATE_WINDOW_MS, in ticks
    MaxNow,     \* bound: the last instant of the clock
    MaxCount    \* bound: events counted in one window

ASSUME RateAssumption ==
    /\ Limit \in Nat \ {0}
    /\ Window \in Nat \ {0}
    /\ MaxNow \in Nat
    /\ MaxCount \in Nat \ {0}

VARIABLES
    now,        \* Date.now()
    connected,  \* the socket is connected
    entry,      \* the socket's entry in the rate map
    passed      \* history: passed[t] events got through up to the instant t

rateVars == <<now, connected, entry, passed>>

Instants == 0..MaxNow

\* No entry in the map: every stored entry has counted an event.
Absent == [count |-> 0, windowStart |-> 0]

RateInit ==
    /\ now = 0
    /\ connected = TRUE
    /\ entry = Absent
    /\ passed = [t \in Instants |-> 0]

Tick ==
    /\ now' \in (now + 1)..MaxNow
    /\ UNCHANGED <<connected, entry, passed>>

Admit == passed' = [t \in Instants |-> IF t < now THEN passed[t] ELSE passed[t] + 1]

\* now - entry.windowStart >= WINDOW_MS; a missing entry defaults to a
\* window that starts now, which cannot have expired.
Expired == entry # Absent /\ now - entry.windowStart >= Window

\* Variant with a bug: an expired window keeps its start.
HitExpiredKeepsStart ==
    /\ Expired
    /\ entry' = [entry EXCEPT !.count = 1]
    /\ Admit

\* The window has expired: a new one opens with this event, which passes.
HitExpired ==
    /\ Expired
    /\ entry' = [count |-> 1, windowStart |-> now]
    /\ Admit

\* Variant with a bug: a new window starts one tick ahead.
HitWindowFromFuture ==
    /\ ~Expired
    /\ entry.count < MaxCount
    /\ entry' = [count |-> entry.count + 1,
                 windowStart |-> IF entry = Absent THEN now + Window ELSE entry.windowStart]
    /\ IF entry.count + 1 > Limit THEN UNCHANGED passed ELSE Admit

\* Count the event in the entry (a missing one starts its window now) and
\* let it pass when the count is within the limit.
HitWindow ==
    /\ ~Expired
    /\ entry.count < MaxCount
    /\ entry' = [count |-> entry.count + 1,
                 windowStart |-> IF entry = Absent THEN now ELSE entry.windowStart]
    /\ IF entry.count + 1 > Limit THEN UNCHANGED passed ELSE Admit

\* isClearRateLimited / isStrokeRateLimited, called by clearCanvas and
\* drawStroke before anything else: an event counts even when its sender is
\* in no room.
Hit ==
    /\ connected
    /\ HitExpired \/ HitWindow
    /\ UNCHANGED <<now, connected>>

\* Variant with a bug: the sweep takes every entry for stale.
StaleAtOnce(e) == now > e.windowStart

\* The interval of afterInit: drop an entry older than two windows.
Stale(e) == now - e.windowStart > Window * 2

SweepStale ==
    /\ entry # Absent
    /\ Stale(entry)
    /\ entry' = Absent
    /\ UNCHANGED <<now, connected, passed>>

\* handleDisconnect deletes the entry, and the socket id is never used again.
Disconnect ==
    /\ connected
    /\ connected' = FALSE
    /\ entry' = Absent
    /\ UNCHANGED <<now, passed>>

RateNext == Tick \/ Hit \/ SweepStale \/ Disconnect

RateSpec == RateInit /\ [][RateNext]_rateVars

-----------------------------------------------------------------------------
(* Properties *)

\* The state is well formed: in particular a stored entry has counted at
\* least one event, and its window does not start in the future.
RateTypeOK ==
    /\ now \in Instants
    /\ connected \in BOOLEAN
    /\ entry \in [count : 0..MaxCount, windowStart : 0..now]
    /\ entry.count = 0 => entry = Absent
    /\ passed \in [Instants -> Nat]

\* Whatever the phase of its windows and of the sweep, a socket gets at most
\* twice the limit through in any interval as long as a window: a fixed
\* window counter admits a burst across the boundary of two windows, and
\* never more than that one.
Before(t) == IF t = 0 THEN 0 ELSE passed[t - 1]
SlidingBound ==
    \A t \in Instants : \A u \in t..(t + Window - 1) \cap Instants :
        passed[u] <= Before(t) + 2 * Limit

\* The entry as the socket perceives it: an expired entry, a swept one and a
\* missing one are the same, and so is the entry of a socket that has gone.
Open == connected /\ entry # Absent /\ ~Expired

Quota == INSTANCE WindowQuota WITH
    used   <- IF Open THEN entry.count ELSE 0,
    opened <- IF Open THEN entry.windowStart ELSE 0

\* The limiter, with its map and its sweep, implements the quota per window:
\* neither the sweep nor the lazy reset of an expired entry ever gives a
\* socket more, or less, than Limit events a window.
QuotaSpec == Quota!Spec

=============================================================================
