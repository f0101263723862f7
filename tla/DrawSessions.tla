---------------------------- MODULE DrawSessions ----------------------------
(***************************************************************************)
(* The registry of realtime sessions: which socket of a user receives what *)
(* DrawGateway.emitToUser sends, kept in a Redis hash (user -> socket) by   *)
(* handleConnection and handleDisconnect on every worker of the cluster.   *)
(*                                                                         *)
(* Both handlers are cut at their awaits: between two Redis replies any     *)
(* handler of any worker may run.  Each socket is taken to be on a worker   *)
(* of its own, the placement that orders least: commands of one worker go   *)
(* down one Redis connection, so only those of one socket's handlers are    *)
(* ordered here.  A socket id is used for one connection.                   *)
(*                                                                         *)
(* disconnectSockets(previousSocketId) reaches the other workers through    *)
(* Redis pub/sub: kicks holds the messages under way.                       *)
(***************************************************************************)
EXTENDS FiniteSets, Naturals

CONSTANTS
    Users,
    Sockets,
    Owner,      \* Owner[s]: the user named by the token of socket s
    NoSocket,   \* the nil reply of HGET
    MaxCrashes  \* bound: workers that crash

ASSUME SessionsAssumption ==
    /\ Owner \in [Sockets -> Users]
    /\ NoSocket \notin Sockets
    /\ MaxCrashes \in Nat

VARIABLES
    link,         \* link[s]: the transport of socket s
    conn,         \* conn[s]: how far handleConnection(s) is
    disc,         \* disc[s]: how far handleDisconnect(s) is
    reply,        \* reply[s]: what the last HGET of a handler of s returned
    socketToUser, \* the sockets with an entry in their worker's map
    userSocket,   \* Redis hash USER_SOCKET_KEY
    socketUser,   \* the sockets with a SOCKET_USER key in Redis
    meta,         \* the sockets with a SOCKET_META hash in Redis
    kicks,        \* sockets with a disconnectSockets message under way
    sweep,        \* the admin listing of active sockets: progress, keys, snapshot
    overlapped,   \* history: users of whom two handshakes overlapped
    clobbered     \* history: users whose mapping a stale handleDisconnect removed

redis    == <<userSocket, socketUser, meta>>
handlers == <<conn, disc, reply>>
history  == <<overlapped, clobbered>>
vars     == <<link, handlers, socketToUser, redis, kicks, sweep, history>>

-----------------------------------------------------------------------------
LinkStates == {"idle", "open", "closed"}
ConnStates == {"none", "lookup", "reading", "registering", "writing",
               "writingKeys", "done", "rejected", "crashed"}
DiscStates == {"none", "skipped", "reading", "clearing", "deleting", "done", "crashed"}

MaybeSocket == Sockets \cup {NoSocket}
SocketsOf(u) == {s \in Sockets : Owner[s] = u}

\* handleConnection(s) has read the mapping and not yet written it.
InRegistration(s) == conn[s] \in {"registering", "writing"}
\* handleConnection(s) has entered s in the map of its worker.
Registered(s) == conn[s] \in {"writing", "writingKeys", "done"}
\* The handshake of s has written the mapping.
Mapped(s) == conn[s] \in {"writingKeys", "done"}
\* s is connected and no disconnectSockets is about to end it.
Live(s) == link[s] = "open" /\ s \notin kicks

TypeOK ==
    /\ link \in [Sockets -> LinkStates]
    /\ conn \in [Sockets -> ConnStates]
    /\ disc \in [Sockets -> DiscStates]
    /\ reply \in [Sockets -> MaybeSocket]
    /\ socketToUser \subseteq Sockets
    /\ userSocket \in [Users -> MaybeSocket]
    /\ socketUser \subseteq Sockets
    /\ meta \subseteq Sockets
    /\ kicks \subseteq Sockets
    /\ sweep \in [at : {"idle", "listed", "scanning"},
                  keys : SUBSET Sockets, active : SUBSET Sockets]
    /\ overlapped \subseteq Users
    /\ clobbered \subseteq Users

Init ==
    /\ link = [s \in Sockets |-> "idle"]
    /\ conn = [s \in Sockets |-> "none"]
    /\ disc = [s \in Sockets |-> "none"]
    /\ reply = [s \in Sockets |-> NoSocket]
    /\ socketToUser = {}
    /\ userSocket = [u \in Users |-> NoSocket]
    /\ socketUser = {}
    /\ meta = {}
    /\ kicks = {}
    /\ sweep = [at |-> "idle", keys |-> {}, active |-> {}]
    /\ overlapped = {}
    /\ clobbered = {}

-----------------------------------------------------------------------------
(* handleConnection *)

\* A client connects: the handler verifies the token and asks for the user.
Connect(s) ==
    /\ link[s] = "idle"
    /\ link' = [link EXCEPT ![s] = "open"]
    /\ conn' = [conn EXCEPT ![s] = "lookup"]
    /\ UNCHANGED <<disc, reply, socketToUser, redis, kicks, sweep, history>>

\* The transport of s closes.  handleDisconnect runs up to its first await:
\* without an entry for s it returns at once, else it drops the entry and
\* asks Redis for the user's current socket.
CloseTransport(s) ==
    /\ link' = [link EXCEPT ![s] = "closed"]
    /\ socketToUser' = socketToUser \ {s}
    /\ disc' = [disc EXCEPT ![s] = IF s \in socketToUser THEN "reading" ELSE "skipped"]

\* No valid token, no such user, a blocked user or an old sessionVersion:
\* the socket is disconnected, unless it is closed already.
Reject(s) ==
    /\ conn[s] = "lookup"
    /\ conn' = [conn EXCEPT ![s] = "rejected"]
    /\ IF link[s] = "open" THEN CloseTransport(s)
                           ELSE UNCHANGED <<link, socketToUser, disc>>
    /\ UNCHANGED <<reply, redis, kicks, sweep, history>>

\* The user may connect.  Nothing checks that the socket is still open.
Accept(s) ==
    /\ conn[s] = "lookup"
    /\ conn' = [conn EXCEPT ![s] = "reading"]
    /\ UNCHANGED <<link, disc, reply, socketToUser, redis, kicks, sweep, history>>

\* Redis serves the HGET of the user's previous socket.
ReadPrevious(s) ==
    LET u == Owner[s] IN
    /\ conn[s] = "reading"
    /\ conn' = [conn EXCEPT ![s] = "registering"]
    /\ reply' = [reply EXCEPT ![s] = userSocket[u]]
    /\ overlapped' = IF \E t \in SocketsOf(u) : InRegistration(t)
                       THEN overlapped \cup {u} ELSE overlapped
    /\ UNCHANGED <<link, disc, socketToUser, redis, kicks, sweep, clobbered>>

\* Variant with a bug: the previous socket is not disconnected.
RegisterWithoutKick(s) ==
    /\ conn[s] = "registering"
    /\ conn' = [conn EXCEPT ![s] = "writing"]
    /\ reply' = [reply EXCEPT ![s] = NoSocket]
    /\ socketToUser' = socketToUser \cup {s}
    /\ UNCHANGED <<link, disc, redis, kicks, sweep, history>>

\* Variant with a bug: the nil reply is taken for a socket to disconnect.
RegisterKicksNil(s) ==
    /\ conn[s] = "registering"
    /\ conn' = [conn EXCEPT ![s] = "writing"]
    /\ reply' = [reply EXCEPT ![s] = NoSocket]
    /\ kicks' = kicks \cup ({reply[s]} \ {s})
    /\ socketToUser' = socketToUser \cup {s}
    /\ UNCHANGED <<link, disc, redis, sweep, history>>

\* Disconnect the previous socket cluster-wide, enter s in the local map and
\* send the writes.
Register(s) ==
    /\ conn[s] = "registering"
    /\ conn' = [conn EXCEPT ![s] = "writing"]
    /\ reply' = [reply EXCEPT ![s] = NoSocket]
    /\ kicks' = kicks \cup ({reply[s]} \ {NoSocket, s})
    /\ socketToUser' = socketToUser \cup {s}
    /\ UNCHANGED <<link, disc, redis, sweep, history>>

\* Redis runs the HSET of the mapping ...
WriteMapping(s) ==
    /\ conn[s] = "writing"
    /\ conn' = [conn EXCEPT ![s] = "writingKeys"]
    /\ userSocket' = [userSocket EXCEPT ![Owner[s]] = s]
    /\ UNCHANGED <<link, disc, reply, socketToUser, socketUser, meta, kicks, sweep, history>>

\* ... and the writes of the socket's own keys.
WriteKeys(s) ==
    /\ conn[s] = "writingKeys"
    /\ conn' = [conn EXCEPT ![s] = "done"]
    /\ socketUser' = socketUser \cup {s}
    /\ meta' = meta \cup {s}
    /\ UNCHANGED <<link, disc, reply, socketToUser, userSocket, kicks, sweep, history>>

-----------------------------------------------------------------------------
(* The end of a socket *)

\* The client leaves, or its connection drops.
Close(s) ==
    /\ link[s] = "open"
    /\ CloseTransport(s)
    /\ UNCHANGED <<conn, reply, redis, kicks, sweep, history>>

\* The disconnectSockets message reaches the worker of s.
Kick(s) ==
    /\ s \in kicks
    /\ kicks' = kicks \ {s}
    /\ IF link[s] = "open" THEN CloseTransport(s)
                           ELSE UNCHANGED <<link, socketToUser, disc>>
    /\ UNCHANGED <<conn, reply, redis, sweep, history>>

\* Redis serves the HGET of handleDisconnect, which follows the writes of
\* handleConnection(s) on the worker's connection.
ReadCurrent(s) ==
    /\ disc[s] = "reading"
    /\ conn[s] = "done"
    /\ reply' = [reply EXCEPT ![s] = userSocket[Owner[s]]]
    /\ disc' = [disc EXCEPT ![s] = "clearing"]
    /\ UNCHANGED <<link, conn, socketToUser, redis, kicks, sweep, history>>

\* Variant with a bug: the mapping is removed whatever socket it names.
ClearMappingAlways(s) ==
    LET u == Owner[s] IN
    /\ disc[s] = "clearing"
    /\ disc' = [disc EXCEPT ![s] = "deleting"]
    /\ reply' = [reply EXCEPT ![s] = NoSocket]
    /\ userSocket' = [userSocket EXCEPT ![u] = NoSocket]
    /\ clobbered' = IF reply[s] = s /\ userSocket[u] \notin {s, NoSocket}
                      THEN clobbered \cup {u} ELSE clobbered
    /\ UNCHANGED <<link, conn, socketToUser, socketUser, meta, kicks, sweep, overlapped>>

\* Redis runs the HDEL, sent only when the reply named s.
ClearMapping(s) ==
    LET u == Owner[s] IN
    /\ disc[s] = "clearing"
    /\ disc' = [disc EXCEPT ![s] = "deleting"]
    /\ reply' = [reply EXCEPT ![s] = NoSocket]
    /\ userSocket' = IF reply[s] = s THEN [userSocket EXCEPT ![u] = NoSocket] ELSE userSocket
    /\ clobbered' = IF reply[s] = s /\ userSocket[u] \notin {s, NoSocket}
                      THEN clobbered \cup {u} ELSE clobbered
    /\ UNCHANGED <<link, conn, socketToUser, socketUser, meta, kicks, sweep, overlapped>>

\* Variant with a bug: the keys are deleted only with the mapping.
DeleteKeysIfCurrent(s) ==
    /\ disc[s] = "deleting"
    /\ disc' = [disc EXCEPT ![s] = "done"]
    /\ socketUser' = IF userSocket[Owner[s]] = NoSocket THEN socketUser \ {s} ELSE socketUser
    /\ meta' = IF userSocket[Owner[s]] = NoSocket THEN meta \ {s} ELSE meta
    /\ UNCHANGED <<link, conn, reply, socketToUser, userSocket, kicks, sweep, history>>

\* Redis deletes the socket's own keys, whatever the reply was.
DeleteKeys(s) ==
    /\ disc[s] = "deleting"
    /\ disc' = [disc EXCEPT ![s] = "done"]
    /\ socketUser' = socketUser \ {s}
    /\ meta' = meta \ {s}
    /\ UNCHANGED <<link, conn, reply, socketToUser, userSocket, kicks, sweep, history>>

\* The worker of s dies with its memory and its handlers; nothing it had not
\* yet sent to Redis happens any more.  PM2 starts an empty worker instead.
Crash(s) ==
    /\ link[s] # "idle"
    /\ disc[s] # "crashed"
    /\ Cardinality({t \in Sockets : disc[t] = "crashed"}) < MaxCrashes
    /\ link' = [link EXCEPT ![s] = "closed"]
    /\ conn' = [conn EXCEPT ![s] = "crashed"]
    /\ disc' = [disc EXCEPT ![s] = "crashed"]
    /\ reply' = [reply EXCEPT ![s] = NoSocket]
    /\ socketToUser' = socketToUser \ {s}
    /\ UNCHANGED <<redis, kicks, sweep, history>>

-----------------------------------------------------------------------------
(* getActiveSocketsMetadata: KEYS, then the sockets of the cluster, then one *)
(* key after the other, deleting those whose socket is not among them.       *)

SweepList ==
    /\ sweep.at = "idle"
    /\ sweep' = [at |-> "listed", keys |-> meta, active |-> {}]
    /\ UNCHANGED <<link, handlers, socketToUser, redis, kicks, history>>

SweepSnapshot ==
    /\ sweep.at = "listed"
    /\ sweep' = [sweep EXCEPT !.at = "scanning", !.active = {s \in Sockets : link[s] = "open"}]
    /\ UNCHANGED <<link, handlers, socketToUser, redis, kicks, history>>

\* Variant with a bug: the keys are listed after the snapshot of the sockets.
SweepEntryListedLate ==
    /\ sweep.at = "scanning"
    /\ \E s \in sweep.keys \cup meta :
         /\ sweep' = [sweep EXCEPT !.keys = @ \ {s}]
         /\ meta' = IF s \in sweep.active THEN meta ELSE meta \ {s}
    /\ UNCHANGED <<link, handlers, socketToUser, userSocket, socketUser, kicks, history>>

SweepEntry ==
    /\ sweep.at = "scanning"
    /\ \E s \in sweep.keys :
         /\ sweep' = [sweep EXCEPT !.keys = @ \ {s}]
         /\ meta' = IF s \in sweep.active THEN meta ELSE meta \ {s}
    /\ UNCHANGED <<link, handlers, socketToUser, userSocket, socketUser, kicks, history>>

SweepEnd ==
    /\ sweep.at = "scanning"
    /\ sweep.keys = {}
    /\ sweep' = [at |-> "idle", keys |-> {}, active |-> {}]
    /\ UNCHANGED <<link, handlers, socketToUser, redis, kicks, history>>

Sweep == SweepList \/ SweepSnapshot \/ SweepEntry \/ SweepEnd

-----------------------------------------------------------------------------
\* The continuation of a handler that is waiting.
Continue(s) ==
    \/ Reject(s) \/ Accept(s) \/ ReadPrevious(s) \/ Register(s)
    \/ WriteMapping(s) \/ WriteKeys(s)
    \/ ReadCurrent(s) \/ ClearMapping(s) \/ DeleteKeys(s)

Next ==
    \/ \E s \in Sockets :
         Connect(s) \/ Continue(s) \/ Close(s) \/ Kick(s) \/ Crash(s)
    \/ Sweep

\* MySQL and Redis answer and pub/sub messages arrive, so a handler that
\* waits goes on and a kick is delivered.  Nothing makes a client act.
Fairness == \A s \in Sockets : WF_vars(Continue(s)) /\ WF_vars(Kick(s))

Spec == Init /\ [][Next]_vars
FairSpec == Spec /\ Fairness

-----------------------------------------------------------------------------
(* Properties *)

\* Users of whom neither race has happened.
Undisturbed(u) == u \notin overlapped \cup clobbered

\* "Only one active realtime session remains per user": draw.gateway.ts:228.  Two
\* handshakes of a user that overlap, and a disconnect handler that removes the
\* mapping of the next socket in spite of the guard of line 296, are the only ways to
\* a second session: with crashes, late kicks and sockets that close while they are
\* being registered, a user of whom neither happened has at most one.
SingleSessionButForRaces ==
    \A s, t \in Sockets :
        (s # t /\ Owner[s] = Owner[t] /\ Undisturbed(Owner[s])
               /\ Registered(s) /\ Registered(t))
            => ~(Live(s) /\ Live(t))

\* But for the same two races, emitToUser finds the user's session: a live
\* socket whose handshake has written the mapping is the one it names.
SessionRoutable ==
    \A s \in Sockets :
        (Undisturbed(Owner[s]) /\ Live(s) /\ Mapped(s)) => userSocket[Owner[s]] = s

\* A disconnect that was handled to its end leaves nothing of the socket
\* behind, in whatever order it ran with the handshakes of the same user.
NoLeftover ==
    \A s \in Sockets :
        /\ disc[s] \in {"deleting", "done"} => userSocket[Owner[s]] # s
        /\ disc[s] = "done" => s \notin socketToUser \cup socketUser \cup meta

\* The listing that prunes stale metadata never prunes that of a socket that
\* is connected, however many connect while it scans.
SweepSparesLive ==
    [][\A s \in meta \ meta' : link[s] = "closed"]_vars

\* But for the same two races, a user ends up with at most one open socket
\* that was registered: superseded ones do get disconnected.
EventuallyOneSession ==
    \A u \in Users :
        <>[](\/ ~Undisturbed(u)
             \/ Cardinality({s \in SocketsOf(u) : link[s] = "open" /\ Registered(s)}) <= 1)

=============================================================================
