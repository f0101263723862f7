---------------------------- MODULE RoomPresence ----------------------------
(***************************************************************************)
(* What the two users of a chat are told about each other's presence in    *)
(* the drawing room: the rest of joinChat after the socket has entered the *)
(* room (list the peers, announce, and if nobody is there find out whether  *)
(* to notify the peer), against leaveChat, handleDisconnect, reconnections *)
(* and forceCloseRoom.                                                     *)
(*                                                                         *)
(* Each socket is on a worker of its own.  Events emitted to the room are   *)
(* published through one Redis server, which hands them to every worker in *)
(* one order; a worker passes an event on to the socket if it is in the     *)
(* room when the event arrives.  inbox[s] holds what the worker of s has    *)
(* not handled yet.                                                        *)
(*                                                                         *)
(* The room and the HSET of currentRoom change in one step: both are issued *)
(* in one tick, and a worker answers a later fetchSockets on the same Redis *)
(* connection, after the HSET.                                             *)
(*                                                                         *)
(* informed is the part of the client that matters: a client learns of its *)
(* peer from the list in chat.joined or from draw.peer.joined, and unlearns *)
(* it from draw.peer.left, draw.room.closed or its own leaving.             *)
(***************************************************************************)
EXTENDS FiniteSets, Naturals, Sequences

CONSTANTS
    Pair,       \* the two parties of the chat
    Sockets,
    Owner,      \* Owner[s]: the user of socket s
    NoSocket,   \* the nil reply of HGET
    MaxDisruptions, \* bound: force-closes and reconnections
    MaxJoins,   \* bound: chat.join events
    MaxJoining, \* bound: joins under way at a time
    MaxInbox    \* bound: events a worker is behind

ASSUME PresenceAssumption ==
    /\ \E u, v \in Pair : u # v /\ Pair = {u, v}
    /\ Owner \in [Sockets -> Pair]
    /\ NoSocket \notin Sockets
    /\ {MaxDisruptions, MaxJoins, MaxJoining, MaxInbox} \subseteq Nat

VARIABLES
    link,        \* link[s]: "idle", "open" or "closed"
    userSocket,  \* Redis: the user's current socket
    keys,        \* Redis: sockets with a SOCKET_USER key
    metaRoom,    \* Redis: sockets whose metadata names the room
    member,      \* Socket.IO: sockets in the room
    entry,       \* local maps: sockets whose socketToRoom names the room
    join,        \* join[s]: how far the last joinChat of s is
    found,       \* found[s]: the socket that fetchSockets, or HGET, returned
    cleanup,     \* cleanup[s]: how far handleDisconnect is
    inbox,       \* inbox[s]: events and the answer on their way to the worker of s
    informed,    \* sockets whose client has been told that the peer is there
    joins,       \* chat.join events sent
    disruptions, \* times the room was force-closed or a user connected again
    waitingSent, \* history: sockets in the room whose join had draw.peer.waiting sent
    accompanied, \* history: ... that met the peer there since they joined
    misled,      \* history: ... whose join found outdated metadata
    doubled      \* history: ... that were there together with another socket of the user,
                 \* or with a worker's entry of one

redis   == <<userSocket, keys, metaRoom>>
counts  == <<joins, disruptions>>
sinceJoined == <<waitingSent, accompanied, misled, doubled>>
presenceVars == <<link, redis, member, entry, join, found, cleanup, inbox, informed, counts, sinceJoined>>

-----------------------------------------------------------------------------
JoinSteps == {"none", "fetch", "await", "name", "locate", "compare"}
Event == ({"joined", "left"} \X Pair) \cup ({"closed", "evict"} \X {NoSocket})
            \cup ({"sockets"} \X (Sockets \cup {NoSocket}))

PresenceTypeOK ==
    /\ link \in [Sockets -> {"idle", "open", "closed"}]
    /\ userSocket \in [Pair -> Sockets \cup {NoSocket}]
    /\ keys \subseteq Sockets
    /\ metaRoom \subseteq Sockets
    /\ member \subseteq {s \in Sockets : link[s] = "open"}
    /\ entry \subseteq Sockets
    /\ join \in [Sockets -> JoinSteps]
    /\ found \in [Sockets -> Sockets \cup {NoSocket}]
    /\ cleanup \in [Sockets -> {"none", "read", "clear", "delete"}]
    /\ inbox \in [Sockets -> Seq(Event)]
    /\ informed \subseteq Sockets
    /\ joins \in 0..MaxJoins
    /\ disruptions \in 0..MaxDisruptions
    /\ waitingSent \cup accompanied \cup misled \cup doubled \subseteq Sockets

Peer(s) == CHOOSE u \in Pair : u # Owner[s]
Together(room) == {s \in room : \E t \in room : Owner[t] # Owner[s]}

\* To what is on its way, es is added: published for the sockets but except.
Publish(under, es, except) ==
    /\ \A t \in Sockets \ except : Len(under[t]) + Len(es) <= MaxInbox
    /\ inbox' = [t \in Sockets |->
                   IF t \in except \/ link[t] # "open" THEN under[t] ELSE under[t] \o es]

PresenceInit ==
    /\ link = [s \in Sockets |-> "idle"]
    /\ userSocket = [u \in Pair |-> NoSocket]
    /\ keys = {}
    /\ metaRoom = {}
    /\ member = {}
    /\ entry = {}
    /\ join = [s \in Sockets |-> "none"]
    /\ found = [s \in Sockets |-> NoSocket]
    /\ cleanup = [s \in Sockets |-> "none"]
    /\ inbox = [s \in Sockets |-> <<>>]
    /\ informed = {}
    /\ joins = 0
    /\ disruptions = 0
    /\ waitingSent = {}
    /\ accompanied = {}
    /\ misled = {}
    /\ doubled = {}

CanJoin == joins < MaxJoins /\ Cardinality({s \in Sockets : join[s] # "none"}) < MaxJoining

-----------------------------------------------------------------------------
\* A handshake, whole (DrawSessions has its steps).  The user's previous
\* socket is told to disconnect, and does so some time later.
Connect(s) ==
    /\ link[s] = "idle"
    /\ IF \A t \in Sockets : Owner[t] = Owner[s] => link[t] = "idle"
         THEN UNCHANGED disruptions
         ELSE disruptions < MaxDisruptions /\ disruptions' = disruptions + 1
    /\ link' = [link EXCEPT ![s] = "open"]
    /\ userSocket' = [userSocket EXCEPT ![Owner[s]] = s]
    /\ keys' = keys \cup {s}
    /\ UNCHANGED <<metaRoom, member, entry, join, found, cleanup, inbox, informed, joins, sinceJoined>>

\* The sockets of out are no longer in the room.
Forget(out) ==
    /\ waitingSent' = waitingSent \ out
    /\ accompanied' = accompanied \ out
    /\ misled' = misled \ out
    /\ doubled' = doubled \ out

\* Sockets of the same user that are still there.
Others(s) == {t \in (member \cup entry) \ {s} : Owner[t] = Owner[s]}

\* Variant with a bug: a socket that has closed joins nevertheless.
EnterWhenClosed(s) ==
    /\ link[s] # "idle"
    /\ join[s] = "none"
    /\ CanJoin
    /\ joins' = joins + 1
    /\ member' = member \cup {s}
    /\ entry' = entry \cup {s}
    /\ metaRoom' = metaRoom \cup {s}
    /\ join' = [join EXCEPT ![s] = "fetch"]
    /\ waitingSent' = waitingSent \ {s}
    /\ misled' = misled \ {s}
    /\ accompanied' = (accompanied \ {s}) \cup Together(member')
    /\ doubled' = IF Others(s) = {} THEN doubled \ {s} ELSE doubled \cup (Others(s) \cap member) \cup {s}
    /\ UNCHANGED <<link, userSocket, keys, found, cleanup, inbox, informed, disruptions>>

\* joinChat up to the HSET of currentRoom: the socket is in the room.
Enter(s) ==
    /\ link[s] = "open"
    /\ join[s] = "none"
    /\ CanJoin
    /\ joins' = joins + 1
    /\ member' = member \cup {s}
    /\ entry' = entry \cup {s}
    /\ metaRoom' = metaRoom \cup {s}
    /\ join' = [join EXCEPT ![s] = "fetch"]
    /\ waitingSent' = waitingSent \ {s}
    /\ misled' = misled \ {s}
    /\ accompanied' = (accompanied \ {s}) \cup Together(member')
    /\ doubled' = IF Others(s) = {} THEN doubled \ {s} ELSE doubled \cup (Others(s) \cap member) \cup {s}
    /\ UNCHANGED <<link, userSocket, keys, found, cleanup, inbox, informed, disruptions>>

\* The other workers answer fetchSockets, over the same pub/sub connection:
\* all that was published before is handled first.  Their answers are taken
\* at one time here; p is the first socket in them that is not s.
Fetch(s) ==
    /\ join[s] = "fetch"
    /\ Len(inbox[s]) < MaxInbox
    /\ \E p \in IF member \subseteq {s} THEN {NoSocket} ELSE member \ {s} :
         inbox' = [inbox EXCEPT ![s] = Append(@, <<"sockets", p>>)]
    /\ join' = [join EXCEPT ![s] = "await"]
    /\ UNCHANGED <<link, redis, member, entry, found, cleanup, informed, counts, sinceJoined>>

\* Nobody else is there: chat.joined goes out with an empty list, the room is
\* told, and the peer is to be located.
FetchedNobody(s) ==
    /\ join[s] = "await"
    /\ inbox[s] # <<>> /\ Head(inbox[s]) = <<"sockets", NoSocket>>
    /\ join' = [join EXCEPT ![s] = "locate"]
    /\ Publish([inbox EXCEPT ![s] = Tail(@)], <<<<"joined", Owner[s]>>>>, {s})
    /\ UNCHANGED <<link, redis, member, entry, found, cleanup, informed, counts, sinceJoined>>

\* There is a socket, whose user is asked of Redis.
FetchedPeer(s) ==
    /\ join[s] = "await"
    /\ inbox[s] # <<>> /\ Head(inbox[s]) \in {"sockets"} \X Sockets
    /\ found' = [found EXCEPT ![s] = Head(inbox[s])[2]]
    /\ inbox' = [inbox EXCEPT ![s] = Tail(@)]
    /\ join' = [join EXCEPT ![s] = "name"]
    /\ UNCHANGED <<link, redis, member, entry, cleanup, informed, counts, sinceJoined>>

\* Variant with a bug: draw.peer.joined goes to the joiner.
AnnounceToSelf(s) ==
    LET named == found[s] \in keys IN
    /\ join[s] = "name"
    /\ join' = [join EXCEPT ![s] = IF named THEN "none" ELSE "locate"]
    /\ found' = [found EXCEPT ![s] = NoSocket]
    /\ informed' = IF named /\ Owner[found[s]] # Owner[s] /\ link[s] = "open"
                     THEN informed \cup {s} ELSE informed
    /\ UNCHANGED <<link, redis, member, entry, cleanup, inbox, counts, sinceJoined>>

\* chat.joined with the user found, if its key still exists, and draw.peer.joined.
Announce(s) ==
    LET named == found[s] \in keys IN
    /\ join[s] = "name"
    /\ join' = [join EXCEPT ![s] = IF named THEN "none" ELSE "locate"]
    /\ found' = [found EXCEPT ![s] = NoSocket]
    /\ informed' = IF named /\ Owner[found[s]] # Owner[s] /\ link[s] = "open"
                     THEN informed \cup {s} ELSE informed
    /\ Publish(inbox, <<<<"joined", Owner[s]>>>>, {s})
    /\ UNCHANGED <<link, redis, member, entry, cleanup, counts, sinceJoined>>

\* draw.peer.waiting is emitted to the peer's socket, if any, and pushed.
SendWaiting(s) == waitingSent' = waitingSent \cup ({s} \cap member)

\* Variant with a bug: a peer who is connected is taken to be in the room.
LocateOnlineOnly(s) ==
    LET p == userSocket[Peer(s)] IN
    /\ join[s] = "locate"
    /\ join' = [join EXCEPT ![s] = IF p = NoSocket THEN "none" ELSE "compare"]
    /\ found' = [found EXCEPT ![s] = p]
    /\ UNCHANGED <<link, redis, member, entry, cleanup, inbox, informed, counts, sinceJoined>>

\* isUserInRoom: the peer's socket ...
Locate(s) ==
    LET p == userSocket[Peer(s)] IN
    /\ join[s] = "locate"
    /\ IF p = NoSocket
         THEN /\ join' = [join EXCEPT ![s] = "none"]
              /\ SendWaiting(s)
              /\ UNCHANGED found
         ELSE /\ join' = [join EXCEPT ![s] = "compare"]
              /\ found' = [found EXCEPT ![s] = p]
              /\ UNCHANGED waitingSent
    /\ UNCHANGED <<link, redis, member, entry, cleanup, inbox, informed, counts,
                   accompanied, misled, doubled>>

\* ... and the room its metadata names: no notice when it is this one.
Compare(s) ==
    /\ join[s] = "compare"
    /\ join' = [join EXCEPT ![s] = "none"]
    /\ found' = [found EXCEPT ![s] = NoSocket]
    /\ IF found[s] \in metaRoom
         THEN /\ misled' = IF found[s] \in member THEN misled ELSE misled \cup ({s} \cap member)
              /\ UNCHANGED waitingSent
         ELSE SendWaiting(s) /\ UNCHANGED misled
    /\ UNCHANGED <<link, redis, member, entry, cleanup, inbox, informed, counts, accompanied, doubled>>

-----------------------------------------------------------------------------
\* leaveChat, on the room the worker knows of.
Leave(s) ==
    /\ link[s] = "open"
    /\ s \in entry
    /\ Publish(inbox, <<<<"left", Owner[s]>>>>, {s})
    /\ member' = member \ {s}
    /\ entry' = entry \ {s}
    /\ metaRoom' = metaRoom \ {s}
    /\ informed' = informed \ {s}
    /\ Forget({s})
    /\ UNCHANGED <<link, userSocket, keys, join, found, cleanup, counts>>

\* Of what was on its way, a worker that has lost the socket waits for the answer only.
AnswerIn(q) ==
    LET answers == {q[k] : k \in DOMAIN q} \cap ({"sockets"} \X (Sockets \cup {NoSocket})) IN
    IF answers = {} THEN <<>> ELSE <<CHOOSE e \in answers : TRUE>>

\* The socket closes: it is out of the room, and handleDisconnect tells the
\* room, then asks Redis for the user's current socket.
Disconnect(s) ==
    /\ link[s] = "open"
    /\ link' = [link EXCEPT ![s] = "closed"]
    /\ member' = member \ {s}
    /\ entry' = entry \ {s}
    /\ informed' = informed \ {s}
    /\ cleanup' = [cleanup EXCEPT ![s] = "read"]
    /\ Publish([inbox EXCEPT ![s] = AnswerIn(@)],
               IF s \in entry THEN <<<<"left", Owner[s]>>>> ELSE <<>>, {s})
    /\ Forget({s})
    /\ UNCHANGED <<redis, join, found, counts>>

ReadCurrent(s) ==
    /\ cleanup[s] = "read"
    /\ cleanup' = [cleanup EXCEPT ![s] = IF userSocket[Owner[s]] = s THEN "clear" ELSE "delete"]
    /\ UNCHANGED <<link, redis, member, entry, join, found, inbox, informed, counts, sinceJoined>>

\* The mapping is removed if the reply named s, and the socket's own keys are.
ClearKeys(s) ==
    /\ cleanup[s] \in {"clear", "delete"}
    /\ userSocket' = IF cleanup[s] = "clear"
                       THEN [userSocket EXCEPT ![Owner[s]] = NoSocket] ELSE userSocket
    /\ keys' = keys \ {s}
    /\ metaRoom' = metaRoom \ {s}
    /\ cleanup' = [cleanup EXCEPT ![s] = "none"]
    /\ UNCHANGED <<link, member, entry, join, found, inbox, informed, counts, sinceJoined>>

\* forceCloseRoom on a worker without a socket of the room: draw.room.closed, with the
\* draw.peer.left of everybody, which says no more to the client, and socketsLeave.
\* Neither the entries of the other workers nor currentRoom are reset.
ForceClose ==
    /\ disruptions < MaxDisruptions
    /\ disruptions' = disruptions + 1
    /\ Publish(inbox, <<<<"closed", NoSocket>>, <<"evict", NoSocket>>>>, {})
    /\ UNCHANGED <<link, redis, member, entry, join, found, cleanup, informed, joins, sinceJoined>>

\* The worker of s handles the next event.
Deliver(s) ==
    LET e == Head(inbox[s]) IN
    /\ inbox[s] # <<>> /\ e[1] # "sockets"
    /\ inbox' = [inbox EXCEPT ![s] = Tail(@)]
    /\ informed' =
         IF s \notin member THEN informed
         ELSE IF e = <<"joined", Peer(s)>> THEN informed \cup {s}
         ELSE IF e = <<"left", Peer(s)>> \/ e[1] = "closed" THEN informed \ {s}
         ELSE informed
    /\ member' = IF e[1] = "evict" THEN member \ {s} ELSE member
    /\ Forget(IF e[1] = "evict" THEN {s} ELSE {})
    /\ UNCHANGED <<link, redis, entry, join, found, cleanup, counts>>

PresenceNext ==
    \/ \E s \in Sockets :
         \/ Connect(s) \/ Enter(s) \/ Fetch(s) \/ FetchedNobody(s) \/ FetchedPeer(s) \/ Announce(s)
         \/ Locate(s) \/ Compare(s) \/ Leave(s) \/ Disconnect(s)
         \/ ReadCurrent(s) \/ ClearKeys(s) \/ Deliver(s)
    \/ ForceClose

PresenceSpec == PresenceInit /\ [][PresenceNext]_presenceVars

-----------------------------------------------------------------------------
(* Properties *)

\* No handler, no event and no replaced socket is under way.
Settled ==
    \A s \in Sockets :
        /\ join[s] = "none"
        /\ cleanup[s] = "none"
        /\ inbox[s] = <<>>
        /\ link[s] = "open" => userSocket[Owner[s]] = s

\* Two users who are both in the room do not both wait for each other, nor does one of
\* them: each has been told that the other is there.  The exception are sockets that
\* were in the room together with one of the same user, as after a reconnect: this one is
\* taken for the peer, and its draw.peer.left for that of the other.
NobodyWaitsForThePresent ==
    Settled => \A s, t \in member : Owner[s] # Owner[t] =>
                  s \in informed \/ {s, t} \cap doubled # {}

\* A join that has come to its end while the peer is not there.
WaitsAlone(s) ==
    join[s] = "none" /\ s \in member /\ s \notin accompanied

\* "If the peer is not yet in the room, send them a waiting notification so the
\* frontend can alert them": draw.gateway.ts:553.  The one case in which a user waits
\* and the peer is not told is that the metadata of the peer's socket still named a
\* room it had left, by a disconnect not cleaned up yet or by a force-close; or the
\* user took another socket of its own for the peer.
PeerToldUnlessMisled == \A s \in Sockets : WaitsAlone(s) => s \in waitingSent \cup misled \cup doubled

=============================================================================
