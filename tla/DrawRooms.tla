------------------------------ MODULE DrawRooms ------------------------------
(***************************************************************************)
(* Who is in a drawing room, across the workers of the cluster: joinChat,   *)
(* joinGroup and leaveChat of DrawGateway against the operations that take  *)
(* a room away (blockUser, removeAcceptedChat, removeMember, deleteGroup,   *)
(* deleteAccount) and forceCloseRoom / forceRemoveUserFromRoom, which empty *)
(* it.                                                                     *)
(*                                                                         *)
(* Three things should agree and are updated at different times: the right *)
(* to a room, in MySQL; the membership of a socket, in the Socket.IO        *)
(* adapter; and socketToRoom, in the memory of the socket's own worker.     *)
(* socketsLeave reaches the other workers through Redis pub/sub: leaving    *)
(* and evicting hold the messages under way.                               *)
(*                                                                         *)
(* A user has one socket here, and is named by it (DrawSessions models how  *)
(* a socket replaces another).  What follows the last await of a join and   *)
(* precedes the next one is one step: client.leave and client.join are      *)
(* synchronous in the adapter.                                             *)
(***************************************************************************)
EXTENDS FiniteSets, Naturals

CONSTANTS
    Sockets,
    Workers,
    Home,       \* Home[s]: the worker s is connected to
    Chats,      \* rooms of chat requests
    Parties,    \* Parties[c]: the two users of chat c
    Groups,     \* rooms of group chats
    Creator,    \* Creator[g]: the owner of group g, who may have no socket
    Invitees,   \* Invitees[g]: the users who were invited to group g
    NoRoom,     \* no entry in socketToRoom
    Leavers,    \* bound: the users whose account may be deleted
    MaxTasks,   \* bound: REST operations under way at a time
    MaxJoins,   \* bound: joins under way at a time
    MaxLeaving  \* bound: messages under way when an operation starts

Rooms == Chats \cup Groups
Users == Sockets \cup {Creator[g] : g \in Groups}

ASSUME RoomsAssumption ==
    /\ Home \in [Sockets -> Workers]
    /\ Parties \in [Chats -> SUBSET Sockets]
    /\ Invitees \in [Groups -> SUBSET Sockets]
    /\ Chats \cap Groups = {}
    /\ NoRoom \notin Rooms
    /\ Leavers \subseteq Users
    /\ Users \cap {"nothing", "erase"} = {}
    /\ MaxTasks \in Nat
    /\ MaxJoins \in Nat
    /\ MaxLeaving \in Nat

VARIABLES
    online,       \* the sockets that are connected
    accepted,     \* MySQL: the chats whose request is ACCEPTED
    blocks,       \* MySQL: pairs <<blocker, blocked>>
    groups,       \* MySQL: the groups that exist
    members,      \* MySQL: members[g] of a group
    account,      \* MySQL: "kept", "leaving" while deleteAccount runs, or "gone"
    joins,        \* joins under way: <<socket, room, step>>
    inRoom,       \* Socket.IO: pairs <<socket, room>>
    socketToRoom, \* the local maps of the workers
    tasks,        \* operations under way that empty a room
    leaving,      \* socketsLeave(room) under way to a worker: <<worker, room>>
    evicting,     \* socketsLeave of one socket under way: <<socket, room>>
    slipped,      \* history: memberships by a join that raced with the withdrawal
    orphaned,     \* history: chats deleted by a join that met a block
    stranded      \* history: memberships of group rooms lost with an account

database == <<accepted, blocks, groups, members, account>>
vars == <<online, database, joins, inRoom, socketToRoom, tasks, leaving, evicting,
          slipped, orphaned, stranded>>

-----------------------------------------------------------------------------
Steps == {"found", "cleared"}

\* An operation that empties a room: "list" reads the accepted chats after a
\* block was saved, "snapshot" and "leave" are forceCloseRoom before and after
\* allSockets, "erase" is the deletion that follows, "evict" is
\* forceRemoveUserFromRoom.  After the room next is the deletion of nothing, of the row,
\* or of the account of a user.
Task == [at : {"list", "snapshot", "leave", "erase", "evict"}, on : Workers, room : Rooms,
         next : {"nothing", "erase"} \cup Users, seen : SUBSET Sockets]

TypeOK ==
    /\ online \subseteq Sockets
    /\ accepted \subseteq Chats
    /\ blocks \subseteq Sockets \X Sockets
    /\ groups \subseteq Groups
    /\ members \in [Groups -> SUBSET Sockets]
    /\ joins \subseteq Sockets \X Rooms \X Steps
    /\ inRoom \subseteq online \X Rooms
    /\ socketToRoom \in [Sockets -> Rooms \cup {NoRoom}]
    /\ tasks \subseteq Task
    /\ leaving \subseteq Workers \X Rooms
    /\ evicting \subseteq Sockets \X Rooms
    /\ slipped \subseteq inRoom
    /\ orphaned \subseteq Chats
    /\ account \in [Users -> {"kept", "leaving", "gone"}]
    /\ stranded \subseteq inRoom

\* UsersService.isBlocked on the parties of a chat, in either direction.
IsBlocked(c) == \E b \in blocks : {b[1], b[2]} = Parties[c]

\* The right to be in a room.
MayEnter(s, r) ==
    \/ r \in accepted /\ s \in Parties[r] /\ ~IsBlocked(r)
    \/ r \in Groups /\ s \in members[r]

Init ==
    /\ online = Sockets
    /\ accepted = Chats
    /\ blocks = {}
    /\ groups = Groups
    /\ members = Invitees
    /\ joins = {}
    /\ inRoom = {}
    /\ socketToRoom = [s \in Sockets |-> NoRoom]
    /\ tasks = {}
    /\ leaving = {}
    /\ evicting = {}
    /\ slipped = {}
    /\ orphaned = {}
    /\ account = [u \in Users |-> "kept"]
    /\ stranded = {}

-----------------------------------------------------------------------------
(* Joining and leaving *)

\* joinChat: getAcceptedRoomForUser reads the request.
FindRequest(s, c) ==
    /\ s \in online /\ Cardinality(joins) < MaxJoins
    /\ c \in accepted /\ s \in Parties[c]
    /\ joins' = joins \cup {<<s, c, "found">>}
    /\ UNCHANGED <<online, database, inRoom, socketToRoom, tasks, leaving, evicting,
                   slipped, orphaned, stranded>>

\* It then asks whether the parties have blocked each other; if they have it
\* deletes the request and the join fails.
CheckBlock(s, c) ==
    /\ <<s, c, "found">> \in joins
    /\ IF IsBlocked(c)
         THEN /\ joins' = joins \ {<<s, c, "found">>}
              /\ accepted' = accepted \ {c}
              /\ orphaned' = orphaned \cup {c}
         ELSE /\ joins' = (joins \ {<<s, c, "found">>}) \cup {<<s, c, "cleared">>}
              /\ UNCHANGED <<accepted, orphaned>>
    /\ UNCHANGED <<online, blocks, groups, members, account, inRoom, socketToRoom, tasks,
                   leaving, evicting, slipped, stranded>>

\* joinGroup: getGroupRoomForMember.
FindMember(s, g) ==
    /\ s \in online /\ Cardinality(joins) < MaxJoins
    /\ s \in members[g]
    /\ joins' = joins \cup {<<s, g, "cleared">>}
    /\ UNCHANGED <<online, database, inRoom, socketToRoom, tasks, leaving, evicting,
                   slipped, orphaned, stranded>>

\* The withdrawal of r is past its forceCloseRoom, or has been recorded.
Withdrawn(s, r) ==
    ~MayEnter(s, r) \/ \E k \in tasks : k.room = r /\ k.at = "erase"

\* Variant with a bug: a socket that has closed joins nevertheless.
EnterWhenClosed(s, r) ==
    LET prev == {<<s, socketToRoom[s]>>} \ {<<s, r>>} IN
    /\ <<s, r, "cleared">> \in joins
    /\ joins' = joins \ {<<s, r, "cleared">>}
    /\ inRoom' = (inRoom \ prev) \cup {<<s, r>>}
    /\ slipped' = IF Withdrawn(s, r) THEN (slipped \ prev) \cup {<<s, r>>} ELSE slipped \ prev
    /\ stranded' = stranded \ prev
    /\ socketToRoom' = [socketToRoom EXCEPT ![s] = r]
    /\ UNCHANGED <<online, database, tasks, leaving, evicting, orphaned>>

\* Variant with a bug: the room joined before is not left.
EnterKeepsPrevious(s, r) ==
    /\ <<s, r, "cleared">> \in joins
    /\ joins' = joins \ {<<s, r, "cleared">>}
    /\ inRoom' = inRoom \cup ({<<s, r>>} \cap (online \X Rooms))
    /\ slipped' = IF s \in online /\ Withdrawn(s, r) THEN slipped \cup {<<s, r>>} ELSE slipped
    /\ UNCHANGED stranded
    /\ socketToRoom' = [socketToRoom EXCEPT ![s] = r]
    /\ UNCHANGED <<online, database, tasks, leaving, evicting, orphaned>>

\* The handler goes on: leave the room this worker knows of, join r.  join()
\* does nothing on a socket that has closed; socketToRoom is set all the same.
Enter(s, r) ==
    LET prev == {<<s, socketToRoom[s]>>} \ {<<s, r>>} IN
    /\ <<s, r, "cleared">> \in joins
    /\ joins' = joins \ {<<s, r, "cleared">>}
    /\ inRoom' = (inRoom \ prev) \cup ({<<s, r>>} \cap (online \X Rooms))
    /\ slipped' = IF s \in online /\ Withdrawn(s, r)
                    THEN (slipped \ prev) \cup {<<s, r>>} ELSE slipped \ prev
    /\ stranded' = stranded \ prev
    /\ socketToRoom' = [socketToRoom EXCEPT ![s] = r]
    /\ UNCHANGED <<online, database, tasks, leaving, evicting, orphaned>>

\* draw.leave acts on the room the worker knows of.
LeaveChat(s) ==
    /\ s \in online
    /\ socketToRoom[s] # NoRoom
    /\ inRoom' = inRoom \ {<<s, socketToRoom[s]>>}
    /\ slipped' = slipped \ {<<s, socketToRoom[s]>>}
    /\ stranded' = stranded \ {<<s, socketToRoom[s]>>}
    /\ socketToRoom' = [socketToRoom EXCEPT ![s] = NoRoom]
    /\ UNCHANGED <<online, database, joins, tasks, leaving, evicting, orphaned>>

\* Socket.IO takes a closed socket out of its rooms; handleDisconnect drops
\* the entry of the local map.
Disconnect(s) ==
    /\ s \in online
    /\ online' = online \ {s}
    /\ inRoom' = inRoom \ ({s} \X Rooms)
    /\ slipped' = slipped \ ({s} \X Rooms)
    /\ stranded' = stranded \ ({s} \X Rooms)
    /\ socketToRoom' = [socketToRoom EXCEPT ![s] = NoRoom]
    /\ UNCHANGED <<database, joins, tasks, leaving, evicting, orphaned>>

-----------------------------------------------------------------------------
(* Operations that take a room away, each on the worker w that serves it *)

Start(at, w, r, next) ==
    [at |-> at, on |-> w, room |-> r, next |-> next, seen |-> {}]

CanStart == Cardinality(tasks) < MaxTasks /\ Cardinality(leaving \cup evicting) <= MaxLeaving

\* blockUser saves the block first; an existing one ends the call.  The
\* accepted chats of the pair are then read and closed: in any order here.
BlockUser(a, b, w) ==
    /\ CanStart
    /\ a # b
    /\ "gone" \notin {account[a], account[b]}
    /\ <<a, b>> \notin blocks
    /\ blocks' = blocks \cup {<<a, b>>}
    /\ tasks' = tasks \cup
                {Start("list", w, c, "nothing") : c \in {d \in Chats : Parties[d] = {a, b}}}
    /\ UNCHANGED <<online, accepted, groups, members, account, joins, inRoom,
                   socketToRoom, leaving, evicting, slipped, orphaned, stranded>>

\* closeRoomsBetweenUsers finds the chat if it is still accepted.
ListChats(k) ==
    /\ k.at = "list"
    /\ tasks' = (tasks \ {k}) \cup
                (IF k.room \in accepted THEN {[k EXCEPT !.at = "snapshot"]} ELSE {})
    /\ UNCHANGED <<online, database, joins, inRoom, socketToRoom, leaving, evicting,
                   slipped, orphaned, stranded>>

UnblockUser(b) ==
    /\ b \in blocks
    /\ blocks' = blocks \ {b}
    /\ UNCHANGED <<online, accepted, groups, members, account, joins, inRoom,
                   socketToRoom, tasks, leaving, evicting, slipped, orphaned, stranded>>

\* removeAcceptedChat and deleteGroup close the room, then delete the row.
RemoveRoom(r, w) ==
    /\ CanStart
    /\ r \in accepted \cup groups
    /\ tasks' = tasks \cup {Start("snapshot", w, r, "erase")}
    /\ UNCHANGED <<online, database, joins, inRoom, socketToRoom, leaving, evicting,
                   slipped, orphaned, stranded>>

\* forceCloseRoom: allSockets, and the user behind each socket.
Snapshot(k) ==
    /\ k.at = "snapshot"
    /\ tasks' = (tasks \ {k}) \cup
                {[k EXCEPT !.at = "leave", !.seen = {s \in Sockets : <<s, k.room>> \in inRoom}]}
    /\ UNCHANGED <<online, database, joins, inRoom, socketToRoom, leaving, evicting,
                   slipped, orphaned, stranded>>

\* Variant with a bug: only the worker's own sockets leave the room.
SendLeaveToSelf(k) ==
    /\ k.at = "leave"
    /\ leaving' = leaving \cup {<<k.on, k.room>>}
    /\ socketToRoom' = [s \in Sockets |->
         IF s \in k.seen /\ Home[s] = k.on /\ socketToRoom[s] = k.room
           THEN NoRoom ELSE socketToRoom[s]]
    /\ tasks' = (tasks \ {k}) \cup
                (IF k.next # "nothing" THEN {[k EXCEPT !.at = "erase", !.seen = {}]} ELSE {})
    /\ UNCHANGED <<online, database, joins, inRoom, evicting, slipped, orphaned, stranded>>

\* forceCloseRoom: socketsLeave is published to every worker, and the entries
\* of this worker's map for the sockets seen are dropped.
SendLeave(k) ==
    /\ k.at = "leave"
    /\ leaving' = leaving \cup (Workers \X {k.room})
    /\ socketToRoom' = [s \in Sockets |->
         IF s \in k.seen /\ Home[s] = k.on /\ socketToRoom[s] = k.room
           THEN NoRoom ELSE socketToRoom[s]]
    /\ tasks' = (tasks \ {k}) \cup
                (IF k.next # "nothing" THEN {[k EXCEPT !.at = "erase", !.seen = {}]} ELSE {})
    /\ UNCHANGED <<online, database, joins, inRoom, evicting, slipped, orphaned, stranded>>

\* The request, or the group with its members, is deleted.
Erase(k) ==
    /\ k.at = "erase"
    /\ k.next = "erase"
    /\ accepted' = accepted \ {k.room}
    /\ groups' = groups \ {k.room}
    /\ members' = [g \in Groups |-> IF g = k.room THEN {} ELSE members[g]]
    /\ tasks' = tasks \ {k}
    /\ UNCHANGED <<online, blocks, account, joins, inRoom, socketToRoom, leaving, evicting,
                   slipped, orphaned, stranded>>

\* deleteAccount closes the rooms of the user's accepted chats, in any order here.
DeleteAccount(u, w) ==
    LET chats == {c \in accepted : u \in Parties[c]} IN
    /\ CanStart
    /\ account[u] = "kept"
    /\ account' = [account EXCEPT ![u] = "leaving"]
    /\ tasks' = tasks \cup {Start("snapshot", w, c, u) : c \in chats}
    /\ UNCHANGED <<online, accepted, blocks, groups, members, joins, inRoom, socketToRoom,
                   leaving, evicting, slipped, orphaned, stranded>>

\* Then the row goes, and with it the requests, the blocks, the memberships and the
\* groups of the user.  No room of a group is closed.
RemoveUser(u) ==
    /\ account[u] = "leaving"
    /\ \A k \in tasks : k.next = u => k.at = "erase"
    /\ account' = [account EXCEPT ![u] = "gone"]
    /\ accepted' = {c \in accepted : u \notin Parties[c]}
    /\ blocks' = {b \in blocks : u \notin {b[1], b[2]}}
    /\ groups' = {g \in groups : Creator[g] # u}
    /\ members' = [g \in Groups |-> IF Creator[g] = u THEN {} ELSE members[g] \ {u}]
    /\ tasks' = {k \in tasks : k.next # u}
    /\ stranded' = stranded \cup
           {m \in inRoom : m[2] \in Groups /\ m[1] \in members[m[2]] \ members'[m[2]]}
    /\ UNCHANGED <<online, joins, inRoom, socketToRoom, leaving, evicting, slipped,
                   orphaned>>

\* removeMember deletes the membership, then forces the socket out.  The
\* task's seen names the member.
RemoveMember(s, g, w) ==
    /\ CanStart
    /\ s \in members[g] \ {Creator[g]}
    /\ members' = [members EXCEPT ![g] = @ \ {s}]
    /\ tasks' = tasks \cup {[Start("evict", w, g, "nothing") EXCEPT !.seen = {s}]}
    /\ UNCHANGED <<online, accepted, blocks, groups, account, joins, inRoom, socketToRoom,
                   leaving, evicting, slipped, orphaned, stranded>>

\* forceRemoveUserFromRoom: nothing for a user without a socket.
Evict(k) ==
    /\ k.at = "evict"
    /\ evicting' = evicting \cup ((k.seen \cap online) \X {k.room})
    /\ socketToRoom' = [s \in Sockets |->
         IF s \in k.seen /\ Home[s] = k.on /\ socketToRoom[s] = k.room
           THEN NoRoom ELSE socketToRoom[s]]
    /\ tasks' = tasks \ {k}
    /\ UNCHANGED <<online, database, joins, inRoom, leaving, slipped, orphaned, stranded>>

\* A removed member is invited again and accepts.
AddMember(s, g) ==
    /\ g \in groups
    /\ s \in Invitees[g] \ members[g]
    /\ account[s] # "gone"
    /\ members' = [members EXCEPT ![g] = @ \cup {s}]
    /\ UNCHANGED <<online, accepted, blocks, groups, account, joins, inRoom, socketToRoom,
                   tasks, leaving, evicting, slipped, orphaned, stranded>>

\* A worker receives a socketsLeave: its sockets in the room leave it.
DeliverLeave(w, r) ==
    LET gone == {m \in inRoom : Home[m[1]] = w /\ m[2] = r} IN
    /\ <<w, r>> \in leaving
    /\ leaving' = leaving \ {<<w, r>>}
    /\ inRoom' = inRoom \ gone
    /\ slipped' = slipped \ gone
    /\ stranded' = stranded \ gone
    /\ UNCHANGED <<online, database, joins, socketToRoom, tasks, evicting, orphaned>>

DeliverEvict(s, r) ==
    /\ <<s, r>> \in evicting
    /\ evicting' = evicting \ {<<s, r>>}
    /\ inRoom' = inRoom \ {<<s, r>>}
    /\ slipped' = slipped \ {<<s, r>>}
    /\ stranded' = stranded \ {<<s, r>>}
    /\ UNCHANGED <<online, database, joins, socketToRoom, tasks, leaving, orphaned>>

-----------------------------------------------------------------------------
Join(s) ==
    \/ \E c \in Chats : FindRequest(s, c) \/ CheckBlock(s, c)
    \/ \E g \in Groups : FindMember(s, g)
    \/ \E r \in Rooms : Enter(s, r)

Withdraw ==
    \E w \in Workers :
      \/ \E r \in Rooms : RemoveRoom(r, w)
      \/ \E a, b \in Sockets : BlockUser(a, b, w)
      \/ \E u \in Leavers : DeleteAccount(u, w)
      \/ \E s \in Sockets, g \in Groups : RemoveMember(s, g, w)

Restore ==
    \/ \E b \in blocks : UnblockUser(b)
    \/ \E s \in Sockets, g \in Groups : AddMember(s, g)

\* An operation that has started goes on.
Continue ==
    \/ \E k \in tasks : ListChats(k) \/ Snapshot(k) \/ SendLeave(k) \/ Erase(k) \/ Evict(k)
    \/ \E u \in Leavers : RemoveUser(u)

Deliver ==
    \/ \E w \in Workers, r \in Rooms : DeliverLeave(w, r)
    \/ \E s \in Sockets, r \in Rooms : DeliverEvict(s, r)

Next ==
    \/ \E s \in Sockets : Join(s) \/ LeaveChat(s) \/ Disconnect(s)
    \/ Withdraw \/ Restore \/ Continue \/ Deliver

Spec == Init /\ [][Next]_vars

-----------------------------------------------------------------------------
(* Properties *)

\* A socketsLeave is under way that will take s out of r.
ToldToLeave(s, r) == <<Home[s], r>> \in leaving \/ <<s, r>> \in evicting

\* No socket is in a room its own worker does not know of, except one that
\* has been told to leave it.  joinChat and leaveChat leave the known room
\* only, so a socket would otherwise go on receiving a room for ever.  (The
\* converse of draw.gateway.ts:82 fails: another worker's forceCloseRoom
\* leaves the entry of a room that the socket has left.)
MembershipKnown ==
    \A m \in inRoom : socketToRoom[m[1]] = m[2] \/ ToldToLeave(m[1], m[2])

\* The operation that will take s out of r has not sent its message yet.
EvictionDue(s, r) ==
    \E k \in tasks : /\ k.room = r
                     /\ k.at \in {"list", "snapshot", "leave"} \/ (k.at = "evict" /\ s \in k.seen)

\* Whoever lost the right to a room is taken out of it, except in two races:
\* a join that was cleared before the withdrawal and entered after it, and a
\* join that met the block and deleted the request before blockUser listed
\* the rooms to close; and except for the group rooms that an account leaves
\* behind, its own memberships and those of its groups: deleteAccount closes
\* "all active drawing rooms for this user" (users.service.ts:140), which are
\* those of chats.
WithdrawalEmptiesRoom ==
    \A m \in inRoom :
        \/ MayEnter(m[1], m[2])
        \/ EvictionDue(m[1], m[2])
        \/ ToldToLeave(m[1], m[2])
        \/ m \in slipped
        \/ m[2] \in orphaned
        \/ m \in stranded

=============================================================================
