-------------------------- MODULE DrawRooms_proofs --------------------------
(***************************************************************************)
(* Proofs about DrawRooms, for any sockets, workers, chats and groups, and *)
(* any number of operations and joins under way at a time; and about       *)
(* PushTokens, for any users, tokens, rows and calls.                      *)
(***************************************************************************)
EXTENDS DrawRooms, PushTokens, TLAPS

LEMMA InitType == Init => TypeOK
  BY RoomsAssumption DEF Init, TypeOK, Rooms

\* What a new operation looks like.
LEMMA StartIsTask ==
    ASSUME NEW at \in {"list", "snapshot", "leave", "erase", "evict"}, NEW w \in Workers,
           NEW r \in Rooms, NEW e \in {"nothing", "erase"} \cup Users
    PROVE  Start(at, w, r, e) \in Task
  BY DEF Start, Task

LEMMA LeaversAreUsers == Leavers \subseteq Users
  BY RoomsAssumption

LEMMA TypeStep == TypeOK /\ [Next]_vars => TypeOK'
<1> SUFFICES ASSUME TypeOK, [Next]_vars PROVE TypeOK'
    OBVIOUS
<1> USE RoomsAssumption
<1>1. ASSUME NEW s \in Sockets, NEW c \in Chats, FindRequest(s, c) PROVE TypeOK'
  BY <1>1 DEF FindRequest, TypeOK, database, Rooms, Steps
<1>2. ASSUME NEW s \in Sockets, NEW c \in Chats, CheckBlock(s, c) PROVE TypeOK'
  BY <1>2 DEF CheckBlock, TypeOK, Rooms, Steps
<1>3. ASSUME NEW s \in Sockets, NEW g \in Groups, FindMember(s, g) PROVE TypeOK'
  BY <1>3 DEF FindMember, TypeOK, database, Rooms, Steps
<1>4. ASSUME NEW s \in Sockets, NEW r \in Rooms, Enter(s, r) PROVE TypeOK'
  BY <1>4 DEF Enter, TypeOK, database
<1>5. ASSUME NEW s \in Sockets, LeaveChat(s) PROVE TypeOK'
  BY <1>5 DEF LeaveChat, TypeOK, database
<1>6. ASSUME NEW s \in Sockets, Disconnect(s) PROVE TypeOK'
  BY <1>6 DEF Disconnect, TypeOK, database
<1>7. ASSUME NEW a \in Sockets, NEW b \in Sockets, NEW w \in Workers, BlockUser(a, b, w)
      PROVE  TypeOK'
  <2>1. \A c \in Chats : Start("list", w, c, "nothing") \in Task
    BY StartIsTask DEF Rooms
  <2> DEFINE closing == {Start("list", w, c, "nothing") : c \in {d \in Chats : Parties[d] = {a, b}}}
  <2>2. ASSUME NEW k \in closing PROVE k \in Task
    <3>1. PICK c \in Chats : k = Start("list", w, c, "nothing")
      OBVIOUS
    <3> QED
      BY <2>1, <3>1
  <2>3. tasks' = tasks \cup closing
    BY <1>7 DEF BlockUser
  <2> HIDE DEF closing
  <2>4. tasks' \subseteq Task
    BY <2>2, <2>3 DEF TypeOK
  <2>5. blocks' \subseteq Sockets \X Sockets
    BY <1>7 DEF BlockUser, TypeOK
  <2> QED
    BY <1>7, <2>4, <2>5 DEF BlockUser, TypeOK
<1>8. ASSUME NEW k \in tasks, ListChats(k) PROVE TypeOK'
  <2>1. [k EXCEPT !.at = "snapshot"] \in Task
    BY DEF TypeOK, Task
  <2> QED
    BY <1>8, <2>1 DEF ListChats, TypeOK, database
<1>9. ASSUME NEW b \in blocks, UnblockUser(b) PROVE TypeOK'
  BY <1>9 DEF UnblockUser, TypeOK
<1>10. ASSUME NEW r \in Rooms, NEW w \in Workers, RemoveRoom(r, w) PROVE TypeOK'
  <2>1. Start("snapshot", w, r, "erase") \in Task
    BY StartIsTask
  <2> QED
    BY <1>10, <2>1 DEF RemoveRoom, TypeOK, database
<1>11. ASSUME NEW k \in tasks, Snapshot(k) PROVE TypeOK'
  <2>1. [k EXCEPT !.at = "leave", !.seen = {s \in Sockets : <<s, k.room>> \in inRoom}] \in Task
    BY DEF TypeOK, Task
  <2> QED
    BY <1>11, <2>1 DEF Snapshot, TypeOK, database
<1>12. ASSUME NEW k \in tasks, SendLeave(k) PROVE TypeOK'
  <2>1. [k EXCEPT !.at = "erase", !.seen = {}] \in Task
    BY DEF TypeOK, Task
  <2>2. k.room \in Rooms
    BY DEF TypeOK, Task
  <2> QED
    BY <1>12, <2>1, <2>2 DEF SendLeave, TypeOK, database
<1>13. ASSUME NEW k \in tasks, Erase(k) PROVE TypeOK'
  BY <1>13 DEF Erase, TypeOK
<1>14. ASSUME NEW s \in Sockets, NEW g \in Groups, NEW w \in Workers, RemoveMember(s, g, w)
       PROVE  TypeOK'
  <2>1. [Start("evict", w, g, "nothing") EXCEPT !.seen = {s}] \in Task
    BY DEF Start, Task, Rooms
  <2> QED
    BY <1>14, <2>1 DEF RemoveMember, TypeOK
<1>15. ASSUME NEW k \in tasks, Evict(k) PROVE TypeOK'
  <2>1. k.room \in Rooms /\ k.seen \subseteq Sockets
    BY DEF TypeOK, Task
  <2> QED
    BY <1>15, <2>1 DEF Evict, TypeOK, database
<1>16. ASSUME NEW s \in Sockets, NEW g \in Groups, AddMember(s, g) PROVE TypeOK'
  BY <1>16 DEF AddMember, TypeOK
<1>17. ASSUME NEW w \in Workers, NEW r \in Rooms, DeliverLeave(w, r) PROVE TypeOK'
  BY <1>17 DEF DeliverLeave, TypeOK, database
<1>18. ASSUME NEW s \in Sockets, NEW r \in Rooms, DeliverEvict(s, r) PROVE TypeOK'
  BY <1>18 DEF DeliverEvict, TypeOK, database
<1>19. ASSUME NEW u \in Users, NEW w \in Workers, DeleteAccount(u, w) PROVE TypeOK'
  <2> DEFINE closing == {Start("snapshot", w, c, u) : c \in {d \in accepted : u \in Parties[d]}}
  <2>1. ASSUME NEW k \in closing PROVE k \in Task
    <3>1. PICK c \in accepted : k = Start("snapshot", w, c, u)
      OBVIOUS
    <3>2. c \in Rooms
      BY DEF TypeOK, Rooms
    <3> QED
      BY <3>1, <3>2, StartIsTask
  <2>2. tasks' = tasks \cup closing
    BY <1>19 DEF DeleteAccount
  <2> HIDE DEF closing
  <2>3. tasks' \subseteq Task
    BY <2>1, <2>2 DEF TypeOK
  <2>4. account' \in [Users -> {"kept", "leaving", "gone"}]
    BY <1>19 DEF DeleteAccount, TypeOK
  <2> QED
    BY <1>19, <2>3, <2>4 DEF DeleteAccount, TypeOK
<1>20. ASSUME NEW u \in Users, RemoveUser(u) PROVE TypeOK'
  <2>1. members' \in [Groups -> SUBSET Sockets]
    BY <1>20 DEF RemoveUser, TypeOK
  <2>2. account' \in [Users -> {"kept", "leaving", "gone"}]
    BY <1>20 DEF RemoveUser, TypeOK
  <2>3. stranded' \subseteq inRoom'
    BY <1>20 DEF RemoveUser, TypeOK
  <2> QED
    BY <1>20, <2>1, <2>2, <2>3 DEF RemoveUser, TypeOK
<1>21. CASE UNCHANGED vars
  BY <1>21 DEF TypeOK, vars, database
<1> QED
  BY <1>1, <1>2, <1>3, <1>4, <1>5, <1>6, <1>7, <1>8, <1>9, <1>10, <1>11, <1>12, <1>13,
     <1>14, <1>15, <1>16, <1>17, <1>18, <1>19, <1>20, <1>21, LeaversAreUsers
     DEF Next, Join, Withdraw, Restore, Continue, Deliver

\* The rooms, the operations and the messages of the cluster keep their types.
THEOREM TypeCorrect == Spec => []TypeOK
  BY InitType, TypeStep, PTL DEF Spec

-----------------------------------------------------------------------------
LEMMA InitKnown == Init => MembershipKnown
  BY DEF Init, MembershipKnown

LEMMA KnownStep == TypeOK /\ MembershipKnown /\ [Next]_vars => MembershipKnown'
<1> SUFFICES ASSUME TypeOK, MembershipKnown, [Next]_vars,
                    NEW m \in inRoom'
             PROVE  (socketToRoom[m[1]] = m[2] \/ ToldToLeave(m[1], m[2]))'
    BY DEF MembershipKnown
<1> DEFINE Known == socketToRoom[m[1]] = m[2] \/ ToldToLeave(m[1], m[2])
<1> USE RoomsAssumption DEF ToldToLeave
<1>1. CASE UNCHANGED <<inRoom, socketToRoom, leaving, evicting>>
  BY <1>1 DEF MembershipKnown
<1>2. ASSUME NEW s \in Sockets, NEW r \in Rooms, Enter(s, r) PROVE Known'
  <2>1. CASE m = <<s, r>>
    BY <1>2, <2>1 DEF Enter, TypeOK
  <2>2. CASE m # <<s, r>>
    <3>1. m \in inRoom /\ m \in Sockets \X Rooms /\ m # <<s, socketToRoom[s]>>
      BY <1>2, <2>2 DEF Enter, TypeOK
    <3>2. Known
      BY <3>1 DEF MembershipKnown
    <3>3. CASE m[1] = s
      <4>1. m = <<s, m[2]>>
        BY <3>1, <3>3
      <4> QED
        BY <1>2, <3>1, <3>2, <3>3, <4>1 DEF Enter
    <3>4. CASE m[1] # s
      BY <1>2, <3>1, <3>2, <3>4 DEF Enter, TypeOK
    <3> QED
      BY <3>3, <3>4
  <2> QED
    BY <2>1, <2>2
<1>3. ASSUME NEW s \in Sockets, LeaveChat(s) PROVE Known'
  <2>1. m \in inRoom /\ m \in Sockets \X Rooms /\ m # <<s, socketToRoom[s]>>
    BY <1>3 DEF LeaveChat, TypeOK
  <2>2. m = <<m[1], m[2]>> /\ Known
    BY <2>1 DEF MembershipKnown
  <2> QED
    BY <1>3, <2>1, <2>2 DEF LeaveChat, TypeOK
<1>4. ASSUME NEW s \in Sockets, Disconnect(s) PROVE Known'
  <2>1. m \in inRoom /\ m \in Sockets \X Rooms /\ m[1] # s
    BY <1>4 DEF Disconnect, TypeOK
  <2> QED
    BY <1>4, <2>1 DEF Disconnect, TypeOK, MembershipKnown
<1>5. ASSUME NEW k \in tasks, SendLeave(k) PROVE Known'
  <2>1. m \in inRoom /\ m \in Sockets \X Rooms
    BY <1>5 DEF SendLeave, TypeOK
  <2> QED
    BY <1>5, <2>1 DEF SendLeave, TypeOK, MembershipKnown
<1>6. ASSUME NEW k \in tasks, Evict(k) PROVE Known'
  <2>1. m \in inRoom /\ m \in Sockets \X Rooms /\ m[1] \in online
    BY <1>6 DEF Evict, TypeOK
  <2>2. socketToRoom'[m[1]] = socketToRoom[m[1]]
        \/ (m[1] \in k.seen /\ socketToRoom[m[1]] = k.room)
    BY <1>6, <2>1 DEF Evict
  <2>3. CASE m[1] \in k.seen /\ socketToRoom[m[1]] = k.room /\ m[2] = k.room
    BY <1>6, <2>1, <2>3 DEF Evict
  <2> QED
    BY <1>6, <2>1, <2>2, <2>3 DEF Evict, MembershipKnown
<1>7. ASSUME NEW w \in Workers, NEW r \in Rooms, DeliverLeave(w, r) PROVE Known'
  <2>1. m \in inRoom /\ ~(Home[m[1]] = w /\ m[2] = r)
    BY <1>7 DEF DeliverLeave
  <2> QED
    BY <1>7, <2>1 DEF DeliverLeave, MembershipKnown
<1>8. ASSUME NEW s \in Sockets, NEW r \in Rooms, DeliverEvict(s, r) PROVE Known'
  <2>1. m \in inRoom /\ m \in Sockets \X Rooms /\ m # <<s, r>>
    BY <1>8 DEF DeliverEvict, TypeOK
  <2>2. m = <<m[1], m[2]>>
    BY <2>1
  <2> QED
    BY <1>8, <2>1, <2>2 DEF DeliverEvict, MembershipKnown
<1> QED
  BY <1>1, <1>2, <1>3, <1>4, <1>5, <1>6, <1>7, <1>8
     DEF Next, Join, Withdraw, Restore, Continue, Deliver, vars,
         FindRequest, CheckBlock, FindMember, BlockUser, RemoveRoom, RemoveMember,
         DeleteAccount, RemoveUser,
         UnblockUser, AddMember, ListChats, Snapshot, Erase

\* A socket's own worker knows of every room the socket is in, unless the
\* socket has been told to leave it.
THEOREM KnownMembership == Spec => []MembershipKnown
<1>1. TypeOK /\ MembershipKnown /\ [Next]_vars => (TypeOK /\ MembershipKnown)'
  BY TypeStep, KnownStep
<1> QED
  BY InitType, InitKnown, <1>1, PTL DEF Spec

-----------------------------------------------------------------------------
(* WithdrawalEmptiesRoom is not inductive: an operation that deletes a row *)
(* must find its room told to leave, and one that no longer finds a chat   *)
(* relies on whoever deleted it.                                           *)

\* What is left for a member whom no operation is about to put out.
Excused(m) ==
    ToldToLeave(m[1], m[2]) \/ m \in slipped \/ m[2] \in orphaned \/ m \in stranded

\* The room that is about to be erased was told to leave.
ErasedTold ==
    \A k \in tasks, m \in inRoom : (k.at = "erase" /\ m[2] = k.room) => Excused(m)

\* So was the room of a chat whose request is gone.
UnacceptedTold ==
    \A m \in inRoom : m[2] \in Chats \ accepted => Excused(m)

\* blockUser lists chats.
ListsChats == \A k \in tasks : k.at = "list" => k.room \in Chats

\* deleteAccount closes every chat that its user has.
LeaversClose ==
    \A u \in Users, c \in accepted : account[u] = "leaving" /\ u \in Parties[c] =>
        \E k \in tasks : k.room = c /\ k.next = u /\ k.at # "evict"

RoomsInv ==
    TypeOK /\ ListsChats /\ ErasedTold /\ UnacceptedTold /\ LeaversClose /\ WithdrawalEmptiesRoom

LEMMA InitRooms == Init => RoomsInv
  BY InitType DEF Init, RoomsInv, ListsChats, ErasedTold, UnacceptedTold, LeaversClose,
                  WithdrawalEmptiesRoom

\* A step keeps the excuse of whoever stays in the room.
LEMMA ExcuseStays ==
    ASSUME TypeOK, [Next]_vars, NEW m \in inRoom, m \in inRoom', Excused(m),
           ~\E s \in Sockets, r \in Rooms : Enter(s, r) /\ m = <<s, r>>
    PROVE  Excused(m)'
<1> m \in Sockets \X Rooms /\ m = <<m[1], m[2]>>
  BY DEF TypeOK
<1> USE RoomsAssumption DEF Excused, ToldToLeave
<1>1. CASE orphaned \subseteq orphaned' /\ slipped \subseteq slipped'
           /\ stranded \subseteq stranded'
           /\ leaving \subseteq leaving' /\ evicting \subseteq evicting'
  BY <1>1
<1>2. ASSUME NEW s \in Sockets, NEW r \in Rooms, Enter(s, r) PROVE Excused(m)'
  BY <1>2 DEF Enter
<1>3. ASSUME NEW s \in Sockets, LeaveChat(s) PROVE Excused(m)'
  BY <1>3 DEF LeaveChat
<1>4. ASSUME NEW s \in Sockets, Disconnect(s) PROVE Excused(m)'
  BY <1>4 DEF Disconnect
<1>5. ASSUME NEW w \in Workers, NEW r \in Rooms, DeliverLeave(w, r) PROVE Excused(m)'
  BY <1>5 DEF DeliverLeave
<1>6. ASSUME NEW s \in Sockets, NEW r \in Rooms, DeliverEvict(s, r) PROVE Excused(m)'
  BY <1>6 DEF DeliverEvict
<1> QED
  BY <1>1, <1>2, <1>3, <1>4, <1>5, <1>6
     DEF Next, Join, Withdraw, Restore, Continue, Deliver, vars,
         FindRequest, CheckBlock, FindMember, BlockUser, RemoveRoom, RemoveMember,
         DeleteAccount, RemoveUser,
         UnblockUser, AddMember, ListChats, Snapshot, SendLeave, Erase, Evict

\* Only a join brings a socket into a room.
LEMMA OnlyEnterAdds ==
    ASSUME TypeOK, [Next]_vars, NEW m \in inRoom'
    PROVE  m \in inRoom \/ \E s \in Sockets, r \in Rooms : Enter(s, r) /\ m = <<s, r>>
  BY DEF Next, Join, Withdraw, Restore, Continue, Deliver, vars,
         FindRequest, CheckBlock, FindMember, BlockUser, RemoveRoom, RemoveMember,
         DeleteAccount, RemoveUser,
         UnblockUser, AddMember, ListChats, Snapshot, SendLeave, Erase, Evict,
         Enter, LeaveChat, Disconnect, DeliverLeave, DeliverEvict

\* Whoever enters does so with the right to, or is noted.
LEMMA EnterIsExcused ==
    ASSUME TypeOK, NEW s \in Sockets, NEW r \in Rooms, Enter(s, r), <<s, r>> \in inRoom'
    PROVE  /\ MayEnter(s, r)' \/ Excused(<<s, r>>)'
           /\ r \in Chats \ accepted' => Excused(<<s, r>>)'
           /\ \A k \in tasks' : (k.room = r /\ k.at = "erase") => Excused(<<s, r>>)'
<1>1. s \in online
  BY DEF Enter, TypeOK
<1>2. Withdrawn(s, r) => <<s, r>> \in slipped'
  BY <1>1 DEF Enter
<1>3. MayEnter(s, r)' = MayEnter(s, r) /\ tasks' = tasks /\ accepted' = accepted
  BY DEF Enter, MayEnter, IsBlocked, database
<1>4. r \in Chats \ accepted => ~MayEnter(s, r)
  BY RoomsAssumption DEF MayEnter
<1> QED
  BY <1>2, <1>3, <1>4 DEF Withdrawn, Excused

LEMMA ListsStep == TypeOK /\ ListsChats /\ [Next]_vars => ListsChats'
<1> SUFFICES ASSUME TypeOK, ListsChats, [Next]_vars, NEW k \in tasks', k.at = "list"
             PROVE  k.room \in Chats
    BY DEF ListsChats
<1>1. CASE k \in tasks
  BY <1>1 DEF ListsChats
<1>2. CASE k \notin tasks
  <2>1. ASSUME NEW a \in Sockets, NEW b \in Sockets, NEW w \in Workers, BlockUser(a, b, w)
        PROVE  k.room \in Chats
    <3>1. PICK c \in Chats : k = Start("list", w, c, "nothing")
      BY <1>2, <2>1 DEF BlockUser
    <3> QED
      BY <3>1 DEF Start
  <2>2. ASSUME NEW r \in Rooms, NEW w \in Workers, RemoveRoom(r, w) PROVE FALSE
    BY <1>2, <2>2 DEF RemoveRoom, Start
  <2>3. ASSUME NEW s \in Sockets, NEW g \in Groups, NEW w \in Workers, RemoveMember(s, g, w)
        PROVE  FALSE
    BY <1>2, <2>3 DEF RemoveMember, Start
  <2>4. ASSUME NEW j \in tasks, ListChats(j) \/ Snapshot(j) \/ SendLeave(j) \/ Erase(j) \/ Evict(j)
        PROVE  FALSE
    <3>1. j \in Task
      BY DEF TypeOK
    <3>2. CASE ListChats(j)
      BY <1>2, <3>1, <3>2 DEF ListChats, Task
    <3>3. CASE Snapshot(j)
      BY <1>2, <3>1, <3>3 DEF Snapshot, Task
    <3>4. CASE SendLeave(j)
      BY <1>2, <3>1, <3>4 DEF SendLeave, Task
    <3> QED
      BY <1>2, <2>4, <3>2, <3>3, <3>4 DEF Erase, Evict
  <2>5. ASSUME NEW u \in Leavers, NEW w \in Workers, DeleteAccount(u, w) PROVE FALSE
    <3>1. PICK c \in accepted : k = Start("snapshot", w, c, u)
      BY <1>2, <2>5 DEF DeleteAccount
    <3> QED
      BY <3>1 DEF Start
  <2> QED
    BY <1>2, <2>1, <2>2, <2>3, <2>4, <2>5
       DEF RemoveUser, Next, Join, Withdraw, Restore, Continue, Deliver, vars,
           FindRequest, CheckBlock, FindMember, Enter, LeaveChat, Disconnect,
           UnblockUser, AddMember, DeliverLeave, DeliverEvict
<1> QED
  BY <1>1, <1>2

LEMMA ErasedStep == TypeOK /\ ErasedTold /\ [Next]_vars => ErasedTold'
<1> SUFFICES ASSUME TypeOK, ErasedTold, [Next]_vars,
                    NEW k \in tasks', NEW m \in inRoom', k.at = "erase", m[2] = k.room
             PROVE  Excused(m)'
    BY DEF ErasedTold
<1>1. CASE \E s \in Sockets, r \in Rooms : Enter(s, r) /\ m = <<s, r>>
  BY <1>1, EnterIsExcused
<1>2. CASE ~\E s \in Sockets, r \in Rooms : Enter(s, r) /\ m = <<s, r>>
  <2>1. m \in inRoom /\ m \in Sockets \X Rooms
    BY <1>2, OnlyEnterAdds DEF TypeOK
  <2>2. CASE k \in tasks
    BY <1>2, <2>1, <2>2, ExcuseStays DEF ErasedTold
  <2>3. CASE k \notin tasks
    <3>1. ASSUME NEW j \in tasks, SendLeave(j) PROVE Excused(m)'
      <4>1. j.room = k.room
        BY <2>3, <3>1 DEF SendLeave, TypeOK, Task
      <4>2. <<Home[m[1]], m[2]>> \in leaving'
        BY <2>1, <3>1, <4>1, RoomsAssumption DEF SendLeave
      <4> QED
        BY <4>2 DEF Excused, ToldToLeave
    <3>2. ASSUME NEW j \in tasks, ListChats(j) \/ Snapshot(j) \/ Erase(j) \/ Evict(j)
          PROVE  FALSE
      <4>1. j \in Task
        BY DEF TypeOK
      <4> QED
        BY <2>3, <3>2, <4>1 DEF ListChats, Snapshot, Erase, Evict, Task
    <3>3. ASSUME NEW a \in Sockets, NEW b \in Sockets, NEW w \in Workers, BlockUser(a, b, w)
          PROVE  FALSE
      <4>1. PICK c \in Chats : k = Start("list", w, c, "nothing")
        BY <2>3, <3>3 DEF BlockUser
      <4> QED
        BY <4>1 DEF Start
    <3>4. ASSUME NEW r \in Rooms, NEW w \in Workers, RemoveRoom(r, w) PROVE FALSE
      BY <2>3, <3>4 DEF RemoveRoom, Start
    <3>5. ASSUME NEW s \in Sockets, NEW g \in Groups, NEW w \in Workers, RemoveMember(s, g, w)
          PROVE  FALSE
      BY <2>3, <3>5 DEF RemoveMember, Start
    <3>6. ASSUME NEW u \in Leavers, NEW w \in Workers, DeleteAccount(u, w) PROVE FALSE
      <4>1. PICK c \in accepted : k = Start("snapshot", w, c, u)
        BY <2>3, <3>6 DEF DeleteAccount
      <4> QED
        BY <4>1 DEF Start
    <3> QED
      BY <2>3, <3>1, <3>2, <3>3, <3>4, <3>5, <3>6
         DEF RemoveUser, Next, Join, Withdraw, Restore, Continue, Deliver, vars,
             FindRequest, CheckBlock, FindMember, Enter, LeaveChat, Disconnect,
             UnblockUser, AddMember, DeliverLeave, DeliverEvict
  <2> QED
    BY <2>2, <2>3
<1> QED
  BY <1>1, <1>2

\* A chat that goes with an account has been closed.
LEMMA RemovedIsClosed ==
    ASSUME TypeOK, LeaversClose, NEW u \in Leavers, RemoveUser(u),
           NEW c \in accepted, c \notin accepted'
    PROVE  \E k \in tasks : k.room = c /\ k.at = "erase"
<1>1. u \in Parties[c] /\ account[u] = "leaving"
  BY DEF RemoveUser
<1>2. PICK k \in tasks : k.room = c /\ k.next = u
  BY <1>1, LeaversAreUsers DEF LeaversClose
<1> QED
  BY <1>2 DEF RemoveUser

LEMMA CloseStep == TypeOK /\ LeaversClose /\ [Next]_vars => LeaversClose'
<1> SUFFICES ASSUME TypeOK, LeaversClose, [Next]_vars,
                    NEW u \in Users, NEW c \in accepted', account'[u] = "leaving", u \in Parties[c]
             PROVE  \E k \in tasks' : k.room = c /\ k.next = u /\ k.at # "evict"
    BY DEF LeaversClose
<1>1. c \in accepted
  BY DEF Next, Join, Withdraw, Restore, Continue, Deliver, vars, database,
         FindRequest, CheckBlock, FindMember, Enter, LeaveChat, Disconnect, BlockUser,
         RemoveRoom, RemoveMember, DeleteAccount, RemoveUser, UnblockUser, AddMember,
         ListChats, Snapshot, SendLeave, Erase, Evict, DeliverLeave, DeliverEvict
<1>2. ASSUME NEW v \in Users, NEW w \in Workers, DeleteAccount(v, w), u = v
      PROVE  \E k \in tasks' : k.room = c /\ k.next = u /\ k.at # "evict"
  <2>1. Start("snapshot", w, c, u) \in tasks'
    BY <1>1, <1>2 DEF DeleteAccount
  <2> QED
    BY <2>1 DEF Start
<1>3. ASSUME account[u] = "leaving" PROVE \E k \in tasks' : k.room = c /\ k.next = u /\ k.at # "evict"
  <2>1. PICK k \in tasks : k.room = c /\ k.next = u /\ k.at # "evict"
    BY <1>1, <1>3 DEF LeaversClose
  <2>2. k \in Task /\ k.next \notin {"nothing", "erase"}
    BY <2>1, RoomsAssumption DEF TypeOK
  <2>3. CASE k \in tasks'
    BY <2>1, <2>3
  <2>4. CASE ListChats(k)
    <3>1. c \in accepted
      BY <1>1
    <3> DEFINE j == [k EXCEPT !.at = "snapshot"]
    <3>2. j \in tasks'
      BY <2>1, <2>4, <3>1 DEF ListChats
    <3>3. j.room = c /\ j.next = u /\ j.at # "evict"
      BY <2>1, <2>2 DEF Task
    <3> QED
      BY <3>2, <3>3
  <2>5. CASE Snapshot(k)
    <3> DEFINE seen == {t \in Sockets : <<t, k.room>> \in inRoom}
               j == [k EXCEPT !.at = "leave", !.seen = seen]
    <3>1. j \in tasks'
      BY <2>5 DEF Snapshot
    <3> HIDE DEF seen
    <3>2. j.room = c /\ j.next = u /\ j.at # "evict"
      BY <2>1, <2>2 DEF Task
    <3> QED
      BY <3>1, <3>2
  <2>6. CASE SendLeave(k)
    <3> DEFINE j == [k EXCEPT !.at = "erase", !.seen = {}]
    <3>1. j \in tasks'
      BY <2>2, <2>6 DEF SendLeave
    <3>2. j.room = c /\ j.next = u /\ j.at # "evict"
      BY <2>1, <2>2 DEF Task
    <3> QED
      BY <3>1, <3>2
  <2>7. CASE k \notin tasks' /\ ~ListChats(k) /\ ~Snapshot(k) /\ ~SendLeave(k)
    <3>1. ~Erase(k) /\ ~Evict(k)
      BY <2>1, <2>2 DEF Erase, Evict
    <3>2. ASSUME NEW j \in tasks,
                 ListChats(j) \/ Snapshot(j) \/ SendLeave(j) \/ Erase(j) \/ Evict(j)
          PROVE  FALSE
      <4>1. j = k
        BY <2>7, <3>2 DEF ListChats, Snapshot, SendLeave, Erase, Evict
      <4> QED
        BY <2>7, <3>1, <3>2, <4>1
    <3>3. ASSUME NEW v \in Leavers, RemoveUser(v) PROVE FALSE
      <4>1. v = u
        BY <2>1, <2>7, <3>3 DEF RemoveUser
      <4> QED
        BY <3>3, <4>1 DEF RemoveUser, TypeOK
    <3> QED
      BY <2>7, <3>2, <3>3
         DEF Next, Join, Withdraw, Restore, Continue, Deliver, vars,
             FindRequest, CheckBlock, FindMember, Enter, LeaveChat, Disconnect, BlockUser,
             RemoveRoom, RemoveMember, DeleteAccount, UnblockUser, AddMember,
             DeliverLeave, DeliverEvict
  <2> QED
    BY <2>3, <2>4, <2>5, <2>6, <2>7
<1>4. account[u] = "leaving" \/ \E v \in Users, w \in Workers : DeleteAccount(v, w) /\ u = v
  BY LeaversAreUsers
     DEF Next, Join, Withdraw, Restore, Continue, Deliver, vars, database,
         FindRequest, CheckBlock, FindMember, Enter, LeaveChat, Disconnect, BlockUser,
         RemoveRoom, RemoveMember, DeleteAccount, RemoveUser, UnblockUser, AddMember,
         ListChats, Snapshot, SendLeave, Erase, Evict, DeliverLeave, DeliverEvict, TypeOK
<1> QED
  BY <1>2, <1>3, <1>4

LEMMA UnacceptedStep ==
    TypeOK /\ ErasedTold /\ UnacceptedTold /\ LeaversClose /\ [Next]_vars => UnacceptedTold'
<1> SUFFICES ASSUME TypeOK, ErasedTold, UnacceptedTold, LeaversClose, [Next]_vars,
                    NEW m \in inRoom', m[2] \in Chats \ accepted'
             PROVE  Excused(m)'
    BY DEF UnacceptedTold
<1>1. CASE \E s \in Sockets, r \in Rooms : Enter(s, r) /\ m = <<s, r>>
  BY <1>1, EnterIsExcused
<1>2. CASE ~\E s \in Sockets, r \in Rooms : Enter(s, r) /\ m = <<s, r>>
  <2>1. m \in inRoom
    BY <1>2, OnlyEnterAdds
  <2>2. CASE m[2] \notin accepted
    BY <1>2, <2>1, <2>2, ExcuseStays DEF UnacceptedTold
  <2>3. ASSUME NEW s \in Sockets, NEW c \in Chats, CheckBlock(s, c), m[2] \in accepted
        PROVE  Excused(m)'
    BY <2>3 DEF CheckBlock, Excused
  <2>4. ASSUME NEW k \in tasks, Erase(k), m[2] \in accepted PROVE Excused(m)'
    <3>1. k.at = "erase" /\ m[2] = k.room
      BY <2>4 DEF Erase
    <3> QED
      BY <1>2, <2>1, <3>1, ExcuseStays DEF ErasedTold
  <2>5. ASSUME NEW u \in Leavers, RemoveUser(u), m[2] \in accepted PROVE Excused(m)'
    <3>1. \E k \in tasks : k.room = m[2] /\ k.at = "erase"
      BY <1>2, <2>5, RemovedIsClosed
    <3> QED
      BY <1>2, <2>1, <3>1, ExcuseStays DEF ErasedTold
  <2> QED
    BY <2>2, <2>3, <2>4, <2>5
       DEF Next, Join, Withdraw, Restore, Continue, Deliver, vars, database,
           FindRequest, FindMember, Enter, LeaveChat, Disconnect, BlockUser, RemoveRoom,
           RemoveMember, DeleteAccount, UnblockUser, AddMember, ListChats, Snapshot, SendLeave,
           Evict, DeliverLeave, DeliverEvict
<1> QED
  BY <1>1, <1>2

\* An operation that will put out s does so, or goes on.
LEMMA DueStays ==
    ASSUME RoomsInv, [Next]_vars,
           NEW s \in Sockets, NEW r \in Rooms, <<s, r>> \in inRoom, <<s, r>> \in inRoom',
           EvictionDue(s, r),
           ~\E t \in Sockets, q \in Rooms : Enter(t, q) /\ <<s, r>> = <<t, q>>
    PROVE  EvictionDue(s, r)' \/ Excused(<<s, r>>)'
<1>1. PICK k \in tasks : /\ k.room = r
                         /\ k.at \in {"list", "snapshot", "leave"} \/ (k.at = "evict" /\ s \in k.seen)
  BY DEF EvictionDue
<1>2. k \in Task /\ s \in online
  BY DEF RoomsInv, TypeOK
<1>3. CASE k \in tasks'
  <2>1. EvictionDue(s, r)'
    BY <1>1, <1>3 DEF EvictionDue
  <2> QED
    BY <2>1
<1>4. CASE ListChats(k)
  <2>1. CASE k.room \in accepted
    <3> DEFINE j == [k EXCEPT !.at = "snapshot"]
    <3>1. j \in tasks'
      BY <1>4, <2>1 DEF ListChats
    <3>2. j.room = r /\ j.at = "snapshot"
      BY <1>1, <1>2 DEF Task
    <3> HIDE DEF j
    <3>3. EvictionDue(s, r)'
      BY <3>1, <3>2 DEF EvictionDue
    <3> QED
      BY <3>3
  <2>2. CASE k.room \notin accepted
    <3>1. r \in Chats \ accepted
      BY <1>1, <1>4, <2>2 DEF ListChats, RoomsInv, ListsChats
    <3> QED
      BY <3>1, ExcuseStays DEF RoomsInv, UnacceptedTold
  <2> QED
    BY <2>1, <2>2
<1>5. CASE Snapshot(k)
  <2> DEFINE seen == {t \in Sockets : <<t, k.room>> \in inRoom}
             j == [k EXCEPT !.at = "leave", !.seen = seen]
  <2>1. j \in tasks'
    BY <1>5 DEF Snapshot
  <2> HIDE DEF seen
  <2>2. j.room = r /\ j.at = "leave"
    BY <1>1, <1>2 DEF Task
  <2> HIDE DEF j
  <2>3. EvictionDue(s, r)'
    BY <2>1, <2>2 DEF EvictionDue
  <2> QED
    BY <2>3
<1>6. CASE SendLeave(k)
  <2>1. <<Home[s], r>> \in leaving'
    BY <1>1, <1>2, <1>6, RoomsAssumption DEF SendLeave
  <2> QED
    BY <2>1 DEF Excused, ToldToLeave
<1>7. CASE Evict(k)
  <2>1. s \in k.seen
    BY <1>1, <1>7 DEF Evict
  <2>2. <<s, r>> \in evicting'
    BY <1>1, <1>2, <1>7, <2>1 DEF Evict
  <2> QED
    BY <2>2 DEF Excused, ToldToLeave
<1>8. CASE k \notin tasks' /\ ~ListChats(k) /\ ~Snapshot(k) /\ ~SendLeave(k) /\ ~Evict(k)
  <2>1. ASSUME NEW j \in tasks, ListChats(j) \/ Snapshot(j) \/ SendLeave(j) \/ Erase(j) \/ Evict(j)
        PROVE  FALSE
    <3>1. j = k
      BY <1>8, <2>1 DEF ListChats, Snapshot, SendLeave, Erase, Evict
    <3> QED
      BY <1>1, <1>8, <2>1, <3>1 DEF Erase
  <2>2. ASSUME NEW u \in Leavers, RemoveUser(u) PROVE FALSE
    BY <1>1, <1>8, <2>2 DEF RemoveUser
  <2> QED
    BY <1>8, <2>1, <2>2
       DEF Next, Join, Withdraw, Restore, Continue, Deliver, vars,
           FindRequest, CheckBlock, FindMember, Enter, LeaveChat, Disconnect, BlockUser,
           RemoveRoom, RemoveMember, DeleteAccount, UnblockUser, AddMember,
           DeliverLeave, DeliverEvict
<1> QED
  BY <1>3, <1>4, <1>5, <1>6, <1>7, <1>8

\* Whoever loses the right to a room is about to be put out of it, or excused.
LEMMA LossIsFollowed ==
    ASSUME RoomsInv, [Next]_vars,
           NEW s \in Sockets, NEW r \in Rooms, <<s, r>> \in inRoom, <<s, r>> \in inRoom',
           MayEnter(s, r), ~MayEnter(s, r)',
           ~\E t \in Sockets, q \in Rooms : Enter(t, q) /\ <<s, r>> = <<t, q>>
    PROVE  EvictionDue(s, r)' \/ Excused(<<s, r>>)'
<1>1. ASSUME NEW t \in Sockets, NEW c \in Chats, CheckBlock(t, c) PROVE Excused(<<s, r>>)'
  BY <1>1 DEF CheckBlock, Excused, MayEnter, IsBlocked
<1>2. ASSUME NEW a \in Sockets, NEW b \in Sockets, NEW w \in Workers, BlockUser(a, b, w)
      PROVE  EvictionDue(s, r)'
  <2>1. r \in accepted /\ ~IsBlocked(r) /\ IsBlocked(r)'
    BY <1>2 DEF BlockUser, MayEnter, IsBlocked
  <2>2. Parties[r] = {a, b}
    BY <1>2, <2>1 DEF BlockUser, IsBlocked
  <2>3. Start("list", w, r, "nothing") \in tasks'
    BY <1>2, <2>1, <2>2 DEF BlockUser, RoomsInv, TypeOK
  <2> QED
    BY <2>3 DEF Start, EvictionDue
<1>3. ASSUME NEW k \in tasks, Erase(k) PROVE Excused(<<s, r>>)'
  <2>1. k.at = "erase" /\ r = k.room
    BY <1>3 DEF Erase, MayEnter, IsBlocked
  <2> QED
    BY <2>1, ExcuseStays DEF RoomsInv, ErasedTold
<1>4. ASSUME NEW t \in Sockets, NEW g \in Groups, NEW w \in Workers, RemoveMember(t, g, w)
      PROVE  EvictionDue(s, r)'
  <2>1. s = t /\ r = g
    BY <1>4 DEF RemoveMember, MayEnter, IsBlocked, RoomsInv, TypeOK
  <2> DEFINE j == [Start("evict", w, g, "nothing") EXCEPT !.seen = {t}]
  <2>2. j \in tasks'
    BY <1>4 DEF RemoveMember
  <2>3. j.room = r /\ j.at = "evict" /\ s \in j.seen
    BY <2>1 DEF Start
  <2> HIDE DEF j
  <2> QED
    BY <2>2, <2>3 DEF EvictionDue
<1>5. ASSUME NEW b \in blocks, UnblockUser(b) PROVE FALSE
  BY <1>5 DEF UnblockUser, MayEnter, IsBlocked
<1>6. ASSUME NEW t \in Sockets, NEW g \in Groups, AddMember(t, g) PROVE FALSE
  BY <1>6 DEF AddMember, MayEnter, IsBlocked, RoomsInv, TypeOK
<1>7. CASE UNCHANGED database
  BY <1>7 DEF database, MayEnter, IsBlocked
<1>8. ASSUME NEW u \in Users, NEW w \in Workers, DeleteAccount(u, w) PROVE FALSE
  BY <1>8 DEF DeleteAccount, MayEnter, IsBlocked
<1>9. ASSUME NEW u \in Leavers, RemoveUser(u) PROVE Excused(<<s, r>>)'
  <2>1. CASE r \in accepted /\ r \notin accepted'
    <3>1. PICK k \in tasks : k.room = r /\ k.at = "erase"
      BY <1>9, <2>1, RemovedIsClosed DEF RoomsInv
    <3> QED
      BY <3>1, ExcuseStays DEF RoomsInv, ErasedTold
  <2>2. CASE r \in Groups /\ s \in members[r] /\ s \notin members'[r]
    BY <1>9, <2>2 DEF RemoveUser, Excused
  <2>3. IsBlocked(r)' => IsBlocked(r)
    BY <1>9 DEF RemoveUser, IsBlocked
  <2> QED
    BY <2>1, <2>2, <2>3 DEF MayEnter
<1> QED
  BY <1>1, <1>2, <1>3, <1>4, <1>5, <1>6, <1>7, <1>8, <1>9, LeaversAreUsers
     DEF Next, Join, Withdraw, Restore, Continue, Deliver, vars,
         FindRequest, FindMember, Enter, LeaveChat, Disconnect, RemoveRoom,
         ListChats, Snapshot, SendLeave, Evict, DeliverLeave, DeliverEvict

LEMMA WithdrawalStep == RoomsInv /\ [Next]_vars => WithdrawalEmptiesRoom'
<1> SUFFICES ASSUME RoomsInv, [Next]_vars, NEW m \in inRoom'
             PROVE  (MayEnter(m[1], m[2]) \/ EvictionDue(m[1], m[2]) \/ Excused(m))'
    BY DEF WithdrawalEmptiesRoom, Excused
<1>1. TypeOK /\ TypeOK'
  BY TypeStep DEF RoomsInv
<1>2. PICK s \in Sockets, r \in Rooms : m = <<s, r>>
  BY <1>1 DEF TypeOK
<1>3. CASE \E t \in Sockets, q \in Rooms : Enter(t, q) /\ <<s, r>> = <<t, q>>
  <2>1. Enter(s, r)
    BY <1>3
  <2>2. MayEnter(s, r)' \/ Excused(<<s, r>>)'
    BY <1>1, <1>2, <2>1, EnterIsExcused
  <2> QED
    BY <1>2, <2>2
<1>4. CASE ~\E t \in Sockets, q \in Rooms : Enter(t, q) /\ <<s, r>> = <<t, q>>
  <2>1. <<s, r>> \in inRoom
    BY <1>1, <1>2, <1>4, OnlyEnterAdds
  <2>2. MayEnter(s, r) \/ EvictionDue(s, r) \/ Excused(<<s, r>>)
    BY <2>1 DEF RoomsInv, WithdrawalEmptiesRoom, Excused
  <2>3. CASE Excused(<<s, r>>)
    BY <1>1, <1>2, <1>4, <2>1, <2>3, ExcuseStays
  <2>4. CASE EvictionDue(s, r)
    BY <1>2, <1>4, <2>1, <2>4, DueStays
  <2>5. CASE MayEnter(s, r)
    BY <1>2, <1>4, <2>1, <2>5, LossIsFollowed
  <2> QED
    BY <2>2, <2>3, <2>4, <2>5
<1> QED
  BY <1>3, <1>4

\* The inductive invariant holds.
THEOREM RoomsInvariant == Spec => []RoomsInv
<1>1. RoomsInv /\ [Next]_vars => RoomsInv'
  BY TypeStep, ListsStep, ErasedStep, UnacceptedStep, CloseStep, WithdrawalStep DEF RoomsInv
<1> QED
  BY InitRooms, <1>1, PTL DEF Spec

\* Whoever loses the right to a room, by a block, a removal or a deletion on
\* any worker, is put out of it, but for what the property names.
THEOREM WithdrawalEmpties == Spec => []WithdrawalEmptiesRoom
<1>1. RoomsInv => WithdrawalEmptiesRoom
  BY DEF RoomsInv
<1> QED
  BY RoomsInvariant, <1>1, PTL

-----------------------------------------------------------------------------
(* PushTokens: the invariant *)

CallState == {Idle} \cup Registration \cup Message \cup Holder

\* A row that a call has in hand and that is still there is what it was found to be: the
\* row of the token and user of a message or a deactivation; of the token, or of the user, of
\* a registration.
HandOK(h) ==
    /\ h.at \in {"send", "retry", "remove"} /\ rows[h.row] # NoRow =>
          rows[h.row].user = h.user /\ rows[h.row].token = h.token
    /\ h.at \in {"findUser", "drop"} /\ h.row \in Rows /\ rows[h.row] # NoRow =>
          rows[h.row].token = h.token
    /\ h.at = "drop" => h.other \in Rows /\ (rows[h.other] # NoRow => rows[h.other].user = h.user)
    /\ h.at = "save" /\ h.row \in Rows /\ rows[h.row] # NoRow =>
          rows[h.row].token = h.token \/ rows[h.row].user = h.user

\* What u was last told is what the rows say.
Tells(u) ==
    last[u] # Unsure =>
        /\ \A r \in Rows : rows[r] # NoRow /\ rows[r].user = u => rows[r].token = last[u]
        /\ last[u] # NoToken =>
              \E r \in Rows : rows[r] # NoRow /\ rows[r].user = u /\ rows[r].token = last[u]

TableInv == raced \/ ((\A c \in Calls : HandOK(call[c])) /\ \A u \in Recipients : Tells(u))

LEMMA RowType ==
    ASSUME PushTypeOK, NEW r \in Rows, rows[r] # NoRow
    PROVE  rows[r] \in Row /\ rows[r].user \in Recipients /\ rows[r].token \in Tokens
  BY DEF PushTypeOK, Row

LEMMA TableImpliesStanding == PushTypeOK /\ TableInv => RegistrationStands
<1> SUFFICES ASSUME PushTypeOK, TableInv, ~raced, NEW u \in Recipients, last[u] # Unsure
             PROVE  TokensOf(u) = {last[u]} \ {NoToken}
    BY DEF RegistrationStands
<1>1. Tells(u)
  BY DEF TableInv
<1>2. \A t \in TokensOf(u) : t = last[u] /\ t \in Tokens
  BY <1>1, RowType DEF Tells, TokensOf, OfUser
<1>3. last[u] # NoToken => last[u] \in TokensOf(u)
  BY <1>1 DEF Tells, TokensOf, OfUser
<1>4. NoToken \notin Tokens
  BY PushTokensAssumption
<1> QED
  BY <1>2, <1>3, <1>4

LEMMA FoundRow ==
    ASSUME NEW rs \in SUBSET Rows
    PROVE  Found(rs) = NoRow \/ (Found(rs) \in rs /\ Found(rs) \in Rows)
  BY DEF Found

-----------------------------------------------------------------------------
(* PushTokens: what the calls read *)

\* A call has moved to h, and no other has.
MovesTo(c, h) ==
    /\ h \in CallState
    /\ call'[c] = h
    /\ \A d \in Calls \ {c} : call'[d] = call[d]
    /\ call' \in [Calls -> CallState]

LEMMA Moving ==
    ASSUME PushTypeOK, NEW c \in Calls, NEW h \in CallState, call' = [call EXCEPT ![c] = h]
    PROVE  MovesTo(c, h)
  BY DEF PushTypeOK, CallState, MovesTo

LEMMA Returning ==
    ASSUME PushTypeOK, NEW c \in Calls, Return(c)
    PROVE  MovesTo(c, Idle) /\ HandOK(Idle)
<1>1. Idle \in CallState
  BY DEF CallState
<1>2. HandOK(Idle)
  BY DEF HandOK, Idle
<1> QED
  BY <1>1, <1>2, Moving DEF Return

LEMMA CallShape ==
    ASSUME PushTypeOK, NEW c \in Calls
    PROVE  /\ call[c] \in CallState
           /\ call[c].at \in {"findUser", "drop", "save"} =>
                /\ call[c] \in Registration
                /\ call[c].user \in Recipients /\ call[c].token \in Tokens
                /\ call[c].row \in Rows \cup {NoRow} /\ call[c].other \in Rows \cup {NoRow}
           /\ call[c].at \in {"send", "retry", "remove"} =>
                /\ call[c] \in Holder
                /\ call[c].user \in Recipients /\ call[c].token \in Tokens /\ call[c].row \in Rows
           /\ call[c].at = "tokens" => call[c].user \in Recipients
<1>1. call[c] \in CallState
  BY DEF PushTypeOK, CallState
<1> QED
  BY <1>1 DEF CallState, Idle, Registration, Message, Holder

\* What a step that only reads leaves a call with.
ReadTo(c) == \E h \in CallState : MovesTo(c, h) /\ (HandOK(call[c]) => HandOK(h))

LEMMA FindTokenReads ==
    ASSUME PushTypeOK, NEW c \in Calls, NEW u \in Recipients, NEW t \in Tokens, FindToken(c, u, t)
    PROVE  ReadTo(c)
<1> DEFINE h == [at |-> "findUser", user |-> u, token |-> t,
                 row |-> Found(OfToken(t)), other |-> NoRow]
<1>1. Found(OfToken(t)) = NoRow \/ (Found(OfToken(t)) \in OfToken(t) /\ Found(OfToken(t)) \in Rows)
  BY FoundRow DEF OfToken
<1>2. h \in CallState
  BY <1>1 DEF CallState, Registration
<1>3. HandOK(h)
  <2>1. h.row \in Rows => rows[h.row].token = t
    BY <1>1, PushTokensAssumption DEF OfToken
  <2> QED
    BY <2>1 DEF HandOK
<1>4. call' = [call EXCEPT ![c] = h]
  BY DEF FindToken
<1> HIDE DEF h
<1> QED
  BY <1>2, <1>3, <1>4, Moving DEF ReadTo

LEMMA FindUserReads ==
    ASSUME PushTypeOK, NEW c \in Calls, FindUser(c)
    PROVE  ReadTo(c)
<1> DEFINE g == call[c]
           mine == Found(OfUser(g.user))
<1>1. /\ g.at = "findUser" /\ g \in Registration
      /\ g.user \in Recipients /\ g.token \in Tokens
      /\ g.row \in Rows \cup {NoRow} /\ g.other \in Rows \cup {NoRow}
  BY CallShape DEF FindUser, Waiting
<1>2. mine = NoRow \/ (mine \in Rows /\ mine \in OfUser(g.user))
  BY FoundRow DEF OfUser
<1>3. mine \in Rows => rows[mine].user = g.user
  BY <1>2, PushTokensAssumption DEF OfUser
<1>4. CASE g.row = NoRow
  <2> DEFINE h == [g EXCEPT !.at = "save", !.row = mine]
  <2>1. call' = [call EXCEPT ![c] = h]
    BY <1>4 DEF FindUser
  <2>2. h \in Registration
    BY <1>1, <1>2 DEF Registration
  <2>3. h.at = "save" /\ h.row = mine /\ h.user = g.user
    BY <1>1 DEF Registration
  <2> HIDE DEF h
  <2>4. HandOK(h)
    BY <1>3, <2>3 DEF HandOK
  <2> QED
    BY <2>1, <2>2, <2>4, Moving DEF ReadTo, CallState
<1>5. CASE g.row # NoRow /\ mine \in {NoRow, g.row}
  <2> DEFINE h == [g EXCEPT !.at = "save"]
  <2>1. call' = [call EXCEPT ![c] = h]
    BY <1>5 DEF FindUser
  <2>2. h \in Registration
    BY <1>1 DEF Registration
  <2>3. h.at = "save" /\ h.row = g.row /\ h.user = g.user /\ h.token = g.token
    BY <1>1 DEF Registration
  <2> HIDE DEF h
  <2>4. HandOK(g) => HandOK(h)
    BY <1>1, <2>3 DEF HandOK
  <2> QED
    BY <2>1, <2>2, <2>4, Moving DEF ReadTo, CallState
<1>6. CASE g.row # NoRow /\ mine \notin {NoRow, g.row}
  <2> DEFINE h == [g EXCEPT !.at = "drop", !.other = mine]
  <2>1. call' = [call EXCEPT ![c] = h]
    BY <1>6 DEF FindUser
  <2>2. h \in Registration
    BY <1>1, <1>2, <1>6 DEF Registration
  <2>3. h.at = "drop" /\ h.row = g.row /\ h.other = mine /\ h.user = g.user /\ h.token = g.token
    BY <1>1 DEF Registration
  <2> HIDE DEF h
  <2>4. HandOK(g) => HandOK(h)
    BY <1>1, <1>2, <1>3, <1>6, <2>3 DEF HandOK
  <2> QED
    BY <2>1, <2>2, <2>4, Moving DEF ReadTo, CallState
<1> QED
  BY <1>4, <1>5, <1>6

LEMMA HolderReads ==
    ASSUME PushTypeOK, NEW c \in Calls, NEW at \in {"send", "remove"}, NEW r \in Rows,
           NEW u \in Recipients, NEW t \in Tokens,
           rows[r].user = u, rows[r].token = t,
           call' = [call EXCEPT ![c] = [at |-> at, user |-> u, token |-> t, row |-> r]]
    PROVE  ReadTo(c)
<1> DEFINE h == [at |-> at, user |-> u, token |-> t, row |-> r]
<1>1. h \in CallState
  BY DEF CallState, Holder
<1>2. HandOK(h)
  BY DEF HandOK
<1>3. call' = [call EXCEPT ![c] = h]
  OBVIOUS
<1> HIDE DEF h
<1> QED
  BY <1>1, <1>2, <1>3, Moving DEF ReadTo

LEMMA TakeReads ==
    ASSUME PushTypeOK, NEW c \in Calls, NEW u \in Recipients, Take(c, u)
    PROVE  ReadTo(c)
<1>1. CASE OfUser(u) = {}
  BY <1>1, Returning DEF Take, ReadTo, MovesTo
<1>2. CASE OfUser(u) # {}
  <2>1. PICK r \in OfUser(u) :
           call' = [call EXCEPT ![c] = [at |-> "send", user |-> u, token |-> rows[r].token, row |-> r]]
    BY <1>2 DEF Take
  <2>2. r \in Rows /\ rows[r].user = u /\ rows[r].token \in Tokens
    BY RowType DEF OfUser
  <2> QED
    BY <2>1, <2>2, HolderReads
<1> QED
  BY <1>1, <1>2

\* The steps of a call that change no row.
Reading(c) ==
    \/ \E u \in Recipients, t \in Tokens : FindToken(c, u, t) \/ FindToDeactivate(c, u, t)
    \/ \E u \in Recipients : AcquireCooldown(c, u) \/ FindTokens(c, u)
    \/ FindUser(c) \/ FindRequestTokens(c) \/ Attempt(c) \/ Retry(c) \/ Abort(c)

LEMMA ReadingReads ==
    ASSUME PushTypeOK, NEW c \in Calls, Reading(c)
    PROVE  ReadTo(c) /\ UNCHANGED <<rows, gone, last, raced>> /\ cooldown' \subseteq Recipients
<1>1. Return(c) => ReadTo(c)
  BY Returning DEF ReadTo, MovesTo
<1>2. ASSUME NEW u \in Recipients, NEW t \in Tokens, FindToDeactivate(c, u, t) PROVE ReadTo(c)
  <2>1. PICK r \in OfToken(t) :
           /\ rows[r].user = u
           /\ call' = [call EXCEPT ![c] = [at |-> "remove", user |-> u, token |-> t, row |-> r]]
    BY <1>2 DEF FindToDeactivate
  <2> QED
    BY <2>1, HolderReads DEF OfToken
<1>3. ASSUME NEW u \in Recipients, AcquireCooldown(c, u) PROVE ReadTo(c)
  <2> DEFINE h == [at |-> "tokens", user |-> u]
  <2>1. h \in CallState /\ HandOK(h)
    BY DEF CallState, Message, HandOK
  <2>2. call' = [call EXCEPT ![c] = h]
    BY <1>3 DEF AcquireCooldown
  <2> HIDE DEF h
  <2> QED
    BY <2>1, <2>2, Moving DEF ReadTo
<1>4. ASSUME NEW u \in Recipients, FindTokens(c, u) PROVE ReadTo(c)
  BY <1>4, TakeReads DEF FindTokens
<1>5. ASSUME FindRequestTokens(c) PROVE ReadTo(c)
  <2>1. call[c].user \in Recipients
    BY <1>5, CallShape DEF FindRequestTokens, Waiting
  <2> QED
    BY <1>5, <2>1, TakeReads DEF FindRequestTokens
<1>6. ASSUME NEW at \in {"retry", "remove"}, Waiting(c, "send"), Goto(c, at) PROVE ReadTo(c)
  <2> DEFINE h == [call[c] EXCEPT !.at = at]
  <2>1. call[c] \in Holder /\ call[c].at = "send"
    BY <1>6, CallShape DEF Waiting
  <2>2. h \in Holder /\ h.at = at /\ h.user = call[c].user /\ h.token = call[c].token /\ h.row = call[c].row
    BY <2>1 DEF Holder
  <2>3. call' = [call EXCEPT ![c] = h]
    BY <1>6 DEF Goto
  <2> HIDE DEF h
  <2>4. HandOK(call[c]) => HandOK(h)
    BY <2>1, <2>2 DEF HandOK
  <2> QED
    BY <2>2, <2>3, <2>4, Moving DEF ReadTo, CallState
<1>7. Attempt(c) => ReadTo(c)
  BY <1>1, <1>6 DEF Attempt
<1>8. Retry(c) \/ Abort(c) => ReadTo(c)
  BY <1>1 DEF Retry, Abort
<1>9. ReadTo(c)
  BY <1>2, <1>3, <1>4, <1>5, <1>7, <1>8, FindTokenReads, FindUserReads DEF Reading
<1>10. UNCHANGED <<rows, gone, last, raced>> /\ cooldown' \subseteq Recipients
  <2>1. FindUser(c) \/ FindRequestTokens(c) \/ Attempt(c) \/ Retry(c) \/ Abort(c) =>
           UNCHANGED <<rows, gone, cooldown, last, raced>>
    BY DEF FindUser, FindRequestTokens, Take, Attempt, Retry, Abort
  <2>2. \A u \in Recipients, t \in Tokens : FindToken(c, u, t) \/ FindToDeactivate(c, u, t) =>
           UNCHANGED <<rows, gone, cooldown, last, raced>>
    BY DEF FindToken, FindToDeactivate
  <2>3. \A u \in Recipients : AcquireCooldown(c, u) =>
           UNCHANGED <<rows, gone, last, raced>> /\ cooldown' = cooldown \cup {u}
    BY DEF AcquireCooldown
  <2>4. \A u \in Recipients : FindTokens(c, u) => UNCHANGED <<rows, gone, cooldown, last, raced>>
    BY DEF FindTokens, Take
  <2> QED
    BY <2>1, <2>2, <2>3, <2>4 DEF Reading, PushTypeOK
<1> QED
  BY <1>9, <1>10

-----------------------------------------------------------------------------
(* PushTokens: what the calls write *)

\* No user and no token has two rows.
Unique == \A r \in Rows : rows[r] # NoRow => KeysAllow(r, rows[r].user, rows[r].token)

LEMMA DroppingRow ==
    ASSUME PushTypeOK, NEW r \in Rows, rows' = [rows EXCEPT ![r] = NoRow]
    PROVE  /\ rows' \in [Rows -> Row \cup {NoRow}]
           /\ \A s \in Rows : rows'[s] = IF s = r THEN NoRow ELSE rows[s]
           /\ Unique'
<1>1. rows' \in [Rows -> Row \cup {NoRow}]
  BY DEF PushTypeOK
<1>2. \A s \in Rows : rows'[s] = IF s = r THEN NoRow ELSE rows[s]
  BY DEF PushTypeOK
<1>3. Unique'
  BY <1>2 DEF Unique, KeysAllow, PushTypeOK
<1> QED
  BY <1>1, <1>2, <1>3

\* A row that is gone says nothing wrong.
LEMMA HandsOfDropped ==
    ASSUME NEW r \in Rows, \A s \in Rows : rows'[s] = IF s = r THEN NoRow ELSE rows[s],
           NEW h \in CallState, HandOK(h)
    PROVE  HandOK(h)'
<1>1. h.at \in {"send", "retry", "remove"} => h.row \in Rows
  BY DEF CallState, Idle, Registration, Message, Holder
<1> QED
  BY <1>1 DEF HandOK

LEMMA DropOtherWrites ==
    ASSUME PushTypeOK, NEW c \in Calls, DropOther(c)
    PROVE  PushTypeOK' /\ (TableInv => TableInv')
<1> DEFINE g == call[c]
           h == [g EXCEPT !.at = "save", !.other = NoRow]
<1>1. /\ g.at = "drop" /\ g \in Registration
      /\ g.user \in Recipients /\ g.token \in Tokens
      /\ g.row \in Rows \cup {NoRow} /\ g.other \in Rows \cup {NoRow}
  BY CallShape DEF DropOther, Waiting
<1>2. h \in Registration
  BY <1>1 DEF Registration
<1>3. h.at = "save" /\ h.row = g.row /\ h.user = g.user /\ h.token = g.token
  BY <1>1 DEF Registration
<1>4. call' = [call EXCEPT ![c] = h]
  BY DEF DropOther
<1> HIDE DEF h
<1>5. MovesTo(c, h)
  BY <1>2, <1>4, Moving DEF CallState
<1>6. /\ last' = [last EXCEPT ![g.user] = Unsure]
      /\ rows' = [rows EXCEPT ![g.other] = NoRow]
      /\ UNCHANGED <<gone, cooldown, raced>>
  BY DEF DropOther
<1>7. rows' \in [Rows -> Row \cup {NoRow}] /\ Unique'
  <2>1. CASE g.other \in Rows
    BY <1>6, <2>1, DroppingRow
  <2>2. CASE g.other \notin Rows
    <3>1. rows' = rows
      BY <1>6, <2>2 DEF PushTypeOK
    <3> QED
      BY <3>1 DEF Unique, KeysAllow, PushTypeOK
  <2> QED
    BY <2>1, <2>2
<1>8. last' \in [Recipients -> Tokens \cup {NoToken, Unsure}]
  BY <1>6 DEF PushTypeOK
<1>9. PushTypeOK'
  BY <1>5, <1>6, <1>7, <1>8 DEF PushTypeOK, MovesTo, CallState, Unique
<1>10. ASSUME TableInv, ~raced PROVE TableInv'
  <2>1. (\A d \in Calls : HandOK(call[d])) /\ (\A u \in Recipients : Tells(u))
    BY <1>10 DEF TableInv
  <2>2. g.other \in Rows /\ (rows[g.other] # NoRow => rows[g.other].user = g.user) /\ HandOK(g)
    BY <1>1, <2>1 DEF HandOK
  <2>3. \A s \in Rows : rows'[s] = IF s = g.other THEN NoRow ELSE rows[s]
    BY <1>6, <2>2, DroppingRow
  <2>4. ASSUME NEW d \in Calls PROVE HandOK(call[d])'
    <3>1. CASE d = c
      <4>1. HandOK(h)
        BY <1>1, <1>3, <2>2 DEF HandOK
      <4>2. \A x \in CallState : HandOK(x) => HandOK(x)'
        BY <2>2, <2>3, HandsOfDropped
      <4>3. \A x \in CallState : call'[d] = x /\ HandOK(x)' => HandOK(call[d])'
        BY DEF HandOK
      <4> QED
        BY <1>5, <3>1, <4>1, <4>2, <4>3 DEF MovesTo
    <3>2. CASE d # c
      <4>1. call'[d] = call[d] /\ call[d] \in CallState /\ HandOK(call[d])
        BY <1>5, <2>1, <3>2, CallShape DEF MovesTo
      <4>2. \A x \in CallState : HandOK(x) => HandOK(x)'
        BY <2>2, <2>3, HandsOfDropped
      <4>3. \A x \in CallState : call'[d] = x /\ HandOK(x)' => HandOK(call[d])'
        BY DEF HandOK
      <4> QED
        BY <4>1, <4>2, <4>3
    <3> QED
      BY <3>1, <3>2
  <2>5. ASSUME NEW u \in Recipients PROVE Tells(u)'
    <3>1. CASE u = g.user
      BY <1>6, <3>1 DEF Tells, PushTypeOK
    <3>2. CASE u # g.user
      <4>1. last'[u] = last[u]
        BY <1>6, <3>2 DEF PushTypeOK
      <4>2. \A s \in Rows : (rows'[s] # NoRow /\ rows'[s].user = u) <=> (rows[s] # NoRow /\ rows[s].user = u)
        BY <2>2, <2>3, <3>2
      <4>3. \A s \in Rows : rows'[s] # NoRow => rows'[s] = rows[s]
        BY <2>3
      <4> QED
        BY <2>1, <4>1, <4>2, <4>3 DEF Tells
    <3> QED
      BY <3>1, <3>2
  <2> QED
    BY <2>4, <2>5 DEF TableInv
<1>11. ASSUME raced PROVE TableInv'
  BY <1>6, <1>11 DEF TableInv, PushTypeOK
<1> QED
  BY <1>9, <1>10, <1>11

LEMMA RemoveWrites ==
    ASSUME PushTypeOK, NEW c \in Calls, Remove(c)
    PROVE  PushTypeOK' /\ (TableInv => TableInv')
<1> DEFINE g == call[c]
<1>1. g.at = "remove" /\ g.user \in Recipients /\ g.token \in Tokens /\ g.row \in Rows
  BY CallShape DEF Remove, Waiting
<1>2. MovesTo(c, Idle) /\ HandOK(Idle)
  BY Returning DEF Remove
<1>3. /\ rows' = [rows EXCEPT ![g.row] = NoRow]
      /\ UNCHANGED <<gone, cooldown, raced>>
  BY DEF Remove
<1>4. /\ rows' \in [Rows -> Row \cup {NoRow}] /\ Unique'
      /\ \A s \in Rows : rows'[s] = IF s = g.row THEN NoRow ELSE rows[s]
  BY <1>1, <1>3, DroppingRow
<1>5. \A u \in Recipients :
         last'[u] = IF u = g.user /\ rows[g.row] # NoRow /\ last[u] = g.token THEN NoToken ELSE last[u]
  BY <1>1 DEF Remove, Deregistered, PushTypeOK
<1>6. last' \in [Recipients -> Tokens \cup {NoToken, Unsure}]
  BY <1>1 DEF Remove, Deregistered, PushTypeOK
<1>7. PushTypeOK'
  BY <1>2, <1>3, <1>4, <1>6 DEF PushTypeOK, MovesTo, CallState, Unique
<1>8. ASSUME TableInv, ~raced PROVE TableInv'
  <2>1. (\A d \in Calls : HandOK(call[d])) /\ (\A u \in Recipients : Tells(u))
    BY <1>8 DEF TableInv
  <2>2. rows[g.row] # NoRow => rows[g.row].user = g.user /\ rows[g.row].token = g.token
    BY <1>1, <2>1 DEF HandOK
  <2>3. ASSUME NEW d \in Calls PROVE HandOK(call[d])'
    <3>1. \A x \in CallState : HandOK(x) => HandOK(x)'
      BY <1>1, <1>4, HandsOfDropped
    <3>2. \A x \in CallState : call'[d] = x /\ HandOK(x)' => HandOK(call[d])'
      BY DEF HandOK
    <3>3. call'[d] \in {Idle, call[d]} /\ call'[d] \in CallState
      BY <1>2 DEF MovesTo
    <3> QED
      BY <1>2, <2>1, <3>1, <3>2, <3>3
  <2>4. ASSUME NEW u \in Recipients PROVE Tells(u)'
    <3>1. CASE rows[g.row] = NoRow
      <4>1. \A s \in Rows : rows'[s] = rows[s]
        BY <1>4, <3>1
      <4>2. last'[u] = last[u]
        BY <1>5, <3>1
      <4> QED
        BY <2>1, <4>1, <4>2 DEF Tells
    <3>2. CASE rows[g.row] # NoRow /\ u # g.user
      <4>1. last'[u] = last[u]
        BY <1>5, <3>2
      <4>2. \A s \in Rows : (rows'[s] # NoRow /\ rows'[s].user = u) <=> (rows[s] # NoRow /\ rows[s].user = u)
        BY <1>4, <2>2, <3>2
      <4>3. \A s \in Rows : rows'[s] # NoRow => rows'[s] = rows[s]
        BY <1>4
      <4> QED
        BY <2>1, <4>1, <4>2, <4>3 DEF Tells
    <3>3. CASE rows[g.row] # NoRow /\ u = g.user
      <4>1. \A s \in Rows : ~(rows'[s] # NoRow /\ rows'[s].user = u)
        BY <1>1, <1>4, <2>2, <3>3 DEF PushTypeOK, KeysAllow
      <4>2. last[u] # Unsure => last[u] = g.token
        BY <1>1, <2>1, <2>2, <3>3 DEF Tells
      <4>3. last'[u] \in {NoToken, Unsure}
        BY <1>5, <3>3, <4>2
      <4> QED
        BY <4>1, <4>3 DEF Tells
    <3> QED
      BY <3>1, <3>2, <3>3
  <2> QED
    BY <2>3, <2>4 DEF TableInv
<1>9. ASSUME raced PROVE TableInv'
  BY <1>3, <1>9 DEF TableInv, PushTypeOK
<1> QED
  BY <1>7, <1>8, <1>9

LEMMA SaveWrites ==
    ASSUME PushTypeOK, NEW c \in Calls, Save(c)
    PROVE  PushTypeOK' /\ (TableInv => TableInv')
<1> DEFINE g == call[c]
           u == g.user
           t == g.token
<1>1. /\ g.at = "save" /\ g \in Registration /\ u \in Recipients /\ t \in Tokens
      /\ g.row \in Rows \cup {NoRow} /\ g.other \in Rows \cup {NoRow}
  BY CallShape DEF Save, Waiting
<1>2. MovesTo(c, Idle) /\ HandOK(Idle) /\ UNCHANGED <<gone, cooldown>>
  BY Returning DEF Save
<1>3. PICK r \in Rows :
         /\ IF g.row = NoRow THEN Fresh(r) ELSE r = g.row
         /\ IF KeysAllow(r, u, t)
            THEN /\ rows' = [rows EXCEPT ![r] = [user |-> u, token |-> t]]
                 /\ raced' = (raced \/ Contested(c, r))
                 /\ Registered(u, t)
            ELSE UNCHANGED <<rows, raced, last>>
  BY DEF Save
<1>4. CASE ~KeysAllow(r, u, t)
  <2>1. UNCHANGED <<rows, raced, last, gone, cooldown>>
    BY <1>2, <1>3, <1>4
  <2>2. PushTypeOK'
    BY <1>2, <2>1 DEF PushTypeOK, MovesTo, CallState, KeysAllow
  <2>3. \A d \in Calls : call'[d] \in {Idle, call[d]}
    BY <1>2 DEF MovesTo
  <2>4. \A d \in Calls : HandOK(call[d]) => HandOK(call[d])'
    BY <1>2, <2>1, <2>3 DEF HandOK
  <2>5. \A v \in Recipients : Tells(v) => Tells(v)'
    BY <2>1 DEF Tells
  <2> QED
    BY <2>1, <2>2, <2>4, <2>5 DEF TableInv
<1>5. CASE KeysAllow(r, u, t)
  <2> DEFINE new == [user |-> u, token |-> t]
  <2>1. /\ rows' = [rows EXCEPT ![r] = new] /\ raced' = (raced \/ Contested(c, r))
        /\ last' = [v \in Recipients |-> IF v = u THEN t ELSE IF last[v] = t THEN NoToken ELSE last[v]]
    BY <1>3, <1>5 DEF Registered
  <2>2. new \in Row /\ new # NoRow /\ new.user = u /\ new.token = t
    BY <1>1, PushTokensAssumption DEF Row
  <2> HIDE DEF new
  <2>3. rows' \in [Rows -> Row \cup {NoRow}] /\ \A s \in Rows : rows'[s] = IF s = r THEN new ELSE rows[s]
    BY <2>1, <2>2 DEF PushTypeOK
  <2>4. Unique'
    <3>1. ASSUME NEW s \in Rows, NEW q \in Rows \ {s}, rows'[s] # NoRow, rows'[q] # NoRow
          PROVE  rows'[q].user # rows'[s].user /\ rows'[q].token # rows'[s].token
      BY <1>5, <2>2, <2>3, <3>1 DEF KeysAllow, PushTypeOK
    <3> QED
      BY <3>1 DEF Unique, KeysAllow
  <2>5. last' \in [Recipients -> Tokens \cup {NoToken, Unsure}]
    BY <1>1, <2>1 DEF PushTypeOK
  <2>6. raced' \in BOOLEAN
    BY <2>1 DEF PushTypeOK, Contested
  <2>7. PushTypeOK'
    BY <1>2, <2>3, <2>4, <2>5, <2>6 DEF PushTypeOK, MovesTo, CallState, Unique
  <2>8. ASSUME TableInv, ~raced' PROVE TableInv'
    <3>1. ~raced /\ \A d \in Calls \ {c} : ~InHand(d, r)
      BY <2>1, <2>8 DEF Contested, PushTypeOK
    <3>2. (\A d \in Calls : HandOK(call[d])) /\ (\A v \in Recipients : Tells(v))
      BY <2>8, <3>1 DEF TableInv
    <3>3. rows[r] # NoRow => rows[r].token = t \/ rows[r].user = u
      <4>1. CASE g.row = NoRow
        BY <1>3, <4>1 DEF Fresh
      <4>2. CASE g.row # NoRow
        BY <1>1, <1>3, <3>2, <4>2 DEF HandOK
      <4> QED
        BY <4>1, <4>2
    <3>4. ASSUME NEW d \in Calls PROVE HandOK(call[d])'
      <4>1. CASE d = c
        <5>1. call'[d] = Idle
          BY <1>2, <4>1 DEF MovesTo
        <5> QED
          BY <5>1 DEF HandOK, Idle
      <4>2. CASE d # c
        <5>1. call'[d] = call[d] /\ HandOK(call[d]) /\ ~InHand(d, r)
          BY <1>2, <3>1, <3>2, <4>2 DEF MovesTo
        <5>2. \A s \in Rows : InHand(d, s) => rows'[s] = rows[s]
          BY <2>3, <5>1
        <5>3. call[d].at \in {"send", "retry", "remove"} => call[d].row \in Rows /\ InHand(d, call[d].row)
          BY CallShape DEF InHand
        <5>4. call[d].at \in {"findUser", "drop", "save"} => InHand(d, call[d].row) /\ InHand(d, call[d].other)
          BY DEF InHand
        <5> QED
          BY <5>1, <5>2, <5>3, <5>4 DEF HandOK
      <4> QED
        BY <4>1, <4>2
    <3>5. ASSUME NEW v \in Recipients PROVE Tells(v)'
      <4>1. CASE v = u
        <5>1. last'[v] = t
          BY <2>1, <4>1
        <5>2. \A s \in Rows : rows'[s] # NoRow /\ rows'[s].user = v => s = r
          BY <1>5, <2>3, <4>1 DEF KeysAllow
        <5>3. rows'[r] # NoRow /\ rows'[r].user = v /\ rows'[r].token = t
          BY <2>2, <2>3, <4>1
        <5> QED
          BY <5>1, <5>2, <5>3 DEF Tells
      <4>2. CASE v # u
        <5>1. last'[v] = IF last[v] = t THEN NoToken ELSE last[v]
          BY <2>1, <4>2
        <5>2. \A s \in Rows : rows'[s] # NoRow /\ rows'[s].user = v => rows'[s] = rows[s] /\ s # r
          BY <2>2, <2>3, <4>2
        <5>3. \A s \in Rows \ {r} : rows[s] # NoRow => rows[s].token # t
          BY <1>5 DEF KeysAllow
        <5>4. CASE last[v] = Unsure
          <6>1. Unsure # t
            BY <1>1, PushTokensAssumption
          <6> QED
            BY <5>1, <5>4, <6>1 DEF Tells
        <5>5. CASE last[v] = t
          <6>1. t # Unsure
            BY <1>1, PushTokensAssumption
          <6>2. \A s \in Rows : rows[s] # NoRow /\ rows[s].user = v => rows[s].token = t
            BY <3>2, <5>5, <6>1 DEF Tells
          <6>3. \A s \in Rows : ~(rows'[s] # NoRow /\ rows'[s].user = v)
            BY <5>2, <5>3, <6>2
          <6>4. last'[v] = NoToken
            BY <5>1, <5>5
          <6> QED
            BY <6>3, <6>4 DEF Tells
        <5>6. CASE last[v] \notin {t, Unsure}
          <6>1. last'[v] = last[v] /\ Tells(v)
            BY <3>2, <5>1, <5>6
          <6>2. \A s \in Rows : rows[s] # NoRow /\ rows[s].user = v => s # r
            BY <3>3, <4>2, <5>6, <6>1 DEF Tells
          <6>3. \A s \in Rows : rows[s] # NoRow /\ rows[s].user = v => rows'[s] = rows[s]
            BY <2>3, <6>2
          <6> QED
            BY <5>2, <5>6, <6>1, <6>3 DEF Tells
        <5> QED
          BY <5>4, <5>5, <5>6
      <4> QED
        BY <4>1, <4>2
    <3> QED
      BY <3>4, <3>5 DEF TableInv
  <2>9. ASSUME raced' PROVE TableInv'
    BY <2>9 DEF TableInv
  <2> QED
    BY <2>7, <2>8, <2>9
<1> QED
  BY <1>4, <1>5

-----------------------------------------------------------------------------
(* PushTokens: the theorems *)

LEMMA PushInitInv == PushInit => PushTypeOK /\ TableInv
<1> SUFFICES ASSUME PushInit PROVE PushTypeOK /\ TableInv
    OBVIOUS
<1>1. PushTypeOK
  BY DEF PushInit, PushTypeOK
<1>2. \A c \in Calls : HandOK(call[c])
  BY DEF PushInit, HandOK, Idle
<1>3. \A u \in Recipients : Tells(u)
  BY DEF PushInit, Tells
<1> QED
  BY <1>1, <1>2, <1>3 DEF TableInv

LEMMA PushStep == PushTypeOK /\ TableInv /\ [PushNext]_pushVars => PushTypeOK' /\ TableInv'
<1> SUFFICES ASSUME PushTypeOK, TableInv, [PushNext]_pushVars PROVE PushTypeOK' /\ TableInv'
    OBVIOUS
<1>1. \/ UNCHANGED pushVars
      \/ \E c \in Calls : Reading(c)
      \/ \E c \in Calls : DropOther(c) \/ Save(c) \/ Remove(c)
      \/ \E u \in Recipients : CooldownExpires(u)
      \/ \E t \in Tokens : Uninstall(t)
  BY DEF PushNext, Register, Deactivate, Send, Reading
<1>2. ASSUME UNCHANGED <<rows, last, raced, call>>, gone' \subseteq Tokens, cooldown' \subseteq Recipients
      PROVE  PushTypeOK' /\ TableInv'
  BY <1>2 DEF PushTypeOK, KeysAllow, TableInv, HandOK, Tells
<1>3. CASE UNCHANGED pushVars
  BY <1>2, <1>3 DEF pushVars, PushTypeOK
<1>4. ASSUME NEW u \in Recipients, CooldownExpires(u) PROVE PushTypeOK' /\ TableInv'
  BY <1>2, <1>4 DEF CooldownExpires, PushTypeOK
<1>5. ASSUME NEW t \in Tokens, Uninstall(t) PROVE PushTypeOK' /\ TableInv'
  BY <1>2, <1>5 DEF Uninstall, PushTypeOK
<1>6. ASSUME NEW c \in Calls, Reading(c) PROVE PushTypeOK' /\ TableInv'
  <2>1. PICK h \in CallState : MovesTo(c, h) /\ (HandOK(call[c]) => HandOK(h))
    BY <1>6, ReadingReads DEF ReadTo
  <2>2. UNCHANGED <<rows, gone, last, raced>> /\ cooldown' \subseteq Recipients
    BY <1>6, ReadingReads
  <2>3. PushTypeOK'
    BY <2>1, <2>2 DEF PushTypeOK, KeysAllow, MovesTo, CallState
  <2>4. ASSUME NEW d \in Calls, \A e \in Calls : HandOK(call[e]) PROVE HandOK(call[d])'
    <3>1. HandOK(call'[d])
      BY <2>1, <2>4 DEF MovesTo
    <3> QED
      BY <2>2, <3>1 DEF HandOK
  <2>5. \A u \in Recipients : Tells(u) => Tells(u)'
    BY <2>2 DEF Tells
  <2> QED
    BY <2>2, <2>3, <2>4, <2>5 DEF TableInv
<1> QED
  BY <1>1, <1>3, <1>4, <1>5, <1>6, DropOtherWrites, SaveWrites, RemoveWrites

\* The table of tokens keeps its types and its two unique keys.
THEOREM PushTypeCorrect == PushSpec => []PushTypeOK
  BY PushInitInv, PushStep, PTL DEF PushSpec

\* registerToken, deactivateToken and the sends: what a user was last told of the registration
\* is what the table says, unless a registration wrote a row that another call had in hand.
THEOREM Registrations == PushSpec => []RegistrationStands
  BY PushInitInv, PushStep, TableImpliesStanding, PTL DEF PushSpec

=============================================================================
