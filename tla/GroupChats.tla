----------------------------- MODULE GroupChats -----------------------------
(***************************************************************************)
(* Who is a member of a group chat in ChatService: created with its owner, *)
(* joined by invitation, left or removed from, deleted.                    *)
(*                                                                         *)
(* Every operation reads rows, decides, and writes later, outside a        *)
(* transaction; a call is cut at the awaits between a read that decides    *)
(* and the writes that rely on it.  The database keeps two rules: the rows *)
(* of a group go with it and need it, and a user is a member once.         *)
(*                                                                         *)
(* Accounts and blocks are left out: a call they refuse changes nothing,   *)
(* which is one of the outcomes of Abort.  What a removal and a deletion   *)
(* do to the drawing room is in DrawRooms.                                 *)
(***************************************************************************)
EXTENDS FiniteSets, Naturals

CONSTANTS
    Users,
    Groups,       \* bound: the groups that can be created, each by a given user
    Owner,        \* Owner[g]: createdByUserId
    Invitations,  \* bound: the invitations that can be created
    Invited,      \* Invited[i]: <<group, invitee>>
    Calls,        \* bound: calls under way at a time
    NoInvitation, \* a call has none
    MaxRemovals   \* bound: times a user can be removed from a group

Places == Groups \X Users

ASSUME GroupsAssumption ==
    /\ Owner \in [Groups -> Users]
    /\ Invited \in [Invitations -> {p \in Places : p[2] # Owner[p[1]]}]
    /\ NoInvitation \notin Invitations
    /\ MaxRemovals \in Nat

VARIABLES
    groups,   \* the rows of group_chats
    used,     \* groups that have been created
    members,  \* group_chat_members: places <<group, user>>
    status,   \* status[i] of the row, "unused" before it and "deleted" after
    call,     \* call[c]: how far the call c is
    removals, \* removals[p]: how often p was removed; tells a row of p from the next
    issued,   \* history: issued[i]: removals of its place when i was created
    returns,  \* history: invitations that let a user in who was removed after their creation
    raced,    \* history: invitations of which calls overlapped
    aborted   \* history: invitations accepted by a call that ended before the membership

history == <<issued, returns, raced, aborted>>
vars == <<groups, used, members, status, call, removals, history>>

-----------------------------------------------------------------------------
Answers == {"accepted", "rejected"}
Statuses == {"unused", "pending", "deleted"} \cup Answers

\* Where a call waits: for the insert of the owner; for the lookup of a
\* pending invitation or its insert; for the save of an answer, the lookup of
\* the group or the insert of the member; for the delete of a member or group.
Waits == {"idle", "owner", "invited", "invite", "joining", "join", "remove", "delete"}
            \cup Answers

Call == [at : Waits \ {"idle"}, place : Places, inv : Invitations \cup {NoInvitation},
         row : 0..MaxRemovals, overlapped : BOOLEAN]
Idle == [at |-> "idle"]

TypeOK ==
    /\ groups \subseteq used
    /\ used \subseteq Groups
    /\ members \subseteq groups \X Users
    /\ status \in [Invitations -> Statuses]
    /\ \A i \in Invitations : status[i] \in {"pending"} \cup Answers => Invited[i][1] \in groups
    /\ call \in [Calls -> Call \cup {Idle}]
    /\ removals \in [Places -> 0..MaxRemovals]
    /\ issued \in [Invitations -> 0..MaxRemovals]
    /\ returns \cup raced \cup aborted \subseteq Invitations

OwnerPlace(g) == <<g, Owner[g]>>

Init ==
    /\ groups = {}
    /\ used = {}
    /\ members = {}
    /\ status = [i \in Invitations |-> "unused"]
    /\ call = [c \in Calls |-> Idle]
    /\ removals = [p \in Places |-> 0]
    /\ issued = [i \in Invitations |-> 0]
    /\ returns = {}
    /\ raced = {}
    /\ aborted = {}

-----------------------------------------------------------------------------
Waiting(c, at) == call[c].at = at
Goto(c, at) == call' = [call EXCEPT ![c].at = at]
Return(c) == call' = [call EXCEPT ![c] = Idle]
Begin(c, at, p, i) ==
    /\ Waiting(c, "idle")
    /\ call' = [call EXCEPT ![c] =
                  [at |-> at, place |-> p, inv |-> i, row |-> removals[p], overlapped |-> FALSE]]

\* Other calls than c that create an invitation to p, or answer one.
Inviting(c, p) == {d \in Calls \ {c} : Waiting(d, "invite") /\ call[d].place = p}
Answering(c, p) ==
    {d \in Calls \ {c} : call[d].at \in Answers \cup {"joining", "join"} /\ call[d].place = p}

\* A call that ends before its time: the worker dies, the database fails, or
\* an account or a block is in the way.
Abort(c) ==
    /\ ~Waiting(c, "idle")
    /\ aborted' = aborted \cup (IF call[c].at \in {"joining", "join"} THEN {call[c].inv} ELSE {})
    /\ Return(c)
    /\ UNCHANGED <<groups, used, members, status, removals, issued, returns, raced>>

-----------------------------------------------------------------------------
\* createGroup: first the group ...
CreateGroup(c, g) ==
    /\ g \notin used
    /\ Begin(c, "owner", OwnerPlace(g), NoInvitation)
    /\ groups' = groups \cup {g}
    /\ used' = used \cup {g}
    /\ UNCHANGED <<members, status, removals, history>>

\* ... then its owner.
AddOwner(c) ==
    /\ Waiting(c, "owner")
    /\ members' = members \cup {call[c].place}
    /\ Return(c)
    /\ UNCHANGED <<groups, used, status, removals, history>>

-----------------------------------------------------------------------------
\* inviteMember by the owner, of somebody who is not a member ...
FindToInvite(c, p) ==
    /\ p[1] \in groups
    /\ OwnerPlace(p[1]) \in members
    /\ p \notin members
    /\ Begin(c, "invited", p, NoInvitation)
    /\ UNCHANGED <<groups, used, members, status, removals, history>>

\* Variant with a bug: the lookup misses pending invitations.
CheckInvitedAnswered(c) ==
    /\ Waiting(c, "invited")
    /\ IF \E i \in Invitations : Invited[i] = call[c].place /\ status[i] \in Answers
         THEN Return(c)
         ELSE LET rivals == Inviting(c, call[c].place) IN
              call' = [d \in Calls |->
                CASE d = c -> [at |-> "invite", place |-> call[c].place, inv |-> NoInvitation,
                               row |-> call[c].row, overlapped |-> rivals # {}]
                  [] d \in rivals -> [call[d] EXCEPT !.overlapped = TRUE]
                  [] OTHER -> call[d]]
    /\ UNCHANGED <<groups, used, members, status, removals, history>>

\* ... without a pending invitation ...
CheckInvited(c) ==
    /\ Waiting(c, "invited")
    /\ IF \E i \in Invitations : Invited[i] = call[c].place /\ status[i] = "pending"
         THEN Return(c)
         ELSE LET rivals == Inviting(c, call[c].place) IN
              call' = [d \in Calls |->
                CASE d = c -> [at |-> "invite", place |-> call[c].place, inv |-> NoInvitation,
                               row |-> call[c].row, overlapped |-> rivals # {}]
                  [] d \in rivals -> [call[d] EXCEPT !.overlapped = TRUE]
                  [] OTHER -> call[d]]
    /\ UNCHANGED <<groups, used, members, status, removals, history>>

\* ... who is sent one, unless the group has gone.
Invite(c, i) ==
    LET p == call[c].place
        answering == Answering(c, p) IN
    /\ Waiting(c, "invite")
    /\ p[1] \in groups
    /\ Invited[i] = p
    /\ status[i] = "unused"
    /\ status' = [status EXCEPT ![i] = "pending"]
    /\ issued' = [issued EXCEPT ![i] = removals[p]]
    /\ raced' = raced \cup {call[d].inv : d \in answering}
                     \cup (IF call[c].overlapped \/ p \in members \/ answering # {} THEN {i} ELSE {})
    /\ Return(c)
    /\ UNCHANGED <<groups, used, members, removals, returns, aborted>>

-----------------------------------------------------------------------------
\* Variant with a bug: an invitation may be answered again.
FindAnyInvitation(c, i, answer) ==
    /\ status[i] \in {"pending", "rejected", "accepted"}
    /\ Begin(c, answer, Invited[i], i)
    /\ raced' = IF \E d \in Calls : ~Waiting(d, "idle") /\ call[d].inv = i
                THEN raced \cup {i} ELSE raced
    /\ UNCHANGED <<groups, used, members, status, removals, issued, returns, aborted>>

\* respondToGroupInvitation by the invitee, who finds it pending ...
FindInvitation(c, i, answer) ==
    /\ status[i] = "pending"
    /\ Begin(c, answer, Invited[i], i)
    /\ raced' = IF \E d \in Calls : ~Waiting(d, "idle") /\ call[d].inv = i
                THEN raced \cup {i} ELSE raced
    /\ UNCHANGED <<groups, used, members, status, removals, issued, returns, aborted>>

\* ... saves the answer, unless the group has gone and the invitation with it ...
SaveAnswer(c) ==
    LET i == call[c].inv IN
    /\ call[c].at \in Answers
    /\ IF status[i] = "deleted" THEN UNCHANGED status
       ELSE status' = [status EXCEPT ![i] = call[c].at]
    /\ IF Waiting(c, "accepted") /\ status[i] # "deleted" THEN Goto(c, "joining") ELSE Return(c)
    /\ UNCHANGED <<groups, used, members, removals, history>>

\* Variant with a bug: the test of the membership is inverted.
ReadMembersInverted(c) ==
    LET p == call[c].place IN
    /\ Waiting(c, "joining")
    /\ IF p[1] \in groups /\ p \in members THEN Goto(c, "join") ELSE Return(c)
    /\ UNCHANGED <<groups, used, members, status, removals, history>>

\* ... reads the group if the answer is yes ...
ReadMembers(c) ==
    LET p == call[c].place IN
    /\ Waiting(c, "joining")
    /\ IF p[1] \in groups /\ p \notin members THEN Goto(c, "join") ELSE Return(c)
    /\ UNCHANGED <<groups, used, members, status, removals, history>>

\* ... and becomes a member: refused without the group, or as a duplicate.
Join(c) ==
    LET p == call[c].place
        i == call[c].inv IN
    /\ Waiting(c, "join")
    /\ members' = members \cup ({p} \cap (groups \X Users))
    /\ returns' = IF p \in members' \ members /\ removals[p] # issued[i]
                  THEN returns \cup {i} ELSE returns
    /\ Return(c)
    /\ UNCHANGED <<groups, used, status, removals, issued, raced, aborted>>

-----------------------------------------------------------------------------
\* Variant with a bug: the owner may be removed.
FindAnyToRemove(c, p) ==
    /\ p \in members
    /\ removals[p] < MaxRemovals
    /\ Begin(c, "remove", p, NoInvitation)
    /\ UNCHANGED <<groups, used, members, status, removals, history>>

\* removeMember, by the owner or of oneself, of anybody but the owner ...
FindToRemove(c, p) ==
    /\ p \in members
    /\ p # OwnerPlace(p[1])
    /\ removals[p] < MaxRemovals
    /\ Begin(c, "remove", p, NoInvitation)
    /\ UNCHANGED <<groups, used, members, status, removals, history>>

\* ... deletes the row it has found, by id: not a later membership.
Remove(c) ==
    LET p == call[c].place IN
    /\ Waiting(c, "remove")
    /\ IF p \in members /\ removals[p] = call[c].row
         THEN /\ members' = members \ {p}
              /\ removals' = [removals EXCEPT ![p] = @ + 1]
         ELSE UNCHANGED <<members, removals>>
    /\ Return(c)
    /\ UNCHANGED <<groups, used, status, history>>

\* deleteGroup by the owner, who knows of the group as a member of it: it goes
\* when its room has been told, with its members and invitations.
FindToDelete(c, g) ==
    /\ OwnerPlace(g) \in members
    /\ Begin(c, "delete", OwnerPlace(g), NoInvitation)
    /\ UNCHANGED <<groups, used, members, status, removals, history>>

\* Variant with a bug: the members do not go with their group.
DeleteGroupOnly(c) ==
    LET g == call[c].place[1] IN
    /\ Waiting(c, "delete")
    /\ groups' = groups \ {g}
    /\ status' = [i \in Invitations |->
                    IF Invited[i][1] = g /\ status[i] # "unused" THEN "deleted" ELSE status[i]]
    /\ Return(c)
    /\ UNCHANGED <<used, members, removals, history>>

DeleteGroup(c) ==
    LET g == call[c].place[1] IN
    /\ Waiting(c, "delete")
    /\ groups' = groups \ {g}
    /\ members' = {p \in members : p[1] # g}
    /\ status' = [i \in Invitations |->
                    IF Invited[i][1] = g /\ status[i] # "unused" THEN "deleted" ELSE status[i]]
    /\ Return(c)
    /\ UNCHANGED <<used, removals, history>>

-----------------------------------------------------------------------------
Start(c) ==
    \/ \E g \in Groups : CreateGroup(c, g) \/ FindToDelete(c, g)
    \/ \E p \in Places : FindToInvite(c, p) \/ FindToRemove(c, p)
    \/ \E i \in Invitations, answer \in Answers : FindInvitation(c, i, answer)

Continue(c) ==
    \/ AddOwner(c)
    \/ CheckInvited(c) \/ \E i \in Invitations : Invite(c, i)
    \/ SaveAnswer(c) \/ ReadMembers(c) \/ Join(c)
    \/ Remove(c)
    \/ DeleteGroup(c)
    \/ Abort(c)

Next == \E c \in Calls : Start(c) \/ Continue(c)

Spec == Init /\ [][Next]_vars

-----------------------------------------------------------------------------
(* Properties *)

\* "The group owner cannot be removed": chat.service.ts:605.  A group somebody
\* is in has its owner, who alone can invite, remove and delete.
OwnerStays == \A p \in members : OwnerPlace(p[1]) \in members

\* "A pending invitation already exists for this user": chat.service.ts:465.
\* A second pending invitation, and one to a member, come only of calls that
\* overlapped: two that invite, or one that invites and one that answers.
NoNeedlessInvitation ==
    \A i \in Invitations \ raced : status[i] = "pending" =>
        /\ Invited[i] \notin members
        /\ \A j \in Invitations \ {i} :
              (Invited[j] = Invited[i] /\ status[j] = "pending") => j \in raced

\* Who was removed from a group does not come back with an invitation that is
\* older than the removal, but for overlapping calls.
NoReturnUninvited == returns \subseteq raced

\* An accepted invitation has made its invitee a member, or will: the answer is
\* saved before the membership, and cannot be given again.
AcceptedIsMember ==
    \A i \in Invitations \ (raced \cup aborted) : status[i] = "accepted" =>
        \/ Invited[i] \in members
        \/ removals[Invited[i]] > issued[i]
        \/ \E c \in Calls : call[c].at \in {"joining", "join"} /\ call[c].inv = i

=============================================================================
