-------------------------- MODULE GroupChats_proofs --------------------------
(***************************************************************************)
(* Proofs about GroupChats, for any users, groups, invitations and calls.  *)
(***************************************************************************)
EXTENDS GroupChats, TLAPS

-----------------------------------------------------------------------------
(* What calls know *)

Existing == {"pending"} \cup Answers
Responding == Answers \cup {"joining", "join"}

\* The call c, and the group of the place it is about.
KnowsPlace(c) ==
    /\ call[c].at # "idle" => call[c].place[1] \in used
    /\ call[c].at \in Responding =>
          /\ call[c].inv \in Invitations
          /\ call[c].place = Invited[call[c].inv]
          /\ status[call[c].inv] # "unused"
    /\ call[c].at \in {"owner", "delete"} => call[c].place = OwnerPlace(call[c].place[1])
    /\ call[c].at = "owner" => call[c].place[1] \in groups /\ call[c].place \notin members
    /\ call[c].at = "remove" => /\ call[c].place # OwnerPlace(call[c].place[1])
                               /\ call[c].row < MaxRemovals
CallsInv == \A c \in Calls : KnowsPlace(c)

\* While a group waits for its owner, nobody else adds one or deletes the group.
OwnerInv ==
    \A c, d \in Calls :
        call[c].at = "owner" /\ call[d].at \in {"owner", "delete"} /\ d # c =>
            call[d].place # call[c].place

TypeInv == TypeOK /\ CallsInv /\ OwnerInv

\* What a call becomes.
LEMMA GotoMoves ==
    ASSUME TypeOK, NEW c \in Calls, call[c].at # "idle", NEW at \in Waits \ {"idle"}, Goto(c, at)
    PROVE  /\ call' \in [Calls -> Call \cup {Idle}]
           /\ call'[c].at = at /\ call'[c].place = call[c].place /\ call'[c].inv = call[c].inv
           /\ call'[c].overlapped = call[c].overlapped
           /\ \A d \in Calls \ {c} : call'[d] = call[d]
<1>1. call[c] \in Call
  BY DEF TypeOK, Idle
<1>2. [call[c] EXCEPT !.at = at] \in Call
  BY <1>1 DEF Call
<1>3. call' = [call EXCEPT ![c] = [call[c] EXCEPT !.at = at]]
  BY DEF Goto
<1> QED
  BY <1>1, <1>2, <1>3 DEF TypeOK, Call

LEMMA ReturnMoves ==
    ASSUME TypeOK, NEW c \in Calls, Return(c)
    PROVE  /\ call' \in [Calls -> Call \cup {Idle}]
           /\ call'[c].at = "idle"
           /\ \A d \in Calls \ {c} : call'[d] = call[d]
  BY DEF TypeOK, Return, Idle

LEMMA BeginMoves ==
    ASSUME TypeOK, NEW c \in Calls, NEW at \in Waits \ {"idle"}, NEW p \in Places,
           NEW i \in Invitations \cup {NoInvitation}, Begin(c, at, p, i)
    PROVE  /\ call' \in [Calls -> Call \cup {Idle}]
           /\ call[c].at = "idle"
           /\ call'[c].at = at /\ call'[c].place = p /\ call'[c].inv = i
           /\ call'[c].row = removals[p]
           /\ \A d \in Calls \ {c} : call'[d] = call[d]
<1> DEFINE r == [at |-> at, place |-> p, inv |-> i, row |-> removals[p], overlapped |-> FALSE]
<1>1. r \in Call
  BY DEF TypeOK, Call
<1>2. call' = [call EXCEPT ![c] = r] /\ call[c].at = "idle"
  BY DEF Begin, Waiting
<1>3. r.at = at /\ r.place = p /\ r.inv = i /\ r.row = removals[p]
  OBVIOUS
<1> HIDE DEF r
<1> QED
  BY <1>1, <1>2, <1>3 DEF TypeOK

\* What the lookup of pending invitations makes of the calls.
LEMMA CheckMoves ==
    ASSUME TypeOK, NEW c \in Calls, CheckInvited(c)
    PROVE  /\ call' \in [Calls -> Call \cup {Idle}]
           /\ call[c].at = "invited"
           /\ \/ /\ call'[c].at = "idle"
                 /\ \A d \in Calls \ {c} : call'[d] = call[d]
              \/ /\ \A i \in Invitations : Invited[i] = call[c].place => status[i] # "pending"
                 /\ call'[c].at = "invite" /\ call'[c].place = call[c].place
                 /\ \A d \in Calls \ {c} :
                       /\ call'[d].at = call[d].at
                       /\ call[d].at # "idle" =>
                            /\ call'[d].place = call[d].place /\ call'[d].inv = call[d].inv
                            /\ call'[d].row = call[d].row
                            /\ call[d].overlapped => call'[d].overlapped
                       /\ call[d].at = "invite" /\ call[d].place = call[c].place =>
                            call'[d].overlapped /\ call'[c].overlapped
<1> DEFINE rivals == Inviting(c, call[c].place)
           r == [at |-> "invite", place |-> call[c].place, inv |-> NoInvitation,
                 row |-> call[c].row, overlapped |-> rivals # {}]
           set == [d \in Calls |->
                CASE d = c -> r
                  [] d \in rivals -> [call[d] EXCEPT !.overlapped = TRUE]
                  [] OTHER -> call[d]]
<1>1. call[c].at = "invited" /\ call[c] \in Call
  BY DEF CheckInvited, Waiting, TypeOK, Idle
<1>2. CASE \E i \in Invitations : Invited[i] = call[c].place /\ status[i] = "pending"
  BY <1>1, <1>2, ReturnMoves DEF CheckInvited
<1>3. CASE ~ \E i \in Invitations : Invited[i] = call[c].place /\ status[i] = "pending"
  <2>1. call' = set
    BY <1>3 DEF CheckInvited
  <2>2. rivals = {d \in Calls \ {c} : call[d].at = "invite" /\ call[d].place = call[c].place}
    BY DEF Inviting, Waiting
  <2>3. \A d \in rivals : call[d] \in Call /\ d \in Calls \ {c}
    BY <2>2 DEF TypeOK, Idle
  <2> HIDE DEF rivals, r
  <2>4. call'[c] = r
    BY <2>1, <2>3
  <2>5. \A d \in Calls \ {c} :
           call'[d] = IF d \in rivals THEN [call[d] EXCEPT !.overlapped = TRUE] ELSE call[d]
    BY <2>1
  <2>6. (rivals # {}) \in BOOLEAN
    OBVIOUS
  <2>7. /\ call'[c] \in Call /\ call'[c].at = "invite" /\ call'[c].place = call[c].place
        /\ call'[c].overlapped = (rivals # {})
    BY <1>1, <2>4, <2>6 DEF r, Call, Waits, Answers
  <2>8. \A d \in rivals :
           /\ call'[d] \in Call /\ call'[d].at = call[d].at /\ call'[d].place = call[d].place
           /\ call'[d].inv = call[d].inv /\ call'[d].row = call[d].row /\ call'[d].overlapped
    BY <2>3, <2>5 DEF Call
  <2>9. call' \in [Calls -> Call \cup {Idle}]
    <3>1. call' = [d \in Calls |-> call'[d]]
      BY <2>1
    <3>2. \A d \in Calls : call'[d] \in Call \cup {Idle}
      BY <2>5, <2>7, <2>8 DEF TypeOK
    <3> QED
      BY <3>1, <3>2
  <2>10. \A d \in Calls \ {c} : call[d].at = "invite" /\ call[d].place = call[c].place => d \in rivals
    BY <2>2
  <2> QED
    BY <1>1, <1>3, <2>5, <2>7, <2>8, <2>9, <2>10
<1> QED
  BY <1>2, <1>3

-----------------------------------------------------------------------------
(* Type correctness *)

LEMMA TypeInit == Init => TypeInv
<1> SUFFICES ASSUME Init PROVE TypeInv
    OBVIOUS
<1>1. \A c \in Calls : call[c].at = "idle"
  BY DEF Init, Idle
<1>2. TypeOK
  <2>1. call \in [Calls -> Call \cup {Idle}]
    BY DEF Init
  <2>2. status \in [Invitations -> Statuses] /\ \A i \in Invitations : status[i] \notin Existing
    BY DEF Init, Statuses, Existing, Answers
  <2>3. 0 \in 0..MaxRemovals
    BY GroupsAssumption
  <2>4. removals \in [Places -> 0..MaxRemovals] /\ issued \in [Invitations -> 0..MaxRemovals]
    BY <2>3 DEF Init
  <2> QED
    BY <2>1, <2>2, <2>4 DEF Init, TypeOK, Existing
<1> QED
  BY <1>1, <1>2 DEF TypeInv, CallsInv, KnowsPlace, OwnerInv, Responding, Answers

\* A call goes on and changes nothing that others know.
LEMMA TypeKept ==
    ASSUME TypeInv, NEW c \in Calls,
           call' \in [Calls -> Call \cup {Idle}],
           \A d \in Calls \ {c} : call'[d] = call[d],
           groups \subseteq groups', groups' \subseteq used', used \subseteq used', used' \subseteq Groups,
           members \subseteq members', members' \subseteq groups' \X Users,
           \A p \in members' \ members : p # OwnerPlace(p[1]),
           status' \in [Invitations -> Statuses],
           \A i \in Invitations : /\ status'[i] = "unused" => status[i] = "unused"
                                  /\ status'[i] \in Existing => Invited[i][1] \in groups,
           removals' = removals, issued' \in [Invitations -> 0..MaxRemovals],
           returns' \cup raced' \cup aborted' \subseteq Invitations,
           KnowsPlace(c)',
           call'[c].at \notin {"owner", "delete"}
    PROVE  TypeInv'
<1> USE DEF TypeInv
<1>1. TypeOK'
  BY DEF TypeOK, Existing
<1>2. CallsInv'
  <2> SUFFICES ASSUME NEW d \in Calls \ {c} PROVE KnowsPlace(d)'
      BY DEF CallsInv
  <2>1. KnowsPlace(d) /\ call'[d] = call[d]
    BY DEF CallsInv
  <2>2. call[d].at = "owner" => call[d].place \notin members'
    BY <2>1 DEF KnowsPlace, OwnerPlace
  <2> QED
    BY <2>1, <2>2 DEF KnowsPlace, Responding, Answers
<1>3. OwnerInv'
  BY DEF OwnerInv
<1> QED
  BY <1>1, <1>2, <1>3

LEMMA TypeStep == TypeInv /\ [Next]_vars => TypeInv'
<1> SUFFICES ASSUME TypeInv, [Next]_vars PROVE TypeInv'
    OBVIOUS
<1> USE DEF TypeInv
<1>1. CASE UNCHANGED vars
  BY <1>1 DEF vars, history, TypeOK, CallsInv, KnowsPlace, OwnerInv
<1>2. ASSUME NEW c \in Calls, Abort(c)
      PROVE  TypeInv'
  <2>1. call' \in [Calls -> Call \cup {Idle}] /\ call'[c].at = "idle"
        /\ \A d \in Calls \ {c} : call'[d] = call[d]
    BY <1>2, ReturnMoves DEF Abort
  <2>2. UNCHANGED <<groups, used, members, status, removals, issued, returns, raced>>
    BY <1>2 DEF Abort
  <2>3. aborted' \subseteq Invitations
    BY <1>2 DEF Abort, TypeOK, CallsInv, KnowsPlace, Responding
  <2>4. KnowsPlace(c)'
    BY <2>1 DEF KnowsPlace, Responding, Answers
  <2> QED
    BY <2>1, <2>2, <2>3, <2>4, TypeKept DEF TypeOK, Existing, Answers
<1>3. ASSUME NEW c \in Calls, NEW g \in Groups, CreateGroup(c, g)
      PROVE  TypeInv'
  <2>1. OwnerPlace(g) \in Places /\ OwnerPlace(g)[1] = g
    BY GroupsAssumption DEF OwnerPlace, Places
  <2>2. /\ call' \in [Calls -> Call \cup {Idle}] /\ call[c].at = "idle"
        /\ call'[c].at = "owner" /\ call'[c].place = OwnerPlace(g) /\ call'[c].inv = NoInvitation
        /\ \A d \in Calls \ {c} : call'[d] = call[d]
    BY <1>3, <2>1, BeginMoves DEF CreateGroup, Waits
  <2>3. /\ g \notin used /\ groups' = groups \cup {g} /\ used' = used \cup {g}
        /\ UNCHANGED <<members, status, removals, issued, returns, raced, aborted>>
    BY <1>3 DEF CreateGroup, history
  <2>4. TypeOK'
    BY <2>2, <2>3 DEF TypeOK
  <2>5. \A p \in members : p[1] # g
    BY <2>3 DEF TypeOK
  <2>6. CallsInv'
    BY <2>1, <2>2, <2>3, <2>5 DEF CallsInv, KnowsPlace, Responding, Answers
  <2>7. OwnerInv'
    BY <2>1, <2>2, <2>3 DEF OwnerInv, CallsInv, KnowsPlace
  <2> QED
    BY <2>4, <2>6, <2>7
<1>4. ASSUME NEW c \in Calls, AddOwner(c)
      PROVE  TypeInv'
  <2>1. call[c].at = "owner" /\ call[c].place[1] \in groups /\ call[c].place = OwnerPlace(call[c].place[1])
        /\ call[c].place \in Places
    BY <1>4 DEF AddOwner, Waiting, CallsInv, KnowsPlace, TypeOK, Call, Idle
  <2>2. /\ call' \in [Calls -> Call \cup {Idle}] /\ call'[c].at = "idle"
        /\ \A d \in Calls \ {c} : call'[d] = call[d]
    BY <1>4, ReturnMoves DEF AddOwner
  <2>3. /\ members' = members \cup {call[c].place}
        /\ UNCHANGED <<groups, used, status, removals, issued, returns, raced, aborted>>
    BY <1>4 DEF AddOwner, history
  <2>4. TypeOK'
    <3>1. members' \subseteq groups \X Users
      BY <2>1, <2>3 DEF TypeOK, Places
    <3> QED
      BY <2>2, <2>3, <3>1 DEF TypeOK
  <2>5. CallsInv'
    <3>1. \A d \in Calls : call'[d].at = "owner" => call'[d].place \notin members'
      BY <2>1, <2>2, <2>3 DEF OwnerInv, CallsInv, KnowsPlace
    <3> QED
      BY <2>2, <2>3, <3>1 DEF CallsInv, KnowsPlace, Responding, Answers
  <2>6. OwnerInv'
    BY <2>2 DEF OwnerInv
  <2> QED
    BY <2>4, <2>5, <2>6
<1>5. ASSUME NEW c \in Calls, NEW p \in Places, FindToInvite(c, p) \/ FindToRemove(c, p)
      PROVE  TypeInv'
  <2>1. PICK at \in {"invited", "remove"} : Begin(c, at, p, NoInvitation)
                                            /\ (at = "remove" => p # OwnerPlace(p[1]) /\ removals[p] < MaxRemovals)
                                            /\ p[1] \in groups
    BY <1>5 DEF FindToInvite, FindToRemove, TypeOK
  <2>2. /\ call' \in [Calls -> Call \cup {Idle}] /\ call[c].at = "idle"
        /\ call'[c].at = at /\ call'[c].place = p /\ call'[c].row = removals[p]
        /\ \A d \in Calls \ {c} : call'[d] = call[d]
    BY <2>1, BeginMoves DEF Waits
  <2>3. UNCHANGED <<groups, used, members, status, removals, issued, returns, raced, aborted>>
    BY <1>5 DEF FindToInvite, FindToRemove, history
  <2>4. KnowsPlace(c)'
    BY <2>1, <2>2, <2>3 DEF KnowsPlace, Responding, Answers, TypeOK
  <2> QED
    BY <2>2, <2>3, <2>4, TypeKept DEF TypeOK, Existing
<1>6. ASSUME NEW c \in Calls, CheckInvited(c)
      PROVE  TypeInv'
  <2>1. UNCHANGED <<groups, used, members, status, removals, issued, returns, raced, aborted>>
    BY <1>6 DEF CheckInvited, history
  <2>2. /\ call' \in [Calls -> Call \cup {Idle}] /\ call[c].at = "invited"
        /\ call'[c].at \in {"idle", "invite"}
        /\ call'[c].at # "idle" => call'[c].place = call[c].place
        /\ \A d \in Calls \ {c} :
             /\ call'[d].at = call[d].at
             /\ call[d].at # "idle" => /\ call'[d].place = call[d].place /\ call'[d].inv = call[d].inv
                                      /\ call'[d].row = call[d].row
    BY <1>6, CheckMoves
  <2>3. TypeOK'
    BY <2>1, <2>2 DEF TypeOK
  <2>4. CallsInv'
    BY <2>1, <2>2 DEF CallsInv, KnowsPlace, Responding, Answers
  <2>5. OwnerInv'
    BY <2>1, <2>2 DEF OwnerInv
  <2> QED
    BY <2>3, <2>4, <2>5
<1>7. ASSUME NEW c \in Calls, NEW i \in Invitations, Invite(c, i)
      PROVE  TypeInv'
  <2>1. /\ call' \in [Calls -> Call \cup {Idle}] /\ call'[c].at = "idle"
        /\ \A d \in Calls \ {c} : call'[d] = call[d]
    BY <1>7, ReturnMoves DEF Invite
  <2>2. /\ UNCHANGED <<groups, used, members, removals, returns, aborted>>
        /\ Invited[i][1] \in groups /\ Invited[i] \in Places
        /\ status' = [status EXCEPT ![i] = "pending"]
        /\ issued' = [issued EXCEPT ![i] = removals[Invited[i]]]
    BY <1>7, GroupsAssumption DEF Invite
  <2>3. status' \in [Invitations -> Statuses] /\ issued' \in [Invitations -> 0..MaxRemovals]
    BY <2>2 DEF TypeOK, Statuses
  <2>4. raced' \subseteq Invitations
    BY <1>7 DEF Invite, Answering, TypeOK, CallsInv, KnowsPlace, Responding
  <2>5. KnowsPlace(c)'
    BY <2>1 DEF KnowsPlace, Responding, Answers
  <2> QED
    BY <2>1, <2>2, <2>3, <2>4, <2>5, TypeKept DEF TypeOK, Existing
<1>8. ASSUME NEW c \in Calls, NEW i \in Invitations, NEW answer \in Answers, FindInvitation(c, i, answer)
      PROVE  TypeInv'
  <2>1. Invited[i] \in Places /\ Begin(c, answer, Invited[i], i) /\ status[i] = "pending"
        /\ Invited[i][1] \in used
    BY <1>8, GroupsAssumption DEF FindInvitation, TypeOK
  <2>2. /\ call' \in [Calls -> Call \cup {Idle}] /\ call[c].at = "idle"
        /\ call'[c].at = answer /\ call'[c].place = Invited[i] /\ call'[c].inv = i
        /\ \A d \in Calls \ {c} : call'[d] = call[d]
    <3>1. answer \in Waits \ {"idle"} /\ i \in Invitations \cup {NoInvitation}
      BY DEF Waits, Answers
    <3> QED
      BY <2>1, <3>1, BeginMoves
  <2>3. UNCHANGED <<groups, used, members, status, removals, issued, returns, aborted>>
    BY <1>8 DEF FindInvitation
  <2>4. raced' \subseteq Invitations
    BY <1>8 DEF FindInvitation, TypeOK
  <2>5. KnowsPlace(c)'
    BY <2>1, <2>2, <2>3 DEF KnowsPlace, Responding, Answers
  <2>6. call'[c].at \notin {"owner", "delete"}
    BY <2>2 DEF Answers
  <2> QED
    BY <2>2, <2>3, <2>4, <2>5, <2>6, TypeKept DEF TypeOK, Existing
<1>9. ASSUME NEW c \in Calls, SaveAnswer(c)
      PROVE  TypeInv'
  <2> DEFINE i == call[c].inv
  <2>1. /\ call[c].at \in Answers /\ i \in Invitations /\ call[c].place = Invited[i]
        /\ call[c].place[1] \in used /\ status[i] # "unused" /\ call[c].at # "idle"
    BY <1>9 DEF SaveAnswer, CallsInv, KnowsPlace, Responding, Answers
  <2>2. /\ call' \in [Calls -> Call \cup {Idle}]
        /\ \A d \in Calls \ {c} : call'[d] = call[d]
        /\ \/ call'[c].at = "idle"
           \/ call'[c].at = "joining" /\ call'[c].place = call[c].place /\ call'[c].inv = i
    BY <1>9, <2>1, GotoMoves, ReturnMoves DEF SaveAnswer, Waits
  <2>3. UNCHANGED <<groups, used, members, removals, issued, returns, raced, aborted>>
    BY <1>9 DEF SaveAnswer, history
  <2>4. status' = IF status[i] = "deleted" THEN status ELSE [status EXCEPT ![i] = call[c].at]
    BY <1>9 DEF SaveAnswer
  <2>5. /\ status' \in [Invitations -> Statuses]
        /\ \A j \in Invitations : /\ status'[j] = "unused" => status[j] = "unused"
                                  /\ status'[j] \in Existing => Invited[j][1] \in groups
    BY <2>1, <2>4 DEF TypeOK, Statuses, Answers, Existing
  <2>6. KnowsPlace(c)'
    BY <2>1, <2>2, <2>3, <2>5 DEF KnowsPlace, Responding, Answers
  <2>7. call'[c].at \notin {"owner", "delete"}
    BY <2>2
  <2> QED
    BY <2>2, <2>3, <2>5, <2>6, <2>7, TypeKept DEF TypeOK
<1>10. ASSUME NEW c \in Calls, ReadMembers(c)
      PROVE  TypeInv'
  <2>1. call[c].at = "joining" /\ KnowsPlace(c)
    BY <1>10 DEF ReadMembers, Waiting, CallsInv
  <2>2. /\ call' \in [Calls -> Call \cup {Idle}]
        /\ \A d \in Calls \ {c} : call'[d] = call[d]
        /\ \/ call'[c].at = "idle"
           \/ call'[c].at = "join" /\ call'[c].place = call[c].place /\ call'[c].inv = call[c].inv
    BY <1>10, <2>1, GotoMoves, ReturnMoves DEF ReadMembers, Waits
  <2>3. UNCHANGED <<groups, used, members, status, removals, issued, returns, raced, aborted>>
    BY <1>10 DEF ReadMembers, history
  <2>4. KnowsPlace(c)'
    BY <2>1, <2>2, <2>3 DEF KnowsPlace, Responding, Answers
  <2>5. call'[c].at \notin {"owner", "delete"}
    BY <2>2
  <2> QED
    BY <2>2, <2>3, <2>4, <2>5, TypeKept DEF TypeOK, Existing
<1>11. ASSUME NEW c \in Calls, Join(c)
      PROVE  TypeInv'
  <2>1. call[c].at = "join" /\ call[c].inv \in Invitations /\ call[c].place = Invited[call[c].inv]
    BY <1>11 DEF Join, Waiting, CallsInv, KnowsPlace, Responding
  <2>2. /\ call' \in [Calls -> Call \cup {Idle}] /\ call'[c].at = "idle"
        /\ \A d \in Calls \ {c} : call'[d] = call[d]
    BY <1>11, ReturnMoves DEF Join
  <2>3. UNCHANGED <<groups, used, status, removals, issued, raced, aborted>>
    BY <1>11 DEF Join
  <2>4. members \subseteq members' /\ members' \subseteq groups \X Users
        /\ members' \ members \subseteq {call[c].place}
    BY <1>11 DEF Join, TypeOK
  <2>5. returns' \subseteq Invitations
    BY <1>11, <2>1 DEF Join, TypeOK
  <2>6. \A q \in members' \ members : q # OwnerPlace(q[1])
    <3>1. \A j \in Invitations : Invited[j] # OwnerPlace(Invited[j][1])
      BY GroupsAssumption DEF OwnerPlace
    <3> QED
      BY <2>1, <2>4, <3>1
  <2>7. KnowsPlace(c)'
    BY <2>2 DEF KnowsPlace, Responding, Answers
  <2> QED
    BY <2>2, <2>3, <2>4, <2>5, <2>6, <2>7, TypeKept DEF TypeOK, Existing
<1>12. ASSUME NEW c \in Calls, Remove(c)
      PROVE  TypeInv'
  <2>1. /\ call' \in [Calls -> Call \cup {Idle}] /\ call'[c].at = "idle"
        /\ \A d \in Calls \ {c} : call'[d] = call[d]
    BY <1>12, ReturnMoves DEF Remove
  <2>2. UNCHANGED <<groups, used, status, issued, returns, raced, aborted>> /\ members' \subseteq members
    BY <1>12 DEF Remove, history
  <2>3. removals' \in [Places -> 0..MaxRemovals]
    <3> DEFINE p == call[c].place
    <3>1. p \in Places /\ call[c].row < MaxRemovals
      BY <1>12 DEF Remove, Waiting, TypeOK, Call, Idle, CallsInv, KnowsPlace
    <3>2. removals' = removals \/ (removals[p] < MaxRemovals /\ removals' = [removals EXCEPT ![p] = @ + 1])
      BY <1>12, <3>1 DEF Remove
    <3>3. removals[p] \in 0..MaxRemovals /\ removals \in [Places -> 0..MaxRemovals]
      BY <3>1 DEF TypeOK
    <3> QED
      BY <3>1, <3>2, <3>3, GroupsAssumption
  <2>4. TypeOK'
    BY <2>1, <2>2, <2>3 DEF TypeOK
  <2>5. CallsInv'
    BY <2>1, <2>2 DEF CallsInv, KnowsPlace, Responding, Answers
  <2>6. OwnerInv'
    BY <2>1 DEF OwnerInv
  <2> QED
    BY <2>4, <2>5, <2>6
<1>13. ASSUME NEW c \in Calls, NEW g \in Groups, FindToDelete(c, g)
      PROVE  TypeInv'
  <2>1. OwnerPlace(g) \in Places /\ OwnerPlace(g)[1] = g /\ OwnerPlace(g) \in members /\ g \in used
    BY <1>13, GroupsAssumption DEF FindToDelete, OwnerPlace, Places, TypeOK
  <2>2. /\ call' \in [Calls -> Call \cup {Idle}] /\ call[c].at = "idle"
        /\ call'[c].at = "delete" /\ call'[c].place = OwnerPlace(g)
        /\ \A d \in Calls \ {c} : call'[d] = call[d]
    BY <1>13, <2>1, BeginMoves DEF FindToDelete, Waits
  <2>3. UNCHANGED <<groups, used, members, status, removals, issued, returns, raced, aborted>>
    BY <1>13 DEF FindToDelete, history
  <2>4. TypeOK'
    BY <2>2, <2>3 DEF TypeOK
  <2>5. CallsInv'
    BY <2>1, <2>2, <2>3 DEF CallsInv, KnowsPlace, Responding, Answers
  <2>6. OwnerInv'
    BY <2>1, <2>2 DEF OwnerInv, CallsInv, KnowsPlace
  <2> QED
    BY <2>4, <2>5, <2>6
<1>14. ASSUME NEW c \in Calls, DeleteGroup(c)
      PROVE  TypeInv'
  <2> DEFINE g == call[c].place[1]
  <2>1. call[c].at = "delete" /\ call[c].place = OwnerPlace(g)
    BY <1>14 DEF DeleteGroup, Waiting, CallsInv, KnowsPlace
  <2>2. /\ call' \in [Calls -> Call \cup {Idle}] /\ call'[c].at = "idle"
        /\ \A d \in Calls \ {c} : call'[d] = call[d]
    BY <1>14, ReturnMoves DEF DeleteGroup
  <2>3. /\ groups' = groups \ {g} /\ members' = {p \in members : p[1] # g}
        /\ status' = [i \in Invitations |->
                        IF Invited[i][1] = g /\ status[i] # "unused" THEN "deleted" ELSE status[i]]
        /\ UNCHANGED <<used, removals, issued, returns, raced, aborted>>
    BY <1>14 DEF DeleteGroup, history
  <2>4. TypeOK'
    <3>1. members' \subseteq groups' \X Users
      BY <2>3 DEF TypeOK
    <3>2. status' \in [Invitations -> Statuses]
      BY <2>3 DEF TypeOK, Statuses
    <3>3. \A i \in Invitations : status'[i] \in Existing => Invited[i][1] \in groups'
      BY <2>3 DEF TypeOK, Existing, Answers
    <3> QED
      BY <2>2, <2>3, <3>1, <3>2, <3>3 DEF TypeOK, Existing
  <2>5. CallsInv'
    <3>1. \A d \in Calls \ {c} : call[d].at = "owner" => call[d].place[1] # g
      BY <2>1 DEF OwnerInv, CallsInv, KnowsPlace
    <3>2. \A i \in Invitations : status'[i] = "unused" => status[i] = "unused"
      BY <2>3
    <3> QED
      BY <2>2, <2>3, <3>1, <3>2 DEF CallsInv, KnowsPlace, Responding, Answers
  <2>6. OwnerInv'
    BY <2>2 DEF OwnerInv
  <2> QED
    BY <2>4, <2>5, <2>6
<1> QED
  BY <1>1, <1>2, <1>3, <1>4, <1>5, <1>6, <1>7, <1>8, <1>9, <1>10, <1>11, <1>12, <1>13, <1>14
  DEF Next, Start, Continue

\* Whatever calls overlap, the state is well-typed: in particular no member and no
\* invitation is without its group.
THEOREM TypeCorrect == Spec => []TypeOK
<1>1. TypeInv => TypeOK
  BY DEF TypeInv
<1> QED
  BY <1>1, TypeInit, TypeStep, PTL DEF Spec

-----------------------------------------------------------------------------
(* Who is invited, answers and is a member *)

\* Who is being let into a group is let in by its owner.
OwnersLetIn(c) ==
    call[c].at \in {"invited", "invite"} \cup Responding /\ call[c].place[1] \in groups =>
        OwnerPlace(call[c].place[1]) \in members
RowsInv == \A i \in Invitations : status[i] \in Existing => OwnerPlace(Invited[i][1]) \in members
StayInv == OwnerStays /\ (\A c \in Calls : OwnersLetIn(c)) /\ RowsInv

\* An invitation is not newer than its invitee's membership.
IssuedInv == \A i \in Invitations : issued[i] <= removals[Invited[i]]

\* The call c means to answer i; i is, or will be, answered.
IsAnswering(c, i) == call[c].at \in Responding /\ call[c].inv = i
Open(i) == status[i] = "pending" \/ \E c \in Calls : IsAnswering(c, i)

\* Of an invitation without a race, one call at a time answers, what it has
\* saved is what the row says, and the invitee is as when it was created.
OnceInv == \A i \in Invitations \ raced : \A c, d \in Calls : IsAnswering(c, i) /\ IsAnswering(d, i) => c = d
SaidInv ==
    \A i \in Invitations \ raced : \A c \in Calls : IsAnswering(c, i) =>
        /\ call[c].at \in Answers => status[i] \in {"deleted", "pending"}
        /\ call[c].at \notin Answers => status[i] \in {"deleted", "accepted"}
OpenInv ==
    \A i \in Invitations \ raced : Invited[i][1] \in groups /\ Open(i) =>
        /\ Invited[i] \notin members
        /\ removals[Invited[i]] = issued[i]
        /\ \A j \in Invitations \ {i} : Invited[j] = Invited[i] => ~Open(j)

\* Calls that invite at a time know of each other, and of what the other has sent.
RivalsInv ==
    \A c \in Calls : call[c].at = "invite" =>
        /\ \A d \in Calls \ {c} :
              call[d].at = "invite" /\ call[d].place = call[c].place => call[c].overlapped
        /\ \A i \in Invitations :
              status[i] = "pending" /\ Invited[i] = call[c].place => i \in raced /\ call[c].overlapped

PlaceInv == OnceInv /\ SaidInv /\ OpenInv /\ RivalsInv /\ NoReturnUninvited
GroupInv == StayInv /\ IssuedInv /\ AcceptedIsMember /\ PlaceInv

LEMMA GroupInit == Init => GroupInv
<1> SUFFICES ASSUME Init PROVE GroupInv
    OBVIOUS
<1>1. (\A c \in Calls : call[c].at = "idle") /\ members = {} /\ groups = {} /\ returns = {}
  BY DEF Init, Idle
<1>2. \A i \in Invitations : status[i] = "unused" /\ issued[i] = 0
  BY DEF Init
<1>3. \A i \in Invitations : Invited[i] \in Places
  BY GroupsAssumption
<1>4. IssuedInv
  BY <1>2, <1>3 DEF Init, IssuedInv
<1>5. StayInv
  BY <1>1, <1>2 DEF StayInv, OwnerStays, OwnersLetIn, RowsInv, Existing, Responding, Answers
<1>6. AcceptedIsMember
  BY <1>2 DEF AcceptedIsMember
<1>7. PlaceInv
  BY <1>1, <1>2 DEF PlaceInv, OnceInv, SaidInv, OpenInv, RivalsInv, NoReturnUninvited, Open,
       IsAnswering, Responding, Answers
<1> QED
  BY <1>4, <1>5, <1>6, <1>7 DEF GroupInv

\* A call goes on, begins or ends without touching a row, a member or a group.
LEMMA QuietKept ==
    ASSUME TypeInv, GroupInv, NEW c \in Calls,
           \A d \in Calls \ {c} : call'[d] = call[d],
           UNCHANGED <<groups, members, status, removals, issued, returns>>,
           raced' = raced, aborted \subseteq aborted',
           OwnersLetIn(c)', call'[c].at # "invite",
           call'[c].at \in Responding =>
              /\ call[c].at \in Responding /\ call'[c].inv = call[c].inv
              /\ call[c].at \in Answers <=> call'[c].at \in Answers,
           call[c].at \in {"joining", "join"} =>
              \/ call'[c].at \in {"joining", "join"} /\ call'[c].inv = call[c].inv
              \/ call[c].inv \in aborted'
              \/ Invited[call[c].inv] \in members
              \/ status[call[c].inv] # "accepted"
    PROVE  GroupInv'
<1> USE DEF GroupInv
<1>1. StayInv'
  BY DEF StayInv, OwnerStays, OwnersLetIn, RowsInv, OwnerPlace
<1>2. IssuedInv'
  BY DEF IssuedInv
<1>3. AcceptedIsMember'
  BY DEF AcceptedIsMember
<1>4. \A d \in Calls, i \in Invitations : IsAnswering(d, i)' => IsAnswering(d, i)
  BY DEF IsAnswering
<1>5. \A i \in Invitations : Open(i)' => Open(i)
  BY <1>4 DEF Open
<1>6. OnceInv' /\ SaidInv'
  BY <1>4 DEF OnceInv, SaidInv, PlaceInv, IsAnswering
<1>7. OpenInv'
  BY <1>5 DEF OpenInv, PlaceInv
<1>8. RivalsInv' /\ NoReturnUninvited'
  BY DEF RivalsInv, PlaceInv, NoReturnUninvited
<1> QED
  BY <1>1, <1>2, <1>3, <1>6, <1>7, <1>8 DEF PlaceInv

LEMMA QuietSteps ==
    ASSUME TypeInv, GroupInv, NEW c \in Calls,
           \/ Abort(c) \/ ReadMembers(c)
           \/ \E p \in Places : FindToInvite(c, p) \/ FindToRemove(c, p)
           \/ \E g \in Groups : FindToDelete(c, g)
    PROVE  GroupInv'
<1> USE DEF TypeInv
<1>1. CASE Abort(c)
  <2>1. call'[c].at = "idle" /\ \A d \in Calls \ {c} : call'[d] = call[d]
    BY <1>1, ReturnMoves DEF Abort
  <2>2. UNCHANGED <<groups, members, status, removals, issued, returns>> /\ raced' = raced
        /\ aborted' = aborted \cup (IF call[c].at \in {"joining", "join"} THEN {call[c].inv} ELSE {})
    BY <1>1 DEF Abort
  <2>3. OwnersLetIn(c)' /\ call'[c].at \notin Responding
    BY <2>1 DEF OwnersLetIn, Responding, Answers
  <2> QED
    BY <2>1, <2>2, <2>3, QuietKept
<1>2. CASE ReadMembers(c)
  <2>1. call[c].at = "joining" /\ KnowsPlace(c)
    BY <1>2 DEF ReadMembers, Waiting, CallsInv
  <2>2. /\ \A d \in Calls \ {c} : call'[d] = call[d]
        /\ \/ call'[c].at = "idle"
              /\ (Invited[call[c].inv] \in members \/ status[call[c].inv] # "accepted")
           \/ call'[c].at = "join" /\ call'[c].place = call[c].place /\ call'[c].inv = call[c].inv
    <3>1. CASE call[c].place[1] \in groups /\ call[c].place \notin members
      BY <1>2, <2>1, <3>1, GotoMoves DEF ReadMembers, Waits
    <3>2. CASE ~(call[c].place[1] \in groups /\ call[c].place \notin members)
      <4>1. call'[c].at = "idle" /\ \A d \in Calls \ {c} : call'[d] = call[d]
        BY <1>2, <3>2, ReturnMoves DEF ReadMembers
      <4> QED
        BY <2>1, <3>2, <4>1 DEF KnowsPlace, Responding, TypeOK, Answers
    <3> QED
      BY <3>1, <3>2
  <2>3. UNCHANGED <<groups, members, status, removals, issued, returns, raced, aborted>>
    BY <1>2 DEF ReadMembers, history
  <2>4. OwnersLetIn(c)'
    BY <2>1, <2>2, <2>3 DEF OwnersLetIn, Responding, Answers, GroupInv, StayInv, OwnerPlace
  <2>5. /\ call'[c].at # "invite"
        /\ call[c].at \in Responding /\ call[c].at \notin Answers /\ call'[c].at \notin Answers
        /\ call'[c].at \in Responding => call'[c].inv = call[c].inv
        /\ \/ call'[c].at \in {"joining", "join"} /\ call'[c].inv = call[c].inv
           \/ Invited[call[c].inv] \in members \/ status[call[c].inv] # "accepted"
    BY <2>1, <2>2 DEF Responding, Answers
  <2> QED
    BY <2>2, <2>3, <2>4, <2>5, QuietKept
<1>3. ASSUME NEW p \in Places, FindToInvite(c, p) \/ FindToRemove(c, p)
      PROVE  GroupInv'
  <2>1. PICK at \in {"invited", "remove"} : Begin(c, at, p, NoInvitation)
                                            /\ (at = "invited" => OwnerPlace(p[1]) \in members)
    BY <1>3 DEF FindToInvite, FindToRemove
  <2>2. /\ call[c].at = "idle" /\ call'[c].at = at /\ call'[c].place = p
        /\ \A d \in Calls \ {c} : call'[d] = call[d]
    BY <2>1, BeginMoves DEF Waits
  <2>3. UNCHANGED <<groups, members, status, removals, issued, returns, raced, aborted>>
    BY <1>3 DEF FindToInvite, FindToRemove, history
  <2>4. OwnersLetIn(c)' /\ call'[c].at \notin Responding
    BY <2>1, <2>2, <2>3 DEF OwnersLetIn, Responding, Answers, OwnerPlace
  <2> QED
    BY <2>2, <2>3, <2>4, QuietKept
<1>4. ASSUME NEW g \in Groups, FindToDelete(c, g)
      PROVE  GroupInv'
  <2>1. OwnerPlace(g) \in Places
    BY GroupsAssumption DEF OwnerPlace, Places
  <2>2. /\ call[c].at = "idle" /\ call'[c].at = "delete"
        /\ \A d \in Calls \ {c} : call'[d] = call[d]
    BY <1>4, <2>1, BeginMoves DEF FindToDelete, Waits
  <2>3. UNCHANGED <<groups, members, status, removals, issued, returns, raced, aborted>>
    BY <1>4 DEF FindToDelete, history
  <2>4. OwnersLetIn(c)' /\ call'[c].at \notin Responding
    BY <2>2 DEF OwnersLetIn, Responding, Answers
  <2> QED
    BY <2>2, <2>3, <2>4, QuietKept
<1> QED
  BY <1>1, <1>2, <1>3, <1>4

\* Groups and members come and go; the answering calls stay as they are.
LEMMA CreateKeeps ==
    ASSUME TypeInv, GroupInv, NEW c \in Calls, NEW g \in Groups, CreateGroup(c, g)
    PROVE  GroupInv'
<1> USE DEF TypeInv, GroupInv
<1>1. OwnerPlace(g) \in Places
  BY GroupsAssumption DEF OwnerPlace, Places
<1>2. /\ call[c].at = "idle" /\ call'[c].at = "owner"
      /\ \A d \in Calls \ {c} : call'[d] = call[d]
  BY <1>1, BeginMoves DEF CreateGroup, Waits
<1>3. /\ g \notin used /\ groups' = groups \cup {g}
      /\ UNCHANGED <<members, status, removals, issued, returns, raced, aborted>>
  BY DEF CreateGroup, history
<1>4. g \notin groups /\ \A d \in Calls : call[d].at # "idle" => call[d].place[1] # g
  BY <1>3 DEF TypeOK, CallsInv, KnowsPlace
<1>5. StayInv'
  BY <1>2, <1>3, <1>4 DEF StayInv, OwnerStays, OwnersLetIn, RowsInv, OwnerPlace, Responding, Answers
<1>6. \A d \in Calls, i \in Invitations : IsAnswering(d, i)' <=> IsAnswering(d, i)
  BY <1>2 DEF IsAnswering, Responding, Answers
<1>7. \A i \in Invitations : Open(i)' <=> Open(i)
  BY <1>3, <1>6 DEF Open
<1>8. \A i \in Invitations : Invited[i][1] = g => ~Open(i)
  BY <1>3, <1>4 DEF Open, IsAnswering, TypeOK, CallsInv, KnowsPlace, Responding, Answers
<1>9. OpenInv'
  BY <1>3, <1>7, <1>8 DEF OpenInv, PlaceInv
<1>10. OnceInv' /\ SaidInv' /\ RivalsInv' /\ NoReturnUninvited'
  <2>1. OnceInv'
    BY <1>3, <1>6 DEF OnceInv, PlaceInv
  <2>2. \A d \in Calls, i \in Invitations : IsAnswering(d, i) => call'[d] = call[d]
    BY <1>2 DEF IsAnswering, Responding, Answers
  <2>3. SaidInv'
    BY <1>3, <1>6, <2>2 DEF SaidInv, PlaceInv
  <2>4. RivalsInv'
    BY <1>2, <1>3 DEF RivalsInv, PlaceInv
  <2> QED
    BY <1>3, <2>1, <2>3, <2>4 DEF NoReturnUninvited, PlaceInv
<1>11. IssuedInv' /\ AcceptedIsMember'
  <2>1. \A d \in Calls : call[d].at \in {"joining", "join"} => call'[d] = call[d]
    BY <1>2
  <2> QED
    BY <1>3, <2>1 DEF IssuedInv, AcceptedIsMember
<1> QED
  BY <1>5, <1>9, <1>10, <1>11 DEF PlaceInv

\* The call c ends, and no row changes.
LEMMA EndsKept ==
    ASSUME TypeInv, GroupInv, NEW c \in Calls, call'[c].at = "idle",
           \A d \in Calls \ {c} : call'[d] = call[d], UNCHANGED <<status, raced>>
    PROVE  /\ OnceInv' /\ SaidInv' /\ RivalsInv'
           /\ \A i \in Invitations : Open(i)' => Open(i)
<1> USE DEF GroupInv, PlaceInv
<1>1. \A d \in Calls, i \in Invitations : IsAnswering(d, i)' => IsAnswering(d, i) /\ d # c
  BY DEF IsAnswering, Responding, Answers
<1>2. OnceInv'
  BY <1>1 DEF OnceInv
<1>3. SaidInv'
  BY <1>1 DEF SaidInv
<1>4. RivalsInv'
  BY DEF RivalsInv
<1> QED
  BY <1>1, <1>2, <1>3, <1>4 DEF Open

LEMMA AddOwnerKeeps ==
    ASSUME TypeInv, GroupInv, NEW c \in Calls, AddOwner(c)
    PROVE  GroupInv'
<1> USE DEF TypeInv, GroupInv
<1> DEFINE p == call[c].place
<1>1. call[c].at = "owner" /\ p = OwnerPlace(p[1]) /\ p[1] \in groups
  BY DEF AddOwner, Waiting, CallsInv, KnowsPlace
<1>2. call'[c].at = "idle" /\ \A d \in Calls \ {c} : call'[d] = call[d]
  BY ReturnMoves DEF AddOwner
<1>3. /\ members' = members \cup {p}
      /\ UNCHANGED <<groups, status, removals, issued, returns, raced, aborted>>
  BY DEF AddOwner, history
<1>4. \A i \in Invitations : Invited[i] # p
  BY <1>1, GroupsAssumption DEF OwnerPlace
<1>5. StayInv'
  <2>1. OwnerStays'
    BY <1>1, <1>3 DEF StayInv, OwnerStays, OwnerPlace
  <2>2. \A d \in Calls : OwnersLetIn(d)'
    BY <1>2, <1>3 DEF StayInv, OwnersLetIn, OwnerPlace, Responding, Answers
  <2>3. RowsInv'
    BY <1>3 DEF StayInv, RowsInv, OwnerPlace
  <2> QED
    BY <2>1, <2>2, <2>3 DEF StayInv
<1>6. AcceptedIsMember' /\ IssuedInv'
  <2>1. \A d \in Calls : call[d].at \in {"joining", "join"} => call'[d] = call[d]
    BY <1>1, <1>2
  <2> QED
    BY <1>3, <2>1 DEF AcceptedIsMember, IssuedInv
<1>7. OnceInv' /\ SaidInv' /\ RivalsInv' /\ \A i \in Invitations : Open(i)' => Open(i)
  BY <1>2, <1>3, EndsKept
<1>8. OpenInv'
  BY <1>3, <1>4, <1>7 DEF OpenInv, PlaceInv
<1>9. NoReturnUninvited'
  BY <1>3 DEF NoReturnUninvited, PlaceInv
<1> QED
  BY <1>5, <1>6, <1>7, <1>8, <1>9 DEF PlaceInv

LEMMA JoinKeeps ==
    ASSUME TypeInv, GroupInv, NEW c \in Calls, Join(c)
    PROVE  GroupInv'
<1> USE DEF TypeInv, GroupInv
<1>0. PICK j \in Invitations, p \in Places : j = call[c].inv /\ p = call[c].place
  BY GroupsAssumption DEF Join, Waiting, CallsInv, KnowsPlace, Responding
<1>1. call[c].at = "join" /\ p = Invited[j] /\ IsAnswering(c, j)
  BY <1>0 DEF Join, Waiting, CallsInv, KnowsPlace, Responding, IsAnswering
<1>2. call'[c].at = "idle" /\ \A d \in Calls \ {c} : call'[d] = call[d]
  BY ReturnMoves DEF Join
<1>3. /\ members' = members \cup ({p} \cap (groups \X Users))
      /\ returns' = IF p \in members' \ members /\ removals[p] # issued[j]
                    THEN returns \cup {j} ELSE returns
      /\ UNCHANGED <<groups, status, removals, issued, raced, aborted>>
  BY <1>0 DEF Join
<1>4. p \in members' \ members => p[1] \in groups
  BY <1>3
<1>5. StayInv'
  <2>1. p \in members' \ members => OwnerPlace(p[1]) \in members
    BY <1>0, <1>1, <1>4 DEF StayInv, OwnersLetIn, Responding
  <2>2. members' \subseteq members \cup {p} /\ members \subseteq members'
    BY <1>3
  <2>3. OwnerStays'
    BY <2>1, <2>2 DEF StayInv, OwnerStays, OwnerPlace
  <2>4. \A d \in Calls : OwnersLetIn(d)'
    BY <1>2, <1>3, <2>2 DEF StayInv, OwnersLetIn, OwnerPlace, Responding, Answers
  <2>5. RowsInv'
    BY <1>3, <2>2 DEF StayInv, RowsInv, OwnerPlace
  <2> QED
    BY <2>3, <2>4, <2>5 DEF StayInv
<1>6. AcceptedIsMember'
  <2> SUFFICES ASSUME NEW i \in Invitations \ (raced \cup aborted), status[i] = "accepted"
               PROVE  \/ Invited[i] \in members'
                      \/ removals[Invited[i]] > issued[i]
                      \/ \E d \in Calls : call'[d].at \in {"joining", "join"} /\ call'[d].inv = i
      BY <1>3 DEF AcceptedIsMember
  <2>1. CASE i = j
    <3>1. Invited[i] \in groups \X Users
      BY <2>1, GroupsAssumption DEF TypeOK, Answers, Places
    <3> QED
      BY <1>1, <1>3, <2>1, <3>1
  <2>2. CASE i # j
    <3>1. \A d \in Calls : call[d].at \in {"joining", "join"} /\ call[d].inv = i => call'[d] = call[d]
      BY <1>0, <1>2, <2>2
    <3> QED
      BY <1>3, <3>1 DEF AcceptedIsMember
  <2> QED
    BY <2>1, <2>2
<1>7. IssuedInv'
  BY <1>3 DEF IssuedInv
<1>8. OnceInv' /\ SaidInv' /\ RivalsInv' /\ \A i \in Invitations : Open(i)' => Open(i)
  BY <1>2, <1>3, EndsKept
<1>9. j \notin raced => ~Open(j)'
  <2>1. j \notin raced => status[j] # "pending"
    BY <1>1 DEF PlaceInv, SaidInv, Answers
  <2>2. \A d \in Calls : IsAnswering(d, j)' => IsAnswering(d, j) /\ d # c
    BY <1>2 DEF IsAnswering, Responding, Answers
  <2>3. j \notin raced => \A d \in Calls : ~IsAnswering(d, j)'
    BY <1>1, <2>2 DEF PlaceInv, OnceInv
  <2> QED
    BY <1>3, <2>1, <2>3 DEF Open
<1>10. Open(j)
  BY <1>1 DEF Open
<1>11. OpenInv'
  <2> SUFFICES ASSUME NEW i \in Invitations \ raced, Invited[i][1] \in groups, Open(i)'
               PROVE  /\ Invited[i] \notin members'
                      /\ removals[Invited[i]] = issued[i]
                      /\ \A k \in Invitations \ {i} : Invited[k] = Invited[i] => ~Open(k)'
      BY <1>3 DEF OpenInv
  <2>1. Open(i) /\ i # j
    BY <1>8, <1>9
  <2>2. /\ Invited[i] \notin members /\ removals[Invited[i]] = issued[i]
        /\ \A k \in Invitations \ {i} : Invited[k] = Invited[i] => ~Open(k)
    BY <2>1 DEF PlaceInv, OpenInv
  <2>3. Invited[i] # p
    BY <1>1, <1>10, <2>1, <2>2
  <2> QED
    BY <1>3, <1>8, <2>2, <2>3
<1>12. NoReturnUninvited'
  <2>1. (p \in members' \ members /\ j \notin raced) => removals[p] = issued[j]
    BY <1>1, <1>4, <1>10 DEF PlaceInv, OpenInv
  <2> QED
    BY <1>3, <2>1 DEF PlaceInv, NoReturnUninvited
<1> QED
  BY <1>5, <1>6, <1>7, <1>8, <1>11, <1>12 DEF PlaceInv

LEMMA RemoveKeeps ==
    ASSUME TypeInv, GroupInv, NEW c \in Calls, Remove(c)
    PROVE  GroupInv'
<1> USE DEF TypeInv, GroupInv
<1> DEFINE p == call[c].place
<1>1. call[c].at = "remove" /\ p # OwnerPlace(p[1]) /\ p \in Places
  BY DEF Remove, Waiting, CallsInv, KnowsPlace, TypeOK, Call, Idle
<1>2. call'[c].at = "idle" /\ \A d \in Calls \ {c} : call'[d] = call[d]
  BY ReturnMoves DEF Remove
<1>3. UNCHANGED <<groups, status, issued, returns, raced, aborted>>
  BY DEF Remove, history
<1>4. \/ UNCHANGED <<members, removals>>
      \/ /\ p \in members /\ members' = members \ {p}
         /\ removals' = [removals EXCEPT ![p] = @ + 1]
  BY DEF Remove
<1>5. (\A q \in Places : removals[q] \in Nat) /\ issued \in [Invitations -> Nat]
  BY GroupsAssumption DEF TypeOK
<1>6. /\ removals'[p] >= removals[p] /\ (members' # members => removals'[p] > removals[p])
      /\ \A q \in Places \ {p} : removals'[q] = removals[q]
      /\ \A q \in Places : removals'[q] \in Nat
      /\ p \notin members => removals'[p] = removals[p]
  BY <1>1, <1>4, <1>5 DEF TypeOK
<1>7. \A i \in Invitations : Invited[i] \in Places /\ issued[i] \in Nat
  BY <1>5, GroupsAssumption
<1>8. StayInv'
  <2>1. \A g : OwnerPlace(g) \in members => OwnerPlace(g) \in members'
    BY <1>1, <1>4 DEF OwnerPlace
  <2>2. members' \subseteq members
    BY <1>4
  <2>3. OwnerStays'
    BY <2>1, <2>2 DEF StayInv, OwnerStays, OwnerPlace
  <2>4. \A d \in Calls : OwnersLetIn(d)'
    BY <1>2, <1>3, <2>1 DEF StayInv, OwnersLetIn, OwnerPlace, Responding, Answers
  <2>5. RowsInv'
    BY <1>3, <2>1 DEF StayInv, RowsInv, OwnerPlace
  <2> QED
    BY <2>3, <2>4, <2>5 DEF StayInv
<1>9. IssuedInv'
  BY <1>1, <1>3, <1>5, <1>6, <1>7 DEF IssuedInv
<1>10. AcceptedIsMember'
  <2> SUFFICES ASSUME NEW i \in Invitations \ (raced \cup aborted), status[i] = "accepted"
               PROVE  \/ Invited[i] \in members'
                      \/ removals'[Invited[i]] > issued[i]
                      \/ \E d \in Calls : call'[d].at \in {"joining", "join"} /\ call'[d].inv = i
      BY <1>3 DEF AcceptedIsMember
  <2>1. CASE Invited[i] \in members /\ Invited[i] \notin members'
    <3>1. Invited[i] = p /\ members' # members /\ issued[i] <= removals[p]
      BY <1>4, <2>1 DEF IssuedInv
    <3> QED
      BY <1>1, <1>5, <1>6, <1>7, <3>1
  <2>2. CASE Invited[i] \in members'
    BY <2>2
  <2>3. CASE removals[Invited[i]] > issued[i]
    BY <1>1, <1>5, <1>6, <1>7, <2>3
  <2>4. CASE \E d \in Calls : call[d].at \in {"joining", "join"} /\ call[d].inv = i
    BY <1>1, <1>2, <2>4
  <2> QED
    BY <2>1, <2>2, <2>3, <2>4 DEF AcceptedIsMember
<1>11. OnceInv' /\ SaidInv' /\ RivalsInv' /\ \A i \in Invitations : Open(i)' => Open(i)
  BY <1>2, <1>3, EndsKept
<1>12. OpenInv'
  <2> SUFFICES ASSUME NEW i \in Invitations \ raced, Invited[i][1] \in groups, Open(i)'
               PROVE  /\ Invited[i] \notin members'
                      /\ removals'[Invited[i]] = issued[i]
                      /\ \A k \in Invitations \ {i} : Invited[k] = Invited[i] => ~Open(k)'
      BY <1>3 DEF OpenInv
  <2>1. /\ Invited[i] \notin members /\ removals[Invited[i]] = issued[i]
        /\ \A k \in Invitations \ {i} : Invited[k] = Invited[i] => ~Open(k)
    BY <1>11 DEF PlaceInv, OpenInv
  <2> QED
    BY <1>4, <1>6, <1>7, <1>11, <2>1
<1>13. NoReturnUninvited'
  BY <1>3 DEF PlaceInv, NoReturnUninvited
<1> QED
  BY <1>8, <1>9, <1>10, <1>11, <1>12, <1>13 DEF PlaceInv

LEMMA CheckKeeps ==
    ASSUME TypeInv, GroupInv, NEW c \in Calls, CheckInvited(c)
    PROVE  GroupInv'
<1> USE DEF TypeInv, GroupInv
<1>1. UNCHANGED <<groups, members, status, removals, issued, returns, raced, aborted>>
  BY DEF CheckInvited, history
<1>2. call[c].at = "invited" /\ call'[c].at \in {"idle", "invite"}
      /\ \A d \in Calls \ {c} : call'[d].at = call[d].at
  BY CheckMoves
<1>3. \A d \in Calls : call'[d].at \notin {"idle", "invite"} =>
         call'[d].place = call[d].place /\ call'[d].inv = call[d].inv /\ call'[d].at = call[d].at
  BY <1>2, CheckMoves
<1>4. \A d \in Calls : call'[d].at = "invite" =>
         call'[d].place = call[d].place /\ call[d].at \in {"invited", "invite"}
  BY <1>2, CheckMoves
<1>5. StayInv'
  BY <1>1, <1>3, <1>4 DEF StayInv, OwnerStays, OwnersLetIn, RowsInv, OwnerPlace, Responding, Answers
<1>6. IssuedInv'
  BY <1>1 DEF IssuedInv
<1>7. AcceptedIsMember'
  <2>1. \A d \in Calls : call[d].at \in {"joining", "join"} =>
           call'[d].at \in {"joining", "join"} /\ call'[d].inv = call[d].inv
    BY <1>2, <1>3
  <2> QED
    BY <1>1, <2>1 DEF AcceptedIsMember
<1>8. \A d \in Calls, i \in Invitations : IsAnswering(d, i)' => IsAnswering(d, i) /\ call'[d].at = call[d].at
  BY <1>3 DEF IsAnswering, Responding, Answers
<1>9. OnceInv'
  BY <1>1, <1>8 DEF OnceInv, PlaceInv
<1>10. SaidInv'
  BY <1>1, <1>8 DEF SaidInv, PlaceInv
<1>11. \A i \in Invitations : Open(i)' => Open(i)
  BY <1>1, <1>8 DEF Open
<1>12. OpenInv'
  BY <1>1, <1>11 DEF OpenInv, PlaceInv
<1>13. RivalsInv'
  <2>1. CASE call'[c].at = "idle"
    <3>1. \A d \in Calls \ {c} : call'[d] = call[d]
      BY <2>1, CheckMoves
    <3> QED
      BY <1>1, <2>1, <3>1 DEF RivalsInv, PlaceInv
  <2>2. CASE call'[c].at = "invite"
    <3>1. /\ \A i \in Invitations : Invited[i] = call[c].place => status[i] # "pending"
          /\ call'[c].place = call[c].place
          /\ \A d \in Calls \ {c} :
                /\ call'[d].at = call[d].at
                /\ call[d].at = "invite" =>
                     /\ call'[d].place = call[d].place
                     /\ call[d].overlapped => call'[d].overlapped
                     /\ call[d].place = call[c].place => call'[d].overlapped /\ call'[c].overlapped
      BY <2>2, CheckMoves
    <3> QED
      BY <1>1, <2>2, <3>1 DEF RivalsInv, PlaceInv
  <2> QED
    BY <1>2, <2>1, <2>2
<1>14. NoReturnUninvited'
  BY <1>1 DEF NoReturnUninvited, PlaceInv
<1> QED
  BY <1>5, <1>6, <1>7, <1>9, <1>10, <1>12, <1>13, <1>14 DEF PlaceInv

LEMMA InviteKeeps ==
    ASSUME TypeInv, GroupInv, NEW c \in Calls, NEW i \in Invitations, Invite(c, i)
    PROVE  GroupInv'
<1> USE DEF TypeInv, GroupInv
<1>1. call'[c].at = "idle" /\ \A d \in Calls \ {c} : call'[d] = call[d]
  BY ReturnMoves DEF Invite
<1>2. /\ call[c].at = "invite" /\ call[c].place = Invited[i] /\ Invited[i] \in Places
      /\ Invited[i][1] \in groups /\ status[i] = "unused"
      /\ UNCHANGED <<groups, members, removals, returns, aborted>>
      /\ status' = [status EXCEPT ![i] = "pending"]
      /\ issued' = [issued EXCEPT ![i] = removals[Invited[i]]]
  BY GroupsAssumption DEF Invite, Waiting
<1>3. /\ raced \subseteq raced'
      /\ \A d \in Calls \ {c} : call[d].at \in Responding /\ call[d].place = Invited[i] =>
            call[d].inv \in raced' /\ i \in raced'
      /\ (call[c].overlapped \/ Invited[i] \in members => i \in raced')
  BY <1>2 DEF Invite, Answering, Responding
<1>4. status'[i] = "pending" /\ issued'[i] = removals[Invited[i]]
      /\ \A j \in Invitations \ {i} : status'[j] = status[j] /\ issued'[j] = issued[j]
  BY <1>2 DEF TypeOK
<1>5. \A d \in Calls, j \in Invitations : IsAnswering(d, j)' => /\ IsAnswering(d, j) /\ d # c /\ j # i
                                                               /\ call'[d] = call[d]
                                                               /\ call[d].place = Invited[j]
  BY <1>1, <1>2 DEF IsAnswering, Responding, Answers, CallsInv, KnowsPlace
<1>6. StayInv'
  <2>1. OwnerPlace(Invited[i][1]) \in members
    BY <1>2 DEF StayInv, OwnersLetIn
  <2>2. OwnerStays' /\ RowsInv'
    BY <1>2, <1>4, <2>1 DEF StayInv, OwnerStays, RowsInv, OwnerPlace, Existing
  <2>3. \A d \in Calls : OwnersLetIn(d)'
    BY <1>1, <1>2 DEF StayInv, OwnersLetIn, OwnerPlace, Responding, Answers
  <2> QED
    BY <2>2, <2>3 DEF StayInv
<1>7. IssuedInv'
  <2>1. removals[Invited[i]] \in Nat
    BY <1>2, GroupsAssumption DEF TypeOK
  <2> QED
    BY <1>2, <1>4, <2>1 DEF IssuedInv
<1>8. AcceptedIsMember'
  <2>1. \A d \in Calls : call[d].at \in {"joining", "join"} => call'[d] = call[d]
    BY <1>1, <1>2
  <2> QED
    BY <1>2, <1>3, <1>4, <2>1 DEF AcceptedIsMember
<1>9. OnceInv'
  BY <1>3, <1>5 DEF OnceInv, PlaceInv
<1>10. SaidInv'
  BY <1>3, <1>4, <1>5 DEF SaidInv, PlaceInv
<1>11. \A j \in Invitations : j # i /\ Open(j)' => Open(j)
  BY <1>4, <1>5 DEF Open
<1>12. OpenInv'
  <2>1. ASSUME NEW k \in Invitations \ raced', Invited[k][1] \in groups, Open(k)', k # i
        PROVE  /\ Invited[k] \notin members
               /\ removals[Invited[k]] = issued'[k]
               /\ \A j \in Invitations \ {k} : Invited[j] = Invited[k] => ~Open(j)'
    <3>1. k \notin raced /\ Open(k)
      BY <1>3, <1>11, <2>1
    <3>2. /\ Invited[k] \notin members /\ removals[Invited[k]] = issued'[k]
          /\ \A j \in Invitations \ {k} : Invited[j] = Invited[k] => ~Open(j)
      BY <1>4, <2>1, <3>1 DEF PlaceInv, OpenInv
    <3>3. Invited[k] # Invited[i]
      <4>1. status[k] = "pending" => Invited[k] # Invited[i]
        BY <1>2, <3>1 DEF PlaceInv, RivalsInv
      <4>2. \A d \in Calls : IsAnswering(d, k)' => Invited[k] # Invited[i]
        BY <1>3, <1>5, <2>1 DEF IsAnswering
      <4> QED
        BY <1>4, <2>1, <4>1, <4>2 DEF Open
    <3> QED
      BY <1>11, <3>2, <3>3
  <2>2. ASSUME i \notin raced'
        PROVE  /\ Invited[i] \notin members
               /\ \A j \in Invitations \ {i} : Invited[j] = Invited[i] => ~Open(j)'
    <3>1. ~call[c].overlapped /\ Invited[i] \notin members
      BY <1>3, <2>2
    <3>2. \A j \in Invitations : Invited[j] = Invited[i] => status[j] # "pending"
      BY <1>2, <3>1 DEF PlaceInv, RivalsInv
    <3>3. \A d \in Calls, j \in Invitations : Invited[j] = Invited[i] => ~IsAnswering(d, j)'
      BY <1>3, <1>5, <2>2 DEF IsAnswering
    <3> QED
      BY <1>4, <3>1, <3>2, <3>3 DEF Open
  <2> QED
    BY <1>2, <1>4, <2>1, <2>2 DEF OpenInv
<1>13. RivalsInv'
  <2> SUFFICES ASSUME NEW d \in Calls, call'[d].at = "invite"
               PROVE  /\ \A e \in Calls \ {d} :
                            call'[e].at = "invite" /\ call'[e].place = call'[d].place => call'[d].overlapped
                      /\ \A k \in Invitations :
                            status'[k] = "pending" /\ Invited[k] = call'[d].place =>
                                k \in raced' /\ call'[d].overlapped
      BY DEF RivalsInv
  <2>1. d # c /\ call'[d] = call[d]
    BY <1>1
  <2>2. \A e \in Calls : call'[e].at = "invite" => call'[e] = call[e]
    BY <1>1
  <2>3. call[d].place = Invited[i] => call[d].overlapped /\ i \in raced'
    BY <1>2, <1>3, <2>1 DEF PlaceInv, RivalsInv
  <2> QED
    BY <1>3, <1>4, <2>1, <2>2, <2>3 DEF PlaceInv, RivalsInv
<1>14. NoReturnUninvited'
  BY <1>2, <1>3 DEF NoReturnUninvited, PlaceInv
<1> QED
  BY <1>6, <1>7, <1>8, <1>9, <1>10, <1>12, <1>13, <1>14 DEF PlaceInv

LEMMA FindInvitationKeeps ==
    ASSUME TypeInv, GroupInv, NEW c \in Calls, NEW i \in Invitations, NEW answer \in Answers,
           FindInvitation(c, i, answer)
    PROVE  GroupInv'
<1> USE DEF TypeInv, GroupInv
<1>1. Invited[i] \in Places /\ answer \in Waits \ {"idle"} /\ i \in Invitations \cup {NoInvitation}
  BY GroupsAssumption DEF Waits, Answers
<1>2. /\ call[c].at = "idle" /\ call'[c].at = answer /\ call'[c].place = Invited[i] /\ call'[c].inv = i
      /\ \A d \in Calls \ {c} : call'[d] = call[d]
  BY <1>1, BeginMoves DEF FindInvitation
<1>3. /\ status[i] = "pending" /\ UNCHANGED <<groups, members, status, removals, issued, returns, aborted>>
      /\ raced \subseteq raced'
      /\ \A d \in Calls : IsAnswering(d, i) => i \in raced'
  BY DEF FindInvitation, IsAnswering, Waiting, Responding, Answers
<1>4. \A d \in Calls, k \in Invitations : IsAnswering(d, k)' =>
         \/ IsAnswering(d, k) /\ call'[d] = call[d]
         \/ d = c /\ k = i
  BY <1>2 DEF IsAnswering
<1>5. StayInv'
  <2>1. OwnerPlace(Invited[i][1]) \in members
    BY <1>3 DEF StayInv, RowsInv, Existing
  <2>2. \A d \in Calls : OwnersLetIn(d)'
    BY <1>2, <1>3, <2>1 DEF StayInv, OwnersLetIn, OwnerPlace, Responding, Answers
  <2> QED
    BY <1>3, <2>2 DEF StayInv, OwnerStays, RowsInv, OwnerPlace
<1>6. IssuedInv'
  BY <1>3 DEF IssuedInv
<1>7. AcceptedIsMember'
  <2>1. \A d \in Calls : call[d].at \in {"joining", "join"} => call'[d] = call[d]
    BY <1>2
  <2> QED
    BY <1>3, <2>1 DEF AcceptedIsMember
<1>8. OnceInv'
  BY <1>3, <1>4 DEF OnceInv, PlaceInv
<1>9. SaidInv'
  BY <1>2, <1>3, <1>4 DEF SaidInv, PlaceInv
<1>10. \A k \in Invitations : Open(k)' => Open(k)
  BY <1>3, <1>4 DEF Open
<1>11. OpenInv'
  BY <1>3, <1>10 DEF OpenInv, PlaceInv
<1>12. RivalsInv'
  <2>1. \A d \in Calls : call'[d].at = "invite" => call'[d] = call[d]
    BY <1>2 DEF Answers
  <2> QED
    BY <1>3, <2>1 DEF RivalsInv, PlaceInv
<1>13. NoReturnUninvited'
  BY <1>3 DEF NoReturnUninvited, PlaceInv
<1> QED
  BY <1>5, <1>6, <1>7, <1>8, <1>9, <1>11, <1>12, <1>13 DEF PlaceInv

LEMMA SaveKeeps ==
    ASSUME TypeInv, GroupInv, NEW c \in Calls, SaveAnswer(c)
    PROVE  GroupInv'
<1> USE DEF TypeInv, GroupInv
<1>0. PICK i \in Invitations : i = call[c].inv
  BY DEF SaveAnswer, CallsInv, KnowsPlace, Responding
<1>1. /\ call[c].at \in Answers /\ call[c].at # "idle" /\ IsAnswering(c, i)
      /\ call[c].place = Invited[i] /\ status[i] # "unused"
  BY <1>0 DEF SaveAnswer, CallsInv, KnowsPlace, Responding, Answers, IsAnswering
<1>2. /\ \A d \in Calls \ {c} : call'[d] = call[d]
      /\ \/ call'[c].at = "idle" /\ (status[i] = "deleted" \/ call[c].at # "accepted")
         \/ /\ call'[c].at = "joining" /\ call'[c].place = Invited[i] /\ call'[c].inv = i
            /\ call[c].at = "accepted" /\ status[i] # "deleted"
  BY <1>0, <1>1, GotoMoves, ReturnMoves DEF SaveAnswer, Waits, Waiting
<1>3. /\ UNCHANGED <<groups, members, removals, issued, returns, raced, aborted>>
      /\ \A j \in Invitations \ {i} : status'[j] = status[j]
      /\ status'[i] = IF status[i] = "deleted" THEN "deleted" ELSE call[c].at
  BY <1>0 DEF SaveAnswer, history, TypeOK
<1>4. \A d \in Calls, k \in Invitations : IsAnswering(d, k)' => IsAnswering(d, k)
  BY <1>1, <1>2 DEF IsAnswering, Responding, Answers
<1>5. StayInv'
  <2>1. \A d \in Calls : OwnersLetIn(d)'
    BY <1>1, <1>2, <1>3 DEF StayInv, OwnersLetIn, OwnerPlace, Responding, Answers
  <2>2. \A j \in Invitations : status'[j] \in Existing => status[j] \in Existing
    BY <1>1, <1>3 DEF Existing, Answers, TypeOK, Statuses
  <2> QED
    BY <1>3, <2>1, <2>2 DEF StayInv, OwnerStays, RowsInv, OwnerPlace
<1>6. IssuedInv'
  BY <1>3 DEF IssuedInv
<1>7. AcceptedIsMember'
  <2>1. \A d \in Calls : call[d].at \in {"joining", "join"} => call'[d] = call[d]
    BY <1>1, <1>2 DEF Answers
  <2>2. status'[i] = "accepted" => call'[c].at = "joining" /\ call'[c].inv = i
    BY <1>1, <1>2, <1>3
  <2> QED
    BY <1>3, <2>1, <2>2 DEF AcceptedIsMember
<1>8. OnceInv'
  BY <1>3, <1>4 DEF OnceInv, PlaceInv
<1>9. SaidInv'
  <2> SUFFICES ASSUME NEW k \in Invitations \ raced, NEW d \in Calls, IsAnswering(d, k)'
               PROVE  /\ call'[d].at \in Answers => status'[k] \in {"deleted", "pending"}
                      /\ call'[d].at \notin Answers => status'[k] \in {"deleted", "accepted"}
      BY <1>3 DEF SaidInv
  <2>1. CASE d = c
    <3>1. k = i /\ call'[c].at = "joining"
      BY <1>2, <2>1 DEF IsAnswering, Responding, Answers
    <3> QED
      BY <1>2, <1>3, <2>1, <3>1 DEF Answers
  <2>2. CASE d # c
    <3>1. k # i
      BY <1>1, <1>4, <2>2 DEF PlaceInv, OnceInv
    <3> QED
      BY <1>2, <1>3, <1>4, <2>2, <3>1 DEF PlaceInv, SaidInv
  <2> QED
    BY <2>1, <2>2
<1>10. \A k \in Invitations : Open(k)' => Open(k)
  <2>1. \A k \in Invitations : status'[k] = "pending" => status[k] = "pending"
    BY <1>1, <1>3 DEF Answers
  <2> QED
    BY <1>4, <2>1 DEF Open
<1>11. OpenInv'
  BY <1>3, <1>10 DEF OpenInv, PlaceInv
<1>12. RivalsInv'
  <2>1. \A k \in Invitations : status'[k] = "pending" => status[k] = "pending"
    BY <1>1, <1>3 DEF Answers
  <2>2. \A d \in Calls : call'[d].at = "invite" => call'[d] = call[d]
    BY <1>2
  <2> QED
    BY <1>3, <2>1, <2>2 DEF RivalsInv, PlaceInv
<1>13. NoReturnUninvited'
  BY <1>3 DEF NoReturnUninvited, PlaceInv
<1> QED
  BY <1>5, <1>6, <1>7, <1>8, <1>9, <1>11, <1>12, <1>13 DEF PlaceInv

LEMMA DeleteGroupKeeps ==
    ASSUME TypeInv, GroupInv, NEW c \in Calls, DeleteGroup(c)
    PROVE  GroupInv'
<1> USE DEF TypeInv, GroupInv
<1>0. PICK g : g = call[c].place[1]
  OBVIOUS
<1>1. call[c].at = "delete"
  BY DEF DeleteGroup, Waiting
<1>2. call'[c].at = "idle" /\ \A d \in Calls \ {c} : call'[d] = call[d]
  BY ReturnMoves DEF DeleteGroup
<1>3. /\ groups' = groups \ {g} /\ members' = {p \in members : p[1] # g}
      /\ \A i \in Invitations : status'[i] = IF Invited[i][1] = g /\ status[i] # "unused"
                                             THEN "deleted" ELSE status[i]
      /\ UNCHANGED <<removals, issued, returns, raced, aborted>>
  BY <1>0 DEF DeleteGroup, history
<1>4. \A d \in Calls, k \in Invitations : IsAnswering(d, k)' => IsAnswering(d, k) /\ call'[d] = call[d]
  BY <1>2 DEF IsAnswering, Responding, Answers
<1>5. \A h : h # g => (OwnerPlace(h) \in members <=> OwnerPlace(h) \in members')
  BY <1>3 DEF OwnerPlace
<1>6. StayInv'
  <2>1. OwnerStays'
    BY <1>3, <1>5 DEF StayInv, OwnerStays
  <2>2. \A d \in Calls : OwnersLetIn(d)'
    BY <1>2, <1>3, <1>5 DEF StayInv, OwnersLetIn, Responding, Answers
  <2>3. RowsInv'
    BY <1>3, <1>5 DEF StayInv, RowsInv, Existing, Answers
  <2> QED
    BY <2>1, <2>2, <2>3 DEF StayInv
<1>7. IssuedInv'
  BY <1>3 DEF IssuedInv
<1>8. AcceptedIsMember'
  <2>1. \A d \in Calls : call[d].at \in {"joining", "join"} => call'[d] = call[d]
    BY <1>1, <1>2
  <2>2. \A i \in Invitations : status'[i] = "accepted" =>
           status[i] = "accepted" /\ Invited[i][1] # g
    BY <1>3
  <2> QED
    BY <1>3, <2>1, <2>2 DEF AcceptedIsMember
<1>9. OnceInv'
  BY <1>3, <1>4 DEF OnceInv, PlaceInv
<1>10. SaidInv'
  BY <1>3, <1>4 DEF SaidInv, PlaceInv
<1>11. \A k \in Invitations : Open(k)' => Open(k)
  BY <1>3, <1>4 DEF Open
<1>12. OpenInv'
  BY <1>3, <1>11 DEF OpenInv, PlaceInv
<1>13. RivalsInv'
  <2>1. \A k \in Invitations : status'[k] = "pending" => status[k] = "pending"
    BY <1>3
  <2>2. \A d \in Calls : call'[d].at = "invite" => call'[d] = call[d]
    BY <1>2
  <2> QED
    BY <1>3, <2>1, <2>2 DEF RivalsInv, PlaceInv
<1>14. NoReturnUninvited'
  BY <1>3 DEF NoReturnUninvited, PlaceInv
<1> QED
  BY <1>6, <1>7, <1>8, <1>9, <1>10, <1>12, <1>13, <1>14 DEF PlaceInv

LEMMA GroupStep == TypeInv /\ GroupInv /\ [Next]_vars => GroupInv'
<1> SUFFICES ASSUME TypeInv, GroupInv, [Next]_vars PROVE GroupInv'
    OBVIOUS
<1>1. CASE UNCHANGED vars
  <2>1. UNCHANGED <<groups, members, status, call, removals, issued, returns, raced, aborted>>
    BY <1>1 DEF vars, history
  <2>2. StayInv' /\ IssuedInv' /\ AcceptedIsMember'
    BY <2>1 DEF GroupInv, StayInv, OwnerStays, OwnersLetIn, RowsInv, IssuedInv, AcceptedIsMember
  <2>3. PlaceInv'
    BY <2>1 DEF GroupInv, PlaceInv, OnceInv, SaidInv, OpenInv, RivalsInv, NoReturnUninvited,
         Open, IsAnswering
  <2> QED
    BY <2>2, <2>3 DEF GroupInv
<1> QED
  BY <1>1, QuietSteps, CreateKeeps, AddOwnerKeeps, CheckKeeps, InviteKeeps, FindInvitationKeeps,
     SaveKeeps, JoinKeeps, RemoveKeeps, DeleteGroupKeeps DEF Next, Start, Continue

-----------------------------------------------------------------------------
(* Theorems *)

LEMMA Inductive == Spec => [](TypeInv /\ GroupInv)
  BY TypeInit, TypeStep, GroupInit, GroupStep, PTL DEF Spec

\* A group with members has its owner, whoever leaves, joins or is removed meanwhile.
THEOREM OwnersStay == Spec => []OwnerStays
<1>1. GroupInv => OwnerStays
  BY DEF GroupInv, StayInv
<1> QED
  BY <1>1, Inductive, PTL

\* An accepted invitation makes a member, unless the call that accepted it ended early
\* or invitations of the same user raced.
THEOREM AcceptedAreMembers == Spec => []AcceptedIsMember
<1>1. GroupInv => AcceptedIsMember
  BY DEF GroupInv
<1> QED
  BY <1>1, Inductive, PTL

\* Pending invitations are one per user, and of users who are not members, unless
\* the calls that sent or answered them raced.
THEOREM NeedlessAreRaced == Spec => []NoNeedlessInvitation
<1>1. TypeInv /\ GroupInv => NoNeedlessInvitation
  BY DEF TypeInv, TypeOK, GroupInv, PlaceInv, OpenInv, Open, NoNeedlessInvitation
<1> QED
  BY <1>1, Inductive, PTL

\* Nobody who was removed comes back with an older invitation, unless it raced.
THEOREM NoReturns == Spec => []NoReturnUninvited
<1>1. GroupInv => NoReturnUninvited
  BY DEF GroupInv, PlaceInv
<1> QED
  BY <1>1, Inductive, PTL

=============================================================================
