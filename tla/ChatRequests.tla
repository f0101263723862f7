---------------------------- MODULE ChatRequests ----------------------------
(***************************************************************************)
(* The life of a chat request in ChatService: created, answered, cancelled,*)
(* removed once accepted, or removed because its users blocked each other; *)
(* and the bookmarks (saved chats) that refer to it.                       *)
(*                                                                         *)
(* Every operation reads rows, decides, and writes by id later, outside a  *)
(* transaction.  A call is cut at its awaits; any worker may run any call. *)
(* save() of an entity looks its id up and updates the row, or inserts it  *)
(* if it is gone: one transaction, one step here.  remove() deletes by id, *)
(* and a missing row is no error.                                          *)
(*                                                                         *)
(* The accounts, and who may be found by name, are not modelled: a call    *)
(* refused for them changes nothing.                                       *)
(***************************************************************************)
EXTENDS FiniteSets, Naturals

CONSTANTS
    Users,
    Requests,   \* bound: the rows that can be created, each of a given pair
    Ends,       \* Ends[r]: <<fromUser, toUser>> of the row r
    Calls,      \* bound: calls under way at a time
    NoRequest,  \* a call that creates a request has no row yet
    NoUser      \* of an idle call

ASSUME RequestsAssumption ==
    /\ Ends \in [Requests -> {e \in Users \X Users : e[1] # e[2]}]
    /\ NoRequest \notin Requests
    /\ NoUser \notin Users

VARIABLES
    status,    \* status[r] of the row, "unused" before it and "deleted" after
    blocks,    \* pairs <<blocker, blocked>>
    saved,     \* saved_chats: pairs <<request, user>>
    call,      \* call[c]: how far the call c is
    told,      \* history: pairs <<request, answer>> sent by notifyChatResponse
    contested, \* history: requests that two calls meant to write at a time
    rivals     \* history: requests created by calls that checked for duplicates
               \* while another one was about to create

vars == <<status, blocks, saved, call, told, contested, rivals>>
history == <<told, contested, rivals>>

-----------------------------------------------------------------------------
Resolved == {"accepted", "rejected"}
Statuses == {"unused", "pending", "deleted"} \cup Resolved

\* Where a call waits: for the duplicate lookup or the insert of a request;
\* for isBlocked when it accepts or joins; for the save of an answer; for a
\* remove; for the lookup or the insert of a bookmark.
Waits == {"idle", "duplicates", "create", "accepting", "joining", "accepted", "rejected",
          "remove", "bookmarks", "bookmark"}

Call == [at : Waits, by : Users \cup {NoUser}, to : Users \cup {NoUser},
         req : Requests \cup {NoRequest}, rival : BOOLEAN]
Idle == [at |-> "idle", by |-> NoUser, to |-> NoUser, req |-> NoRequest, rival |-> FALSE]

Rows == {r \in Requests : status[r] \in {"pending"} \cup Resolved}

TypeOK ==
    /\ status \in [Requests -> Statuses]
    /\ blocks \subseteq Users \X Users
    /\ saved \subseteq Rows \X Users
    /\ call \in [Calls -> Call]
    /\ told \subseteq Requests \X Resolved
    /\ contested \cup rivals \subseteq Requests

IsBlocked(u, v) == <<u, v>> \in blocks \/ <<v, u>> \in blocks
Parties(r) == {Ends[r][1], Ends[r][2]}

Init ==
    /\ status = [r \in Requests |-> "unused"]
    /\ blocks = {}
    /\ saved = {}
    /\ call = [c \in Calls |-> Idle]
    /\ told = {}
    /\ contested = {}
    /\ rivals = {}

-----------------------------------------------------------------------------
Waiting(c, at) == call[c].at = at
Goto(c, at) == call' = [call EXCEPT ![c].at = at]
Return(c) == call' = [call EXCEPT ![c] = Idle]

\* Another call than c is about to write or delete the row r.
Busy(c, r) ==
    \E d \in Calls \ {c} :
        call[d].req = r /\ call[d].at \in {"accepting", "joining", "accepted", "rejected", "remove"}

\* A call of u has read the row r and goes on at a write or delete of it.
Found(c, u, r, at) ==
    /\ call' = [call EXCEPT ![c] = [@ EXCEPT !.at = at, !.by = u, !.req = r]]
    /\ contested' = IF Busy(c, r) THEN contested \cup {r} ELSE contested

\* Deleting a request deletes its bookmarks.
Delete(r) ==
    /\ status' = [status EXCEPT ![r] = IF r \in Rows THEN "deleted" ELSE @]
    /\ saved' = {b \in saved : b[1] # r}

-----------------------------------------------------------------------------
\* createRequest: the users have not blocked each other ...
StartCreate(c, u, v) ==
    /\ Waiting(c, "idle")
    /\ u # v
    /\ ~IsBlocked(u, v)
    /\ call' = [call EXCEPT ![c] = [@ EXCEPT !.at = "duplicates", !.by = u, !.to = v]]
    /\ UNCHANGED <<status, blocks, saved, history>>

\* Variant with a bug: the lookup is for requests that have been answered.
CheckSettledDuplicate(c) ==
    LET pair == <<call[c].by, call[c].to>> IN
    /\ Waiting(c, "duplicates")
    /\ IF \E r \in Rows : Ends[r] = pair /\ status[r] \in Resolved
         THEN Return(c)
         ELSE call' = [call EXCEPT ![c].at = "create",
                ![c].rival = \E d \in Calls : Waiting(d, "create")
                                              /\ <<call[d].by, call[d].to>> = pair]
    /\ UNCHANGED <<status, blocks, saved, history>>

\* ... there is no pending request in this direction ...
CheckDuplicate(c) ==
    LET pair == <<call[c].by, call[c].to>> IN
    /\ Waiting(c, "duplicates")
    /\ IF \E r \in Rows : Ends[r] = pair /\ status[r] = "pending"
         THEN Return(c)
         ELSE call' = [call EXCEPT ![c].at = "create",
                ![c].rival = \E d \in Calls : Waiting(d, "create")
                                              /\ <<call[d].by, call[d].to>> = pair]
    /\ UNCHANGED <<status, blocks, saved, history>>

\* ... and it is inserted.  No unique key stands in the way.
Create(c, r) ==
    /\ Waiting(c, "create")
    /\ status[r] = "unused"
    /\ Ends[r] = <<call[c].by, call[c].to>>
    /\ status' = [status EXCEPT ![r] = "pending"]
    /\ rivals' = IF call[c].rival THEN rivals \cup {r} ELSE rivals
    /\ Return(c)
    /\ UNCHANGED <<blocks, saved, told, contested>>

-----------------------------------------------------------------------------
\* Variant with a bug: a request may be answered again.
FindAnyToRespond(c, r, answer) ==
    /\ Waiting(c, "idle")
    /\ r \in Rows
    /\ Found(c, Ends[r][2], r, answer)
    /\ UNCHANGED <<status, blocks, saved, told, rivals>>

\* respondToRequest by the recipient: to accept asks isBlocked first, to
\* reject saves at once.
FindToRespond(c, r, answer) ==
    /\ Waiting(c, "idle")
    /\ status[r] = "pending"
    /\ Found(c, Ends[r][2], r, answer)
    /\ UNCHANGED <<status, blocks, saved, told, rivals>>

\* The recipient accepts, or a party joins the room: a block has the request
\* removed, and the call fails.
CheckBlock(c) ==
    /\ call[c].at \in {"accepting", "joining"}
    /\ IF IsBlocked(Ends[call[c].req][1], Ends[call[c].req][2]) THEN Goto(c, "remove")
       ELSE IF Waiting(c, "accepting") THEN Goto(c, "accepted") ELSE Return(c)
    /\ UNCHANGED <<status, blocks, saved, history>>

\* Variant with a bug: the parties are told the opposite.
AnswerInvertedTold(c) ==
    LET r == call[c].req IN
    /\ call[c].at \in Resolved
    /\ status' = [status EXCEPT ![r] = call[c].at]
    /\ told' = told \cup {<<r, IF Waiting(c, "rejected") THEN "accepted" ELSE "rejected">>}
    /\ Return(c)
    /\ UNCHANGED <<blocks, saved, contested, rivals>>

\* The answer is saved, on whatever row there is now, and both are told.
Answer(c) ==
    LET r == call[c].req IN
    /\ call[c].at \in Resolved
    /\ status' = [status EXCEPT ![r] = call[c].at]
    /\ told' = told \cup {<<r, call[c].at>>}
    /\ Return(c)
    /\ UNCHANGED <<blocks, saved, contested, rivals>>

\* cancelRequest by the sender.
FindToCancel(c, r) ==
    /\ Waiting(c, "idle")
    /\ status[r] = "pending"
    /\ Found(c, Ends[r][1], r, "remove")
    /\ UNCHANGED <<status, blocks, saved, told, rivals>>

\* removeAcceptedChat by a party, up to the end of forceCloseRoom.
FindToRemove(c, r) ==
    /\ Waiting(c, "idle")
    /\ status[r] = "accepted"
    /\ \E u \in Parties(r) : Found(c, u, r, "remove")
    /\ UNCHANGED <<status, blocks, saved, told, rivals>>

\* getAcceptedRoomForUser: a party joins.
FindToJoin(c, r) ==
    /\ Waiting(c, "idle")
    /\ status[r] = "accepted"
    /\ \E u \in Parties(r) : Found(c, u, r, "joining")
    /\ UNCHANGED <<status, blocks, saved, told, rivals>>

\* Variant with a bug: the bookmarks stay.
RemoveWithoutCascade(c) ==
    /\ Waiting(c, "remove")
    /\ status' = [status EXCEPT ![call[c].req] = "deleted"]
    /\ Return(c)
    /\ UNCHANGED <<saved, blocks, history>>

\* The request is deleted, if it still is there, whatever its status is now.
Remove(c) ==
    /\ Waiting(c, "remove")
    /\ Delete(call[c].req)
    /\ Return(c)
    /\ UNCHANGED <<blocks, history>>

-----------------------------------------------------------------------------
\* Variant with a bug: any request may be bookmarked.
FindAnyToSave(c, u, r) ==
    /\ Waiting(c, "idle")
    /\ r \in Rows
    /\ u \in Parties(r)
    /\ call' = [call EXCEPT ![c] = [@ EXCEPT !.at = "bookmarks", !.by = u, !.req = r]]
    /\ UNCHANGED <<status, blocks, saved, history>>

\* saveChat: the chat is accepted ...
FindToSave(c, u, r) ==
    /\ Waiting(c, "idle")
    /\ status[r] = "accepted"
    /\ u \in Parties(r)
    /\ call' = [call EXCEPT ![c] = [@ EXCEPT !.at = "bookmarks", !.by = u, !.req = r]]
    /\ UNCHANGED <<status, blocks, saved, history>>

\* ... and not yet saved by the user ...
FindSaved(c) ==
    /\ Waiting(c, "bookmarks")
    /\ IF <<call[c].req, call[c].by>> \in saved THEN Return(c) ELSE Goto(c, "bookmark")
    /\ UNCHANGED <<status, blocks, saved, history>>

\* ... so it is inserted: refused without the request, or by the unique key.
SaveChat(c) ==
    /\ Waiting(c, "bookmark")
    /\ saved' = saved \cup ({<<call[c].req, call[c].by>>} \cap (Rows \X Users))
    /\ Return(c)
    /\ UNCHANGED <<status, blocks, history>>

\* deleteSavedChat: only the remove of a row that still exists has an effect.
DeleteSavedChat(b) ==
    /\ b \in saved
    /\ saved' = saved \ {b}
    /\ UNCHANGED <<status, blocks, call, history>>

BlockUser(u, v) ==
    /\ u # v
    /\ blocks' = blocks \cup {<<u, v>>}
    /\ UNCHANGED <<status, saved, call, history>>

UnblockUser(u, v) ==
    /\ blocks' = blocks \ {<<u, v>>}
    /\ UNCHANGED <<status, saved, call, history>>

-----------------------------------------------------------------------------
Start(c) ==
    \/ \E u, v \in Users : StartCreate(c, u, v)
    \/ \E r \in Requests :
         \/ \E answer \in {"accepting", "rejected"} : FindToRespond(c, r, answer)
         \/ FindToCancel(c, r) \/ FindToRemove(c, r) \/ FindToJoin(c, r)
         \/ \E u \in Users : FindToSave(c, u, r)

Continue(c) ==
    \/ CheckDuplicate(c) \/ \E r \in Requests : Create(c, r)
    \/ CheckBlock(c) \/ Answer(c) \/ Remove(c)
    \/ FindSaved(c) \/ SaveChat(c)

Next ==
    \/ \E c \in Calls : Start(c) \/ Continue(c)
    \/ \E b \in saved : DeleteSavedChat(b)
    \/ \E u, v \in Users : BlockUser(u, v) \/ UnblockUser(u, v)

Spec == Init /\ [][Next]_vars

-----------------------------------------------------------------------------
(* Properties *)

\* "You already have a pending request to this user": chat.service.ts:89.
\* Two pending requests in one direction come only of two calls that looked
\* for duplicates before either had inserted.
OnePendingButForRivals ==
    \A r, q \in Requests :
        (r # q /\ Ends[r] = Ends[q] /\ status[r] = "pending" /\ status[q] = "pending")
            => {r, q} \cap rivals # {}

\* What may happen to a request: an answer is final but for removal, a
\* rejection stays, what is gone stays gone.
LegalStep(old, new) ==
    \/ old = new
    \/ old = "unused"   /\ new = "pending"
    \/ old = "pending"  /\ new \in Resolved \cup {"deleted"}
    \/ old = "accepted" /\ new = "deleted"

\* A request leaves this path only if two calls that found it were under way
\* at a time: an answer that overlaps with a cancellation inserts the
\* cancelled request again, two answers overwrite each other, and a
\* cancellation deletes a request that has been accepted meanwhile.
Lifecycle ==
    [][\A r \in Requests \ contested : LegalStep(status[r], status'[r])]_vars

\* But for the same races, what both parties are told of a request is true as
\* long as the row exists, and they are never told two things.
AnswersTrue ==
    \A t \in told : t[1] \notin contested => status[t[1]] \in {t[2], "deleted"}

\* But for the same races only an accepted chat is bookmarked, although the
\* insert comes two lookups after the check and the chat may have been
\* removed in between.
SavedIsAccepted == \A b \in saved : b[1] \notin contested => status[b[1]] = "accepted"

=============================================================================
