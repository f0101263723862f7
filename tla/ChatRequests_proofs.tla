------------------------ MODULE ChatRequests_proofs ------------------------
(***************************************************************************)
(* Proofs about ChatRequests, for any users and requests and any number of *)
(* calls under way at a time; and about RoomPresence, the room of a chat,  *)
(* for any number of sockets of its two parties and of events on their way.*)
(***************************************************************************)
EXTENDS ChatRequests, RoomPresence, SequenceTheorems, TLAPS

LEMMA IdleIsCall == Idle \in Call
  BY DEF Idle, Call, Waits

\* Who waits for anything but a request to be created has read its row.
HasRow ==
    \A c \in Calls : call[c].at \notin {"idle", "duplicates", "create"} => call[c].req \in Requests

TypeInv == TypeOK /\ HasRow

LEMMA InitType == Init => TypeInv
  BY IdleIsCall DEF Init, TypeInv, TypeOK, HasRow, Statuses, Rows, Idle

\* What the helpers of the actions do to the calls.
LEMMA ReturnType ==
    ASSUME TypeInv, NEW c \in Calls, Return(c)
    PROVE  call' \in [Calls -> Call] /\ HasRow'
  BY IdleIsCall DEF Return, TypeInv, TypeOK, HasRow, Idle

LEMMA GotoType ==
    ASSUME TypeInv, NEW c \in Calls, NEW at \in Waits, Goto(c, at),
           call[c].at \notin {"idle", "duplicates", "create"}
    PROVE  call' \in [Calls -> Call] /\ HasRow'
  BY DEF Goto, TypeInv, TypeOK, HasRow, Call

LEMMA FoundType ==
    ASSUME TypeInv, NEW c \in Calls, NEW u \in Users, NEW r \in Requests, NEW at \in Waits,
           Found(c, u, r, at)
    PROVE  call' \in [Calls -> Call] /\ HasRow' /\ contested' \subseteq Requests
  BY DEF Found, TypeInv, TypeOK, HasRow, Call

LEMMA PartiesAreUsers ==
    ASSUME NEW r \in Requests
    PROVE  /\ Ends[r][1] \in Users /\ Ends[r][2] \in Users
           /\ Parties(r) \subseteq Users
  BY RequestsAssumption DEF Parties

LEMMA TypeStep == TypeInv /\ [Next]_vars => TypeInv'
<1> SUFFICES ASSUME TypeInv, [Next]_vars PROVE TypeInv'
    OBVIOUS
<1> USE PartiesAreUsers
<1> USE DEF TypeInv
<1>1. ASSUME NEW c \in Calls, NEW u \in Users, NEW v \in Users, StartCreate(c, u, v)
      PROVE  TypeInv'
  <2>1. call' \in [Calls -> Call] /\ HasRow'
    BY <1>1 DEF StartCreate, TypeOK, HasRow, Call, Waits
  <2> QED
    BY <1>1, <2>1 DEF StartCreate, TypeOK, Rows, history
<1>2. ASSUME NEW c \in Calls, NEW r \in Requests, NEW answer \in {"accepting", "rejected"},
             FindToRespond(c, r, answer)
      PROVE  TypeInv'
  <2>1. answer \in Waits
    BY DEF Waits
  <2> QED
    BY <1>2, <2>1, FoundType DEF FindToRespond, TypeOK, Rows
<1>3. ASSUME NEW c \in Calls, NEW r \in Requests,
             FindToCancel(c, r) \/ FindToRemove(c, r) \/ FindToJoin(c, r)
      PROVE  TypeInv'
  <2>1. {"remove", "joining"} \subseteq Waits
    BY DEF Waits
  <2> QED
    BY <1>3, <2>1, FoundType DEF FindToCancel, FindToRemove, FindToJoin, TypeOK, Rows
<1>4. ASSUME NEW c \in Calls, NEW u \in Users, NEW r \in Requests, FindToSave(c, u, r)
      PROVE  TypeInv'
  <2>1. call' \in [Calls -> Call] /\ HasRow'
    BY <1>4 DEF FindToSave, TypeOK, HasRow, Call, Waits
  <2> QED
    BY <1>4, <2>1 DEF FindToSave, TypeOK, Rows, history
<1>5. ASSUME NEW c \in Calls, CheckDuplicate(c) PROVE TypeInv'
  <2>1. call' \in [Calls -> Call] /\ HasRow'
    <3>1. CASE Return(c)
      BY <3>1, ReturnType
    <3>2. CASE ~Return(c)
      BY <1>5, <3>2 DEF CheckDuplicate, TypeOK, HasRow, Call, Waits
    <3> QED
      BY <3>1, <3>2
  <2> QED
    BY <1>5, <2>1 DEF CheckDuplicate, TypeOK, Rows, history
<1>6. ASSUME NEW c \in Calls, NEW r \in Requests, Create(c, r) PROVE TypeInv'
  <2>1. status' \in [Requests -> Statuses] /\ Rows \subseteq Rows'
    BY <1>6 DEF Create, TypeOK, Rows, Statuses
  <2> QED
    BY <1>6, <2>1, ReturnType DEF Create, TypeOK
<1>7. ASSUME NEW c \in Calls, CheckBlock(c) PROVE TypeInv'
  <2>1. {"remove", "accepted"} \subseteq Waits
    BY DEF Waits
  <2>2. call' \in [Calls -> Call] /\ HasRow'
    BY <1>7, <2>1, ReturnType, GotoType DEF CheckBlock
  <2> QED
    BY <1>7, <2>2 DEF CheckBlock, TypeOK, Rows, history
<1>8. ASSUME NEW c \in Calls, Answer(c) PROVE TypeInv'
  <2>1. call[c].req \in Requests /\ call[c].at \in Resolved
    BY <1>8 DEF Answer, HasRow, Resolved
  <2>2. status' \in [Requests -> Statuses] /\ Rows \subseteq Rows'
    BY <1>8, <2>1 DEF Answer, TypeOK, Rows, Statuses
  <2> QED
    BY <1>8, <2>1, <2>2, ReturnType DEF Answer, TypeOK
<1>9. ASSUME NEW c \in Calls, Remove(c) PROVE TypeInv'
  <2>1. status' \in [Requests -> Statuses] /\ Rows \ {call[c].req} \subseteq Rows'
    BY <1>9 DEF Remove, Delete, TypeOK, Rows, Statuses
  <2>2. saved' \subseteq Rows' \X Users
    BY <1>9, <2>1 DEF Remove, Delete, TypeOK
  <2> QED
    BY <1>9, <2>1, <2>2, ReturnType DEF Remove, TypeOK, history
<1>10. ASSUME NEW c \in Calls, FindSaved(c) PROVE TypeInv'
  <2>1. "bookmark" \in Waits
    BY DEF Waits
  <2>2. call' \in [Calls -> Call] /\ HasRow'
    BY <1>10, <2>1, ReturnType, GotoType DEF FindSaved, Waiting
  <2> QED
    BY <1>10, <2>2 DEF FindSaved, TypeOK, Rows, history
<1>11. ASSUME NEW c \in Calls, SaveChat(c) PROVE TypeInv'
  BY <1>11, ReturnType DEF SaveChat, TypeOK, Rows, history
<1>12. ASSUME NEW b \in saved, DeleteSavedChat(b) PROVE TypeInv'
  BY <1>12 DEF DeleteSavedChat, TypeOK, HasRow, Rows, history
<1>13. ASSUME NEW u \in Users, NEW v \in Users, BlockUser(u, v) \/ UnblockUser(u, v)
       PROVE  TypeInv'
  BY <1>13 DEF BlockUser, UnblockUser, TypeOK, HasRow, Rows, history
<1>14. CASE UNCHANGED vars
  BY <1>14 DEF vars, TypeOK, HasRow, Rows
<1> QED
  BY <1>1, <1>2, <1>3, <1>4, <1>5, <1>6, <1>7, <1>8, <1>9, <1>10, <1>11, <1>12, <1>13, <1>14
     DEF Next, Start, Continue

\* Type correctness, and that an answer or a removal under way is of a row.
THEOREM TypeCorrect == Spec => []TypeOK
<1>1. TypeInv => TypeOK
  BY DEF TypeInv
<1> QED
  BY <1>1, InitType, TypeStep, PTL DEF Spec

LEMMA TypeInvariant == Spec => []TypeInv
  BY InitType, TypeStep, PTL DEF Spec

-----------------------------------------------------------------------------
(* Requests that no two calls meant to write at a time *)

Writing == {"accepting", "joining", "accepted", "rejected", "remove"}
Saving == {"bookmarks", "bookmark"}

\* Of an uncontested request only one call is about to write.
Exclusive ==
    \A c, d \in Calls :
        (c # d /\ {call[c].at, call[d].at} \subseteq Writing /\ call[c].req = call[d].req)
            => call[c].req \in contested

\* ... so what that call has read of it still holds.
ReadHolds ==
    \A c \in Calls : call[c].req \notin contested =>
        /\ call[c].at \in {"accepting", "accepted", "rejected"} => status[call[c].req] = "pending"
        /\ call[c].at = "joining" => status[call[c].req] = "accepted"
        /\ call[c].at = "remove" => status[call[c].req] \in {"pending", "accepted"}
        /\ call[c].at \in Saving => status[call[c].req] \in {"accepted", "deleted"}

ChatsInv ==
    /\ TypeInv
    /\ Exclusive
    /\ ReadHolds
    /\ AnswersTrue
    /\ SavedIsAccepted

LEMMA ChatsInit == Init => ChatsInv
<1> SUFFICES ASSUME Init PROVE ChatsInv
    OBVIOUS
<1>1. \A c \in Calls : call[c].at = "idle"
  BY DEF Init, Idle
<1> QED
  BY <1>1, InitType
     DEF Init, ChatsInv, Exclusive, ReadHolds, AnswersTrue, SavedIsAccepted, Writing, Saving

\* A call that finds a request contests it, or is the only one to write it.
LEMMA FoundKeeps ==
    ASSUME ChatsInv, NEW c \in Calls, NEW u \in Users, NEW r \in Requests,
           NEW at \in {"accepting", "joining", "rejected", "remove"},
           Found(c, u, r, at), UNCHANGED <<status, saved, told>>,
           at \in {"accepting", "rejected"} => status[r] = "pending",
           at = "joining" => status[r] = "accepted",
           at = "remove" => status[r] \in {"pending", "accepted"}
    PROVE  Exclusive' /\ ReadHolds' /\ AnswersTrue' /\ SavedIsAccepted'
<1> USE DEF ChatsInv, TypeInv, TypeOK
<1>1. /\ call'[c].at = at /\ call'[c].req = r
      /\ \A d \in Calls \ {c} : call'[d] = call[d]
      /\ contested \subseteq contested'
  BY DEF Found, Call
<1>2. \A d \in Calls \ {c} : (call[d].req = r /\ call[d].at \in Writing) => r \in contested'
  BY DEF Found, Busy, Writing
<1>3. Exclusive'
  <2> SUFFICES ASSUME NEW d \in Calls, NEW e \in Calls, d # e,
                      call'[d].at \in Writing, call'[e].at \in Writing,
                      call'[d].req = call'[e].req
               PROVE  call'[d].req \in contested'
      BY DEF Exclusive
  <2>1. CASE c \in {d, e}
    BY <2>1, <1>1, <1>2
  <2>2. CASE c \notin {d, e}
    BY <2>2, <1>1 DEF Exclusive
  <2> QED
    BY <2>1, <2>2
<1>4. ReadHolds'
  BY <1>1 DEF ReadHolds, Saving
<1>5. AnswersTrue' /\ SavedIsAccepted'
  BY <1>1 DEF AnswersTrue, SavedIsAccepted
<1> QED
  BY <1>3, <1>4, <1>5

\* A call that returns, or goes on to create a request, leaves the others be.
LEMMA QuietKeeps ==
    ASSUME ChatsInv, NEW c \in Calls,
           call'[c].at \in {"idle", "duplicates", "create"},
           \A d \in Calls \ {c} : call'[d] = call[d],
           UNCHANGED <<status, saved, told, contested>>
    PROVE  Exclusive' /\ ReadHolds' /\ AnswersTrue' /\ SavedIsAccepted'
<1>1. Exclusive'
  BY DEF ChatsInv, Exclusive, Writing
<1>2. ReadHolds'
  BY DEF ChatsInv, ReadHolds, Saving
<1> QED
  BY <1>1, <1>2 DEF ChatsInv, AnswersTrue, SavedIsAccepted

\* A call that goes on with its request does so on what it has read.
LEMMA GotoKeeps ==
    ASSUME ChatsInv, NEW c \in Calls, NEW at,
           Goto(c, at), UNCHANGED <<status, saved, told, contested>>,
           \/ call[c].at \in {"accepting", "joining"} /\ at = "remove"
           \/ call[c].at = "accepting" /\ at = "accepted"
           \/ call[c].at = "bookmarks" /\ at = "bookmark"
    PROVE  Exclusive' /\ ReadHolds' /\ AnswersTrue' /\ SavedIsAccepted'
<1>1. /\ call'[c].at = at /\ call'[c].req = call[c].req
      /\ \A d \in Calls \ {c} : call'[d] = call[d]
  BY DEF Goto, ChatsInv, TypeInv, TypeOK, Call
<1>2. Exclusive'
  BY <1>1 DEF ChatsInv, Exclusive, Writing
<1>3. ReadHolds'
  BY <1>1 DEF ChatsInv, ReadHolds, Saving
<1> QED
  BY <1>2, <1>3 DEF ChatsInv, AnswersTrue, SavedIsAccepted

LEMMA ReturnIsQuiet ==
    ASSUME TypeInv, NEW c \in Calls, Return(c)
    PROVE  call'[c].at = "idle" /\ \A d \in Calls \ {c} : call'[d] = call[d]
  BY DEF Return, Idle, TypeInv, TypeOK

LEMMA ChatsStep == ChatsInv /\ [Next]_vars => ChatsInv'
<1> SUFFICES ASSUME ChatsInv, [Next]_vars
             PROVE  Exclusive' /\ ReadHolds' /\ AnswersTrue' /\ SavedIsAccepted'
    BY TypeStep DEF ChatsInv
<1> DEFINE Kept == Exclusive' /\ ReadHolds' /\ AnswersTrue' /\ SavedIsAccepted'
<1>0. TypeInv /\ TypeOK
  BY DEF ChatsInv, TypeInv
<1>1. ASSUME NEW c \in Calls, NEW u \in Users, NEW v \in Users, StartCreate(c, u, v)
      PROVE  Kept
  <2>1. call'[c].at = "duplicates" /\ \A d \in Calls \ {c} : call'[d] = call[d]
    BY <1>0, <1>1 DEF StartCreate, TypeOK, Call
  <2> QED
    BY <1>1, <2>1, QuietKeeps DEF StartCreate, history
<1>2. ASSUME NEW c \in Calls, NEW r \in Requests,
             \/ \E answer \in {"accepting", "rejected"} : FindToRespond(c, r, answer)
             \/ FindToCancel(c, r) \/ FindToRemove(c, r) \/ FindToJoin(c, r)
      PROVE  Kept
  <2>1. PICK u \in Users, at \in {"accepting", "joining", "rejected", "remove"} :
            /\ Found(c, u, r, at)
            /\ at \in {"accepting", "rejected"} => status[r] = "pending"
            /\ at = "joining" => status[r] = "accepted"
            /\ at = "remove" => status[r] \in {"pending", "accepted"}
    BY <1>2, PartiesAreUsers DEF FindToRespond, FindToCancel, FindToRemove, FindToJoin
  <2>2. UNCHANGED <<status, saved, told>>
    BY <1>2 DEF FindToRespond, FindToCancel, FindToRemove, FindToJoin
  <2> QED
    BY <2>1, <2>2, FoundKeeps
<1>3. ASSUME NEW c \in Calls, NEW u \in Users, NEW r \in Requests, FindToSave(c, u, r)
      PROVE  Kept
  <2>1. /\ call'[c].at = "bookmarks" /\ call'[c].req = r /\ status[r] = "accepted"
        /\ \A d \in Calls \ {c} : call'[d] = call[d]
        /\ UNCHANGED <<status, saved, told, contested>>
    BY <1>0, <1>3 DEF FindToSave, TypeOK, Call, history
  <2>2. Exclusive'
    BY <2>1 DEF ChatsInv, Exclusive, Writing
  <2>3. ReadHolds'
    BY <2>1 DEF ChatsInv, ReadHolds, Saving
  <2> QED
    BY <2>1, <2>2, <2>3 DEF ChatsInv, AnswersTrue, SavedIsAccepted
<1>4. ASSUME NEW c \in Calls, CheckDuplicate(c) PROVE Kept
  <2>1. call'[c].at \in {"idle", "create"} /\ \A d \in Calls \ {c} : call'[d] = call[d]
    BY <1>0, <1>4 DEF CheckDuplicate, Return, Idle, TypeOK, Call
  <2> QED
    BY <1>4, <2>1, QuietKeeps DEF CheckDuplicate, history
<1>5. ASSUME NEW c \in Calls, NEW r \in Requests, Create(c, r) PROVE Kept
  <2>1. /\ call'[c].at = "idle" /\ \A d \in Calls \ {c} : call'[d] = call[d]
        /\ status[r] = "unused" /\ status' = [status EXCEPT ![r] = "pending"]
        /\ UNCHANGED <<saved, told, contested>>
    BY <1>0, <1>5, ReturnIsQuiet DEF Create
  <2>2. Exclusive'
    BY <2>1 DEF ChatsInv, Exclusive, Writing
  <2>3. ReadHolds'
    BY <1>0, <2>1 DEF ChatsInv, ReadHolds, Saving, TypeOK
  <2> QED
    BY <1>0, <2>1, <2>2, <2>3 DEF ChatsInv, AnswersTrue, SavedIsAccepted, TypeOK, Resolved
<1>6. ASSUME NEW c \in Calls, CheckBlock(c) PROVE Kept
  <2>1. CASE Return(c)
    BY <1>0, <1>6, <2>1, ReturnIsQuiet, QuietKeeps DEF CheckBlock, history
  <2>2. CASE Goto(c, "remove")
    BY <1>6, <2>2, GotoKeeps DEF CheckBlock, history
  <2>3. CASE Goto(c, "accepted") /\ Waiting(c, "accepting")
    BY <1>6, <2>3, GotoKeeps DEF CheckBlock, Waiting, history
  <2> QED
    BY <1>6, <2>1, <2>2, <2>3 DEF CheckBlock
\* The answer goes to a row that is pending, of which nobody else knows.
<1>7. ASSUME NEW c \in Calls, Answer(c) PROVE Kept
  <2> DEFINE r == call[c].req
  <2>1. /\ call'[c].at = "idle" /\ \A d \in Calls \ {c} : call'[d] = call[d]
        /\ status' = [status EXCEPT ![r] = call[c].at]
        /\ told' = told \cup {<<r, call[c].at>>}
        /\ UNCHANGED <<saved, contested>>
        /\ call[c].at \in Resolved /\ r \in Requests
    BY <1>0, <1>7, ReturnIsQuiet DEF Answer, TypeInv, HasRow, Resolved
  <2>2. r \notin contested =>
            /\ status[r] = "pending"
            /\ \A d \in Calls \ {c} : call[d].req = r => call[d].at \notin Writing
    BY <2>1 DEF ChatsInv, ReadHolds, Exclusive, Resolved, Writing
  <2>3. Exclusive'
    BY <2>1 DEF ChatsInv, Exclusive, Writing
  <2>4. ReadHolds'
    BY <1>0, <2>1, <2>2 DEF ChatsInv, ReadHolds, Saving, Writing, TypeOK
  <2>5. AnswersTrue'
    BY <1>0, <2>1, <2>2 DEF ChatsInv, AnswersTrue, TypeOK, Resolved
  <2>6. SavedIsAccepted'
    BY <1>0, <2>1, <2>2 DEF ChatsInv, SavedIsAccepted, TypeOK
  <2> QED
    BY <2>3, <2>4, <2>5, <2>6
\* The row that goes takes its bookmarks along.
<1>8. ASSUME NEW c \in Calls, Remove(c) PROVE Kept
  <2> DEFINE r == call[c].req
  <2>1. /\ call'[c].at = "idle" /\ \A d \in Calls \ {c} : call'[d] = call[d]
        /\ saved' = {b \in saved : b[1] # r}
        /\ UNCHANGED <<told, contested>>
        /\ call[c].at = "remove" /\ r \in Requests
    BY <1>0, <1>8, ReturnIsQuiet DEF Remove, Delete, Waiting, TypeInv, HasRow, history
  <2>2. /\ status'[r] \in {status[r], "deleted"}
        /\ r \notin contested => status'[r] = "deleted"
        /\ \A q \in Requests \ {r} : status'[q] = status[q]
    BY <1>0, <1>8, <2>1 DEF Remove, Delete, ChatsInv, ReadHolds, Rows, Resolved, TypeOK
  <2>3. r \notin contested =>
            \A d \in Calls \ {c} : call[d].req = r => call[d].at \notin Writing
    BY <2>1 DEF ChatsInv, Exclusive, Writing
  <2>4. Exclusive'
    BY <2>1 DEF ChatsInv, Exclusive, Writing
  <2>5. ReadHolds'
    <3>1. \A d \in Calls : call[d].at \in Writing \cup Saving => call[d].req \in Requests
      BY <1>0 DEF TypeInv, HasRow, Writing, Saving
    <3> QED
      BY <2>1, <2>2, <2>3, <3>1 DEF ChatsInv, ReadHolds, Saving, Writing
  <2>6. AnswersTrue'
    BY <1>0, <2>1, <2>2 DEF ChatsInv, AnswersTrue, TypeOK
  <2>7. SavedIsAccepted'
    BY <1>0, <2>1, <2>2 DEF ChatsInv, SavedIsAccepted, TypeOK, Rows
  <2> QED
    BY <2>4, <2>5, <2>6, <2>7
<1>9. ASSUME NEW c \in Calls, FindSaved(c) PROVE Kept
  <2>1. CASE Return(c)
    BY <1>0, <1>9, <2>1, ReturnIsQuiet, QuietKeeps DEF FindSaved, history
  <2>2. CASE Goto(c, "bookmark")
    BY <1>9, <2>2, GotoKeeps DEF FindSaved, Waiting, history
  <2> QED
    BY <1>9, <2>1, <2>2 DEF FindSaved
<1>10. ASSUME NEW c \in Calls, SaveChat(c) PROVE Kept
  <2>1. /\ call'[c].at = "idle" /\ \A d \in Calls \ {c} : call'[d] = call[d]
        /\ UNCHANGED <<status, told, contested>>
        /\ call[c].at = "bookmark"
        /\ saved' \subseteq saved \cup ({<<call[c].req, call[c].by>>} \cap (Rows \X Users))
    BY <1>0, <1>10, ReturnIsQuiet DEF SaveChat, Waiting, history
  <2>2. Exclusive' /\ ReadHolds' /\ AnswersTrue'
    BY <2>1 DEF ChatsInv, Exclusive, ReadHolds, AnswersTrue, Writing, Saving
  <2>3. SavedIsAccepted'
    BY <2>1 DEF ChatsInv, SavedIsAccepted, ReadHolds, Saving, Rows, Resolved
  <2> QED
    BY <2>2, <2>3
<1>11. ASSUME NEW b \in saved, DeleteSavedChat(b) PROVE Kept
  BY <1>11 DEF DeleteSavedChat, ChatsInv, Exclusive, ReadHolds, AnswersTrue, SavedIsAccepted,
               history
<1>12. ASSUME NEW u \in Users, NEW v \in Users, BlockUser(u, v) \/ UnblockUser(u, v)
       PROVE  Kept
  BY <1>12 DEF BlockUser, UnblockUser, ChatsInv, Exclusive, ReadHolds, AnswersTrue,
               SavedIsAccepted, history
<1>13. CASE UNCHANGED vars
  BY <1>13 DEF vars, ChatsInv, Exclusive, ReadHolds, AnswersTrue, SavedIsAccepted
<1> QED
  BY <1>1, <1>2, <1>3, <1>4, <1>5, <1>6, <1>7, <1>8, <1>9, <1>10, <1>11, <1>12, <1>13
     DEF Next, Start, Continue

LEMMA ChatsInvariant == Spec => []ChatsInv
  BY ChatsInit, ChatsStep, PTL DEF Spec

\* What the parties were told of a request stays true until it is deleted,
\* unless two calls that wrote it were under way at a time.
THEOREM AnswersAreTrue == Spec => []AnswersTrue
<1>1. ChatsInv => AnswersTrue
  BY DEF ChatsInv
<1> QED
  BY <1>1, ChatsInvariant, PTL

\* Only accepted chats are bookmarked, but for the same races.
THEOREM OnlyAcceptedSaved == Spec => []SavedIsAccepted
<1>1. ChatsInv => SavedIsAccepted
  BY DEF ChatsInv
<1> QED
  BY <1>1, ChatsInvariant, PTL

\* No step takes a request off its path, but for the same races.
THEOREM RequestsFollowLifecycle == Spec => Lifecycle
<1>1. ASSUME ChatsInv, [Next]_vars, NEW r \in Requests \ contested
      PROVE  LegalStep(status[r], status'[r])
  <2>0. TypeOK
    BY <1>1 DEF ChatsInv, TypeInv
  <2>1. CASE UNCHANGED status
    BY <2>1 DEF LegalStep
  <2>2. ASSUME NEW c \in Calls, NEW q \in Requests, Create(c, q)
        PROVE  LegalStep(status[r], status'[r])
    BY <2>0, <2>2 DEF Create, LegalStep, TypeOK
  <2>3. ASSUME NEW c \in Calls, Answer(c) PROVE LegalStep(status[r], status'[r])
    <3>1. call[c].req = r => status[r] = "pending"
      BY <1>1, <2>3 DEF Answer, ChatsInv, ReadHolds, Resolved
    <3> QED
      BY <2>0, <2>3, <3>1 DEF Answer, LegalStep, TypeOK
  <2>4. ASSUME NEW c \in Calls, Remove(c) PROVE LegalStep(status[r], status'[r])
    <3>1. call[c].req = r => status[r] \in {"pending", "accepted"}
      BY <1>1, <2>4 DEF Remove, Waiting, ChatsInv, ReadHolds
    <3> QED
      BY <2>0, <2>4, <3>1 DEF Remove, Delete, LegalStep, TypeOK
  <2>5. \/ UNCHANGED status
        \/ \E c \in Calls : Answer(c) \/ Remove(c) \/ \E q \in Requests : Create(c, q)
    BY <1>1 DEF Next, Start, Continue, StartCreate, FindToRespond, FindToCancel, FindToRemove,
                FindToJoin, FindToSave, CheckDuplicate, CheckBlock, FindSaved, SaveChat,
                DeleteSavedChat, BlockUser, UnblockUser, vars
  <2> QED
    BY <2>1, <2>2, <2>3, <2>4, <2>5
<1>2. ChatsInv /\ [Next]_vars => \A r \in Requests \ contested : LegalStep(status[r], status'[r])
  BY <1>1
<1>3. ChatsInv /\ [Next]_vars
        => [\A r \in Requests \ contested : LegalStep(status[r], status'[r])]_vars
  BY <1>2
<1> QED
  BY <1>3, ChatsInvariant, PTL DEF Spec, Lifecycle

-----------------------------------------------------------------------------
(* Duplicates *)

Creating(c, r) == Waiting(c, "create") /\ Ends[r] = <<call[c].by, call[c].to>>

\* A call that has checked for duplicates alone still finds none, but for
\* those that were created as rivals; of two that have, one is a rival.
RivalsInv ==
    /\ OnePendingButForRivals
    /\ \A c \in Calls, r \in Requests :
          (Creating(c, r) /\ ~call[c].rival /\ status[r] = "pending") => r \in rivals
    /\ \A c, d \in Calls, r \in Requests :
          (c # d /\ Creating(c, r) /\ Creating(d, r)) => call[c].rival \/ call[d].rival

LEMMA RivalsInit == Init => RivalsInv
  BY DEF Init, RivalsInv, OnePendingButForRivals, Creating, Waiting, Idle

\* Steps that neither create a request nor bring a call closer to it.
LEMMA RivalsKept ==
    ASSUME RivalsInv,
           \A c \in Calls : call'[c].at = "create" => call'[c] = call[c],
           \A r \in Requests : status'[r] = "pending" => status[r] = "pending",
           UNCHANGED rivals
    PROVE  RivalsInv'
  BY DEF RivalsInv, OnePendingButForRivals, Creating, Waiting

LEMMA RivalsStep == TypeInv /\ RivalsInv /\ [Next]_vars => RivalsInv'
<1> SUFFICES ASSUME TypeInv, RivalsInv, [Next]_vars PROVE RivalsInv'
    OBVIOUS
<1> USE DEF TypeInv, TypeOK
<1>1. ASSUME NEW c \in Calls, CheckDuplicate(c) PROVE RivalsInv'
  <2>1. CASE Return(c)
    <3>1. \A d \in Calls : call'[d].at = "create" => call'[d] = call[d]
      BY <2>1 DEF Return, Idle
    <3> QED
      BY <1>1, <3>1, RivalsKept DEF CheckDuplicate, history
  <2>2. CASE ~Return(c)
    <3> DEFINE rival == \E d \in Calls : Waiting(d, "create")
                            /\ <<call[d].by, call[d].to>> = <<call[c].by, call[c].to>>
    <3>1. /\ ~ \E r \in Rows : Ends[r] = <<call[c].by, call[c].to>> /\ status[r] = "pending"
          /\ call' = [call EXCEPT ![c] = [call[c] EXCEPT !.at = "create", !.rival = rival]]
          /\ UNCHANGED <<status, rivals>>
      BY <1>1, <2>2, Zenon DEF CheckDuplicate, history
    <3>2. /\ call'[c].by = call[c].by /\ call'[c].to = call[c].to
          /\ \A d \in Calls \ {c} : call'[d] = call[d]
          /\ call[c] \in Call
      BY <3>1 DEF Call
    <3>3. call'[c].rival <=> rival
      BY <3>1, <3>2 DEF Call
    <3>4. \A r \in Requests : (Ends[r] = <<call[c].by, call[c].to>>) => status[r] # "pending"
      BY <3>1 DEF Rows
    <3>5. \A d \in Calls \ {c}, r \in Requests :
              (Creating(d, r) /\ Ends[r] = <<call[c].by, call[c].to>>) => call'[c].rival
      BY <3>3, Zenon DEF Creating
    <3>6. \A d \in Calls, r \in Requests :
              Creating(d, r)' => Ends[r] = <<call[d].by, call[d].to>> /\ (d # c => Creating(d, r))
      BY <3>2 DEF Creating, Waiting
    <3>7. \A d, e \in Calls, r \in Requests :
              (d # e /\ Creating(d, r)' /\ Creating(e, r)') => call'[d].rival \/ call'[e].rival
      BY <3>2, <3>5, <3>6 DEF RivalsInv
    <3>8. \A d \in Calls, r \in Requests :
              (Creating(d, r)' /\ ~call'[d].rival /\ status'[r] = "pending") => r \in rivals'
      BY <3>1, <3>2, <3>4, <3>6 DEF RivalsInv
    <3>9. OnePendingButForRivals'
      BY <3>1 DEF RivalsInv, OnePendingButForRivals
    <3> QED
      BY <3>7, <3>8, <3>9 DEF RivalsInv
  <2> QED
    BY <2>1, <2>2
<1>2. ASSUME NEW c \in Calls, NEW r \in Requests, Create(c, r) PROVE RivalsInv'
  <2>1. /\ call'[c].at = "idle" /\ \A d \in Calls \ {c} : call'[d] = call[d]
        /\ status'[r] = "pending" /\ \A q \in Requests \ {r} : status'[q] = status[q]
        /\ Creating(c, r) /\ rivals' = IF call[c].rival THEN rivals \cup {r} ELSE rivals
    BY <1>2, ReturnIsQuiet DEF Create, Creating
  <2>2. OnePendingButForRivals'
    BY <2>1 DEF RivalsInv, OnePendingButForRivals, Creating
  <2> QED
    BY <2>1, <2>2 DEF RivalsInv, Creating, Waiting
<1>3. ASSUME NEW c \in Calls, Answer(c) \/ Remove(c) PROVE RivalsInv'
  <2>1. \A r \in Requests : status'[r] = "pending" => status[r] = "pending"
    BY <1>3 DEF Answer, Remove, Delete, Resolved
  <2>2. \A d \in Calls : call'[d].at = "create" => call'[d] = call[d]
    BY <1>3, ReturnIsQuiet DEF Answer, Remove
  <2> QED
    BY <1>3, <2>1, <2>2, RivalsKept DEF Answer, Remove, history
<1>4. ASSUME NEW c \in Calls, UNCHANGED <<status, rivals>>, call'[c].at # "create",
             \A d \in Calls \ {c} : call'[d] = call[d]
      PROVE  RivalsInv'
  BY <1>4, RivalsKept
<1>5. ASSUME NEW c \in Calls, Start(c) PROVE RivalsInv'
  <2>1. UNCHANGED <<status, rivals>>
    BY <1>5 DEF Start, StartCreate, FindToRespond, FindToCancel, FindToRemove, FindToJoin,
                FindToSave, history
  <2>2. call'[c].at # "create" /\ \A d \in Calls \ {c} : call'[d] = call[d]
    <3>1. ASSUME NEW u, NEW r, NEW at \in {"accepting", "rejected", "remove", "joining"},
                 Found(c, u, r, at)
          PROVE  call'[c].at # "create" /\ \A d \in Calls \ {c} : call'[d] = call[d]
      BY <3>1 DEF Found, Call
    <3>2. ASSUME NEW u, NEW v, StartCreate(c, u, v)
          PROVE  call'[c].at # "create" /\ \A d \in Calls \ {c} : call'[d] = call[d]
      BY <3>2 DEF StartCreate, Call
    <3>3. ASSUME NEW u, NEW r, FindToSave(c, u, r)
          PROVE  call'[c].at # "create" /\ \A d \in Calls \ {c} : call'[d] = call[d]
      BY <3>3 DEF FindToSave, Call
    <3> QED
      BY <1>5, <3>1, <3>2, <3>3 DEF Start, FindToRespond, FindToCancel, FindToRemove, FindToJoin
  <2> QED
    BY <1>4, <2>1, <2>2
<1>6. ASSUME NEW c \in Calls, CheckBlock(c) \/ FindSaved(c) \/ SaveChat(c) PROVE RivalsInv'
  <2>1. /\ UNCHANGED <<status, rivals>>
        /\ Return(c) \/ Goto(c, "remove") \/ Goto(c, "accepted") \/ Goto(c, "bookmark")
    BY <1>6 DEF CheckBlock, FindSaved, SaveChat, history
  <2>2. call'[c].at # "create" /\ \A d \in Calls \ {c} : call'[d] = call[d]
    BY <2>1, ReturnIsQuiet DEF Goto, Call
  <2> QED
    BY <1>4, <2>1, <2>2
<1>7. ASSUME UNCHANGED <<status, call, rivals>> PROVE RivalsInv'
  BY <1>7, RivalsKept
<1> QED
  BY <1>1, <1>2, <1>3, <1>5, <1>6, <1>7
     DEF Next, Continue, DeleteSavedChat, BlockUser, UnblockUser, history, vars

\* Two pending requests in one direction come only of two calls that looked for
\* duplicates before either had inserted, however many calls are under way.
THEOREM OnePending == Spec => []OnePendingButForRivals
<1>1. RivalsInv => OnePendingButForRivals
  BY DEF RivalsInv
<1> QED
  BY <1>1, RivalsInit, RivalsStep, TypeInvariant, PTL DEF Spec

-----------------------------------------------------------------------------
(* RoomPresence: what is on its way to a worker *)

\* The event l comes in q after the event at k.
ComesAfter(q, k, l) == \E m \in DOMAIN q : m > k /\ q[m] = l

\* e is on its way, and no l comes after it.
Standing(q, e, l) == \E k \in DOMAIN q : q[k] = e /\ ~ComesAfter(q, k, l)

EvictIn(q) == \E k \in DOMAIN q : q[k][1] = "evict"

\* The room is not told to be closed without being emptied.
ClosedEnds(q) ==
    \A k \in DOMAIN q : q[k][1] = "closed" => \E m \in DOMAIN q : m > k /\ q[m][1] = "evict"

\* There is an answer of fetchSockets in q, and there are no two.
AnswerComes(q) == \E k \in DOMAIN q : q[k][1] = "sockets"
OneAnswer(q) == \A k, m \in DOMAIN q : q[k][1] = "sockets" /\ q[m][1] = "sockets" => k = m

\* The parties of the chat have each one peer.
LEMMA PeerIsOther ==
    ASSUME NEW s \in Sockets
    PROVE /\ Owner[s] \in Pair /\ Peer(s) \in Pair /\ Peer(s) # Owner[s]
          /\ \A u \in Pair : u = Owner[s] \/ u = Peer(s)
  BY PresenceAssumption DEF Peer

LEMMA EventKinds ==
    ASSUME NEW e \in Event
    PROVE /\ e = <<e[1], e[2]>>
          /\ e[1] \in {"joined", "left", "closed", "evict", "sockets"}
          /\ e[1] = "sockets" => e[2] \in Sockets \cup {NoSocket}
  BY DEF Event

LEMMA Appended ==
    ASSUME NEW q \in Seq(Event), NEW e \in Event
    PROVE /\ q \o <<e>> \in Seq(Event)
          /\ DOMAIN (q \o <<e>>) = 1 .. Len(q) + 1
          /\ DOMAIN q = 1 .. Len(q) /\ Len(q) \in Nat
          /\ \A k \in 1 .. Len(q) : (q \o <<e>>)[k] = q[k]
          /\ (q \o <<e>>)[Len(q) + 1] = e
          /\ q \o <<e>> = Append(q, e)
  OBVIOUS

LEMMA Taken ==
    ASSUME NEW q \in Seq(Event), q # <<>>
    PROVE /\ Tail(q) \in Seq(Event) /\ Head(q) \in Event /\ Head(q) = q[1]
          /\ DOMAIN Tail(q) = 1 .. Len(q) - 1
          /\ DOMAIN q = 1 .. Len(q) /\ Len(q) \in Nat /\ Len(q) >= 1
          /\ \A k \in 1 .. Len(q) - 1 : Tail(q)[k] = q[k + 1]
  OBVIOUS

LEMMA AppendKeeps ==
    ASSUME NEW q \in Seq(Event), NEW x \in Event, NEW l
    PROVE /\ EvictIn(q) => EvictIn(q \o <<x>>)
          /\ x[1] = "evict" => EvictIn(q \o <<x>>)
          /\ x[1] # "closed" /\ ClosedEnds(q) => ClosedEnds(q \o <<x>>)
          /\ AnswerComes(q \o <<x>>) => AnswerComes(q) \/ x[1] = "sockets"
          /\ OneAnswer(q) /\ (x[1] # "sockets" \/ ~AnswerComes(q)) => OneAnswer(q \o <<x>>)
          /\ x # l /\ ~ComesAfter(q, 0, l) => ~ComesAfter(q \o <<x>>, 0, l)
          /\ \A e : x # l /\ Standing(q, e, l) => Standing(q \o <<x>>, e, l)
          /\ x # l => Standing(q \o <<x>>, x, l)
<1>1. (EvictIn(q) => EvictIn(q \o <<x>>)) /\ (x[1] = "evict" => EvictIn(q \o <<x>>))
  BY Appended DEF EvictIn
<1>2. x[1] # "closed" /\ ClosedEnds(q) => ClosedEnds(q \o <<x>>)
  BY Appended DEF ClosedEnds
<1>3. AnswerComes(q \o <<x>>) => AnswerComes(q) \/ x[1] = "sockets"
  BY Appended DEF AnswerComes
<1>4. OneAnswer(q) /\ (x[1] # "sockets" \/ ~AnswerComes(q)) => OneAnswer(q \o <<x>>)
  BY Appended DEF OneAnswer, AnswerComes
<1>5. x # l /\ ~ComesAfter(q, 0, l) => ~ComesAfter(q \o <<x>>, 0, l)
  BY Appended DEF ComesAfter
<1>6. \A e : x # l /\ Standing(q, e, l) => Standing(q \o <<x>>, e, l)
  BY Appended DEF Standing, ComesAfter
<1>7. x # l => Standing(q \o <<x>>, x, l)
  BY Appended DEF Standing, ComesAfter
<1> QED
  BY <1>1, <1>2, <1>3, <1>4, <1>5, <1>6, <1>7

LEMMA TailKeeps ==
    ASSUME NEW q \in Seq(Event), q # <<>>, NEW l
    PROVE /\ EvictIn(q) /\ Head(q)[1] # "evict" => EvictIn(Tail(q))
          /\ ClosedEnds(q) => ClosedEnds(Tail(q)) /\ (Head(q)[1] = "closed" => EvictIn(Tail(q)))
          /\ AnswerComes(Tail(q)) => AnswerComes(q)
          /\ OneAnswer(q) => OneAnswer(Tail(q)) /\ (Head(q)[1] = "sockets" => ~AnswerComes(Tail(q)))
          /\ ~ComesAfter(q, 0, l) => ~ComesAfter(Tail(q), 0, l) /\ Head(q) # l
          /\ \A e : Standing(q, e, l) => \/ Standing(Tail(q), e, l)
                                         \/ Head(q) = e /\ ~ComesAfter(Tail(q), 0, l)
<1>1. EvictIn(q) /\ Head(q)[1] # "evict" => EvictIn(Tail(q))
  <2> SUFFICES ASSUME NEW k \in DOMAIN q, q[k][1] = "evict", q[1][1] # "evict" PROVE EvictIn(Tail(q))
    BY Taken DEF EvictIn
  <2>1. k - 1 \in DOMAIN Tail(q) /\ Tail(q)[k - 1] = q[k]
    BY Taken
  <2> QED
    BY <2>1 DEF EvictIn
<1>2. ASSUME ClosedEnds(q)
      PROVE ClosedEnds(Tail(q)) /\ (Head(q)[1] = "closed" => EvictIn(Tail(q)))
  <2>1. ASSUME NEW k \in DOMAIN q, NEW m \in DOMAIN q, m > k
        PROVE m - 1 \in DOMAIN Tail(q) /\ Tail(q)[m - 1] = q[m] /\ m - 1 > k - 1
    BY <2>1, Taken
  <2>2. ASSUME NEW k \in DOMAIN Tail(q), Tail(q)[k][1] = "closed"
        PROVE \E m \in DOMAIN Tail(q) : m > k /\ Tail(q)[m][1] = "evict"
    <3>1. k + 1 \in DOMAIN q /\ q[k + 1] = Tail(q)[k] /\ k \in Nat
      BY Taken
    <3>2. PICK m \in DOMAIN q : m > k + 1 /\ q[m][1] = "evict"
      BY <1>2, <2>2, <3>1 DEF ClosedEnds
    <3>3. m - 1 \in DOMAIN Tail(q) /\ Tail(q)[m - 1] = q[m] /\ m - 1 > k
      BY <3>1, <3>2, Taken
    <3> QED
      BY <3>2, <3>3
  <2>3. Head(q)[1] = "closed" => EvictIn(Tail(q))
    <3>1. 1 \in DOMAIN q /\ Head(q) = q[1]
      BY Taken
    <3> QED
      BY <1>2, <2>1, <3>1 DEF ClosedEnds, EvictIn
  <2> QED
    BY <2>2, <2>3 DEF ClosedEnds
<1>3. AnswerComes(Tail(q)) => AnswerComes(q)
  BY Taken DEF AnswerComes
<1>4. OneAnswer(q) => OneAnswer(Tail(q)) /\ (Head(q)[1] = "sockets" => ~AnswerComes(Tail(q)))
  <2> SUFFICES ASSUME OneAnswer(q)
               PROVE OneAnswer(Tail(q)) /\ (q[1][1] = "sockets" => ~AnswerComes(Tail(q)))
    BY Taken
  <2>1. \A k \in DOMAIN Tail(q) : k + 1 \in DOMAIN q /\ q[k + 1] = Tail(q)[k] /\ k \in Nat /\ k >= 1
    BY Taken
  <2>2. 1 \in DOMAIN q
    BY Taken
  <2> QED
    BY <2>1, <2>2 DEF OneAnswer, AnswerComes
<1>5. ~ComesAfter(q, 0, l) => ~ComesAfter(Tail(q), 0, l) /\ Head(q) # l
  BY Taken DEF ComesAfter
<1>6. ASSUME NEW e, Standing(q, e, l)
      PROVE Standing(Tail(q), e, l) \/ (Head(q) = e /\ ~ComesAfter(Tail(q), 0, l))
  <2>1. PICK k \in DOMAIN q : q[k] = e /\ ~ComesAfter(q, k, l)
    BY <1>6 DEF Standing
  <2>2. ~ComesAfter(Tail(q), k - 1, l)
    BY <2>1, Taken DEF ComesAfter
  <2>3. CASE k = 1
    BY <2>1, <2>2, <2>3, Taken
  <2>4. CASE k # 1
    <3>1. k - 1 \in DOMAIN Tail(q) /\ Tail(q)[k - 1] = q[k]
      BY <2>4, Taken
    <3> QED
      BY <2>1, <2>2, <3>1 DEF Standing
  <2> QED
    BY <2>3, <2>4
<1> QED
  BY <1>1, <1>2, <1>3, <1>4, <1>5, <1>6

\* A worker that has lost the socket keeps of the answers the one there is.
LEMMA AnswerKept ==
    ASSUME NEW q \in Seq(Event)
    PROVE /\ AnswerIn(q) \in Seq(Event) /\ OneAnswer(AnswerIn(q)) /\ ClosedEnds(AnswerIn(q))
          /\ AnswerComes(AnswerIn(q)) => AnswerComes(q)
<1> DEFINE answers == {q[k] : k \in DOMAIN q} \cap ({"sockets"} \X (Sockets \cup {NoSocket}))
<1>1. CASE answers = {}
  <2>1. AnswerIn(q) = <<>>
    BY <1>1 DEF AnswerIn
  <2> QED
    BY <2>1 DEF OneAnswer, ClosedEnds, AnswerComes
<1>2. CASE answers # {}
  <2>1. PICK e \in answers : AnswerIn(q) = <<e>>
    BY <1>2 DEF AnswerIn
  <2>2. e \in Event /\ e[1] = "sockets" /\ \E k \in DOMAIN q : q[k] = e
    BY <2>1 DEF Event
  <2>3. DOMAIN <<e>> = {1} /\ <<e>>[1] = e
    OBVIOUS
  <2> QED
    BY <2>1, <2>2, <2>3 DEF OneAnswer, ClosedEnds, AnswerComes
<1> QED
  BY <1>1, <1>2

LEMMA PublishedOne ==
    ASSUME NEW under \in [Sockets -> Seq(Event)], NEW e \in Event, NEW except,
           Publish(under, <<e>>, except)
    PROVE /\ inbox' \in [Sockets -> Seq(Event)]
          /\ \A t \in Sockets : inbox'[t] = under[t] \/ inbox'[t] = under[t] \o <<e>>
          /\ \A t \in Sockets : t \in except => inbox'[t] = under[t]
          /\ \A t \in Sockets : t \notin except /\ link[t] = "open" => inbox'[t] = under[t] \o <<e>>
<1>1. \A t \in Sockets : under[t] \o <<e>> \in Seq(Event)
  BY Appended
<1> QED
  BY <1>1 DEF Publish

LEMMA PublishedNone ==
    ASSUME NEW under \in [Sockets -> Seq(Event)], NEW except, Publish(under, <<>>, except)
    PROVE inbox' = under
<1>1. \A t \in Sockets : under[t] \o <<>> = under[t]
  OBVIOUS
<1> QED
  BY <1>1 DEF Publish

\* The two events of forceCloseRoom, one after the other.
LEMMA PublishedClose ==
    ASSUME inbox \in [Sockets -> Seq(Event)],
           Publish(inbox, <<<<"closed", NoSocket>>, <<"evict", NoSocket>>>>, {})
    PROVE /\ inbox' \in [Sockets -> Seq(Event)]
          /\ \A t \in Sockets :
                \/ inbox'[t] = inbox[t]
                \/ inbox'[t] = (inbox[t] \o <<<<"closed", NoSocket>>>>) \o <<<<"evict", NoSocket>>>>
          /\ \A t \in Sockets : link[t] = "open" =>
                inbox'[t] = (inbox[t] \o <<<<"closed", NoSocket>>>>) \o <<<<"evict", NoSocket>>>>
<1> DEFINE c == <<"closed", NoSocket>>
           v == <<"evict", NoSocket>>
<1>1. c \in Event /\ v \in Event
  BY DEF Event
<1> HIDE DEF c, v
<1>2. ASSUME NEW q \in Seq(Event)
      PROVE q \o <<c, v>> = (q \o <<c>>) \o <<v>> /\ q \o <<c, v>> \in Seq(Event)
  <2>1. <<c, v>> \in Seq(Event) /\ Len(<<c, v>>) = 2 /\ <<c, v>>[1] = c /\ <<c, v>>[2] = v
    BY <1>1
  <2>2. <<c, v>> = <<c>> \o <<v>> /\ <<c>> \in Seq(Event) /\ <<v>> \in Seq(Event)
    <3>1. <<c>> \in Seq(Event) /\ <<v>> \in Seq(Event) /\ <<c, v>> = Append(<<c>>, v)
      BY <1>1
    <3> QED
      BY <1>1, <3>1, AppendIsConcat
  <2>3. q \o (<<c>> \o <<v>>) = (q \o <<c>>) \o <<v>>
    BY <2>2, ConcatAssociative
  <2>4. q \o <<c, v>> \in Seq(Event)
    BY <2>1, ConcatProperties
  <2> QED
    BY <2>2, <2>3, <2>4
<1>3. Publish(inbox, <<c, v>>, {})
  BY DEF c, v
<1>4. \A t \in Sockets : inbox'[t] \in {inbox[t], (inbox[t] \o <<c>>) \o <<v>>}
  BY <1>2, <1>3 DEF Publish
<1>5. \A t \in Sockets : link[t] = "open" => inbox'[t] = (inbox[t] \o <<c>>) \o <<v>>
  BY <1>2, <1>3 DEF Publish
<1>6. inbox' \in [Sockets -> Seq(Event)]
  BY <1>2, <1>3 DEF Publish
<1> QED
  BY <1>4, <1>5, <1>6 DEF c, v

-----------------------------------------------------------------------------
(* RoomPresence: types *)

LEMMA Kinds ==
    /\ \A s \in Sockets : <<"joined", Owner[s]>> \in Event /\ <<"left", Owner[s]>> \in Event
    /\ \A p \in Sockets \cup {NoSocket} : <<"sockets", p>> \in Event
  BY PresenceAssumption DEF Event

LEMMA Bounded == MaxDisruptions \in Nat /\ MaxJoins \in Nat
  BY PresenceAssumption

LEMMA PresenceTypeInit == PresenceInit => PresenceTypeOK
  BY PresenceAssumption DEF PresenceInit, PresenceTypeOK, JoinSteps

LEMMA ConnectType ==
    ASSUME PresenceTypeOK, NEW s \in Sockets, Connect(s)
    PROVE PresenceTypeOK'
<1>1. disruptions' \in 0 .. MaxDisruptions
  BY Bounded DEF Connect, PresenceTypeOK
<1>2. userSocket' \in [Pair -> Sockets \cup {NoSocket}]
  BY PeerIsOther DEF Connect, PresenceTypeOK
<1>3. /\ link' \in [Sockets -> {"idle", "open", "closed"}]
      /\ \A t \in Sockets : link[t] = "open" => link'[t] = "open"
  BY DEF Connect, PresenceTypeOK
<1> QED
  BY <1>1, <1>2, <1>3 DEF Connect, PresenceTypeOK, sinceJoined

LEMMA EnterType ==
    ASSUME PresenceTypeOK, NEW s \in Sockets, Enter(s)
    PROVE PresenceTypeOK'
  BY PresenceAssumption DEF Enter, CanJoin, PresenceTypeOK, JoinSteps, Together, Others

LEMMA FetchType ==
    ASSUME PresenceTypeOK, NEW s \in Sockets, Fetch(s)
    PROVE PresenceTypeOK'
<1>1. PICK p \in Sockets \cup {NoSocket} : inbox' = [inbox EXCEPT ![s] = Append(@, <<"sockets", p>>)]
  BY DEF Fetch, PresenceTypeOK
<1>2. Append(inbox[s], <<"sockets", p>>) \in Seq(Event)
  BY Kinds DEF PresenceTypeOK
<1>3. inbox' \in [Sockets -> Seq(Event)]
  BY <1>1, <1>2 DEF PresenceTypeOK
<1> QED
  BY <1>3 DEF Fetch, PresenceTypeOK, JoinSteps, redis, counts, sinceJoined

\* The worker of s has handled the first event.
LEMMA HeadTaken ==
    ASSUME inbox \in [Sockets -> Seq(Event)], NEW s \in Sockets, inbox[s] # <<>>
    PROVE [inbox EXCEPT ![s] = Tail(@)] \in [Sockets -> Seq(Event)]
<1>1. Tail(inbox[s]) \in Seq(Event)
  BY Taken
<1> QED
  BY <1>1

LEMMA FetchedNobodyType ==
    ASSUME PresenceTypeOK, NEW s \in Sockets, FetchedNobody(s)
    PROVE PresenceTypeOK'
<1>1. inbox' \in [Sockets -> Seq(Event)]
  BY HeadTaken, Kinds, PublishedOne DEF FetchedNobody, PresenceTypeOK
<1> QED
  BY <1>1 DEF FetchedNobody, PresenceTypeOK, JoinSteps, redis, counts, sinceJoined

LEMMA FetchedPeerType ==
    ASSUME PresenceTypeOK, NEW s \in Sockets, FetchedPeer(s)
    PROVE PresenceTypeOK'
<1>1. inbox' \in [Sockets -> Seq(Event)]
  BY HeadTaken DEF FetchedPeer, PresenceTypeOK
<1>2. Head(inbox[s])[2] \in Sockets
  BY DEF FetchedPeer
<1> QED
  BY <1>1, <1>2 DEF FetchedPeer, PresenceTypeOK, JoinSteps, redis, counts, sinceJoined

LEMMA AnnounceType ==
    ASSUME PresenceTypeOK, NEW s \in Sockets, Announce(s)
    PROVE PresenceTypeOK'
<1>1. inbox' \in [Sockets -> Seq(Event)]
  BY Kinds, PublishedOne DEF Announce, PresenceTypeOK
<1> QED
  BY <1>1 DEF Announce, PresenceTypeOK, JoinSteps, redis, counts, sinceJoined

LEMMA LocateType ==
    ASSUME PresenceTypeOK, NEW s \in Sockets, Locate(s) \/ Compare(s)
    PROVE PresenceTypeOK'
<1>1. join' \in [Sockets -> JoinSteps] /\ found' \in [Sockets -> Sockets \cup {NoSocket}]
  <2>1. userSocket[Peer(s)] \in Sockets \cup {NoSocket}
    BY PeerIsOther DEF PresenceTypeOK
  <2>2. CASE Locate(s)
    BY <2>1, <2>2 DEF Locate, PresenceTypeOK, JoinSteps
  <2>3. CASE Compare(s)
    BY <2>3 DEF Compare, PresenceTypeOK, JoinSteps
  <2> QED
    BY <2>2, <2>3
<1>2. waitingSent' \cup accompanied' \cup misled' \cup doubled' \subseteq Sockets
  BY DEF Locate, Compare, SendWaiting, PresenceTypeOK, counts
<1>3. UNCHANGED <<link, redis, member, entry, cleanup, inbox, informed, counts>>
  BY DEF Locate, Compare
<1> QED
  BY <1>1, <1>2, <1>3 DEF PresenceTypeOK, redis, counts

LEMMA LeaveType ==
    ASSUME PresenceTypeOK, NEW s \in Sockets, Leave(s)
    PROVE PresenceTypeOK'
<1>1. inbox' \in [Sockets -> Seq(Event)]
  BY Kinds, PublishedOne DEF Leave, PresenceTypeOK
<1> QED
  BY <1>1 DEF Leave, Forget, PresenceTypeOK, counts

LEMMA DisconnectType ==
    ASSUME PresenceTypeOK, NEW s \in Sockets, Disconnect(s)
    PROVE PresenceTypeOK'
<1>1. [inbox EXCEPT ![s] = AnswerIn(@)] \in [Sockets -> Seq(Event)]
  BY AnswerKept DEF PresenceTypeOK
<1>2. inbox' \in [Sockets -> Seq(Event)]
  BY <1>1, Kinds, PublishedOne, PublishedNone DEF Disconnect
<1> QED
  BY <1>2 DEF Disconnect, Forget, PresenceTypeOK, redis, counts

LEMMA CleanupType ==
    ASSUME PresenceTypeOK, NEW s \in Sockets, ReadCurrent(s) \/ ClearKeys(s)
    PROVE PresenceTypeOK'
<1>1. cleanup' \in [Sockets -> {"none", "read", "clear", "delete"}]
  BY DEF ReadCurrent, ClearKeys, PresenceTypeOK
<1>2. userSocket' \in [Pair -> Sockets \cup {NoSocket}]
  BY PeerIsOther DEF ReadCurrent, ClearKeys, PresenceTypeOK, redis
<1>3. keys' \subseteq Sockets /\ metaRoom' \subseteq Sockets
  BY DEF ReadCurrent, ClearKeys, PresenceTypeOK, redis
<1>4. UNCHANGED <<link, member, entry, join, found, inbox, informed, counts, sinceJoined>>
  BY DEF ReadCurrent, ClearKeys
<1> QED
  BY <1>1, <1>2, <1>3, <1>4 DEF PresenceTypeOK, counts, sinceJoined

LEMMA DeliverType ==
    ASSUME PresenceTypeOK, NEW s \in Sockets, Deliver(s)
    PROVE PresenceTypeOK'
<1>1. inbox' \in [Sockets -> Seq(Event)]
  BY HeadTaken DEF Deliver, PresenceTypeOK
<1> QED
  BY <1>1 DEF Deliver, Forget, PresenceTypeOK, redis, counts

LEMMA PresenceTypeStep ==
    ASSUME PresenceTypeOK, [PresenceNext]_presenceVars
    PROVE PresenceTypeOK'
<1>1. CASE ForceClose
  <2>1. inbox' \in [Sockets -> Seq(Event)]
    BY <1>1, PublishedClose DEF ForceClose, PresenceTypeOK
  <2>2. disruptions' \in 0 .. MaxDisruptions
    BY <1>1, Bounded DEF ForceClose, PresenceTypeOK
  <2> QED
    BY <1>1, <2>1, <2>2 DEF ForceClose, PresenceTypeOK, redis, sinceJoined
<1>2. CASE UNCHANGED presenceVars
  BY <1>2 DEF presenceVars, PresenceTypeOK, redis, counts, sinceJoined
<1> QED
  BY <1>1, <1>2, ConnectType, EnterType, FetchType, FetchedNobodyType, FetchedPeerType,
     AnnounceType, LocateType, LeaveType, DisconnectType, CleanupType, DeliverType DEF PresenceNext

-----------------------------------------------------------------------------
(* RoomPresence: the invariant *)

\* A worker waits for an answer only in a join, for one at a time.
QueueOK(s) ==
    /\ AnswerComes(inbox[s]) => join[s] = "await"
    /\ OneAnswer(inbox[s])
    /\ ClosedEnds(inbox[s])

\* A connected socket has its key: only the cleanup of a closed one removes it.
KeysStand ==
    \A s \in Sockets : (link[s] = "open" => s \in keys) /\ (cleanup[s] # "none" => link[s] = "closed")

\* Sockets that are in the room together have met.
RoomInv ==
    /\ \A x, t \in member : Owner[x] # Owner[t] => t \in accompanied
    /\ \A x \in member \cup entry, t \in member : x # t /\ Owner[x] = Owner[t] => t \in doubled

\* The socket that is looked for is one of the peer.
LocatedInv ==
    /\ \A u \in Pair : userSocket[u] # NoSocket => Owner[userSocket[u]] = u
    /\ \A s \in Sockets : join[s] = "compare" => found[s] # NoSocket /\ Owner[found[s]] = Peer(s)

\* Whose join has found a socket in the room has met it.
ToldOK(s) == s \in member =>
    /\ join[s] = "none" => s \in accompanied \cup doubled \cup waitingSent \cup misled
    /\ join[s] = "name" => s \in accompanied \cup doubled
    /\ \A k \in DOMAIN inbox[s] : inbox[s][k] \in {"sockets"} \X Sockets => s \in accompanied \cup doubled

PeerLeft(s) == <<"left", Peer(s)>>

\* s knows that t is there, or is going to learn it: from the answer of fetchSockets, or by
\* an event; and nothing that is on its way undoes it.
Knows(s, t) ==
    \/ join[s] = "fetch"
    \/ Standing(inbox[s], <<"joined", Peer(s)>>, PeerLeft(s))
    \/ join[s] = "await" /\ Standing(inbox[s], <<"sockets", t>>, PeerLeft(s))
    \/ join[s] = "name" /\ found[s] = t /\ ~ComesAfter(inbox[s], 0, PeerLeft(s))
    \/ s \in informed /\ ~ComesAfter(inbox[s], 0, PeerLeft(s))

Announcing == {"fetch", "await", "name"}

\* Of two sockets of different users that are in the room and alone for their users, each
\* knows of the other, unless the other is yet to announce itself, or one is being evicted.
PairOK(s, t) ==
    s \in member /\ t \in member /\ Owner[s] # Owner[t] /\ s \notin doubled /\ t \notin doubled =>
        EvictIn(inbox[s]) \/ EvictIn(inbox[t]) \/ join[t] \in Announcing \/ Knows(s, t)

PresenceInv ==
    /\ PresenceTypeOK
    /\ KeysStand
    /\ RoomInv
    /\ LocatedInv
    /\ \A s \in Sockets : QueueOK(s) /\ ToldOK(s)
    /\ \A s, t \in Sockets : PairOK(s, t)

\* An event for the room reaches the end of the inboxes, and what was in them stands.
LEMMA QueueGrows ==
    ASSUME NEW under \in [Sockets -> Seq(Event)], NEW e \in Event, e[1] \in {"joined", "left"},
           NEW except, Publish(under, <<e>>, except), NEW t \in Sockets, NEW l
    PROVE /\ AnswerComes(inbox'[t]) => AnswerComes(under[t])
          /\ OneAnswer(under[t]) => OneAnswer(inbox'[t])
          /\ ClosedEnds(under[t]) => ClosedEnds(inbox'[t])
          /\ EvictIn(under[t]) => EvictIn(inbox'[t])
          /\ e # l /\ ~ComesAfter(under[t], 0, l) => ~ComesAfter(inbox'[t], 0, l)
          /\ \A x : e # l /\ Standing(under[t], x, l) => Standing(inbox'[t], x, l)
          /\ e # l /\ t \notin except /\ link[t] = "open" => Standing(inbox'[t], e, l)
<1>1. under[t] \in Seq(Event)
  OBVIOUS
<1>2. inbox'[t] = under[t] \/ inbox'[t] = under[t] \o <<e>>
  BY PublishedOne
<1>3. t \notin except /\ link[t] = "open" => inbox'[t] = under[t] \o <<e>>
  BY PublishedOne
<1>4. /\ AnswerComes(inbox'[t]) => AnswerComes(under[t])
      /\ OneAnswer(under[t]) => OneAnswer(inbox'[t])
      /\ ClosedEnds(under[t]) => ClosedEnds(inbox'[t])
      /\ EvictIn(under[t]) => EvictIn(inbox'[t])
  <2>1. CASE inbox'[t] = under[t] \o <<e>>
    BY <1>1, <2>1, AppendKeeps
  <2>2. CASE inbox'[t] = under[t]
    BY <2>2
  <2> QED
    BY <1>2, <2>1, <2>2
<1>5. ASSUME e # l
      PROVE /\ ~ComesAfter(under[t], 0, l) => ~ComesAfter(inbox'[t], 0, l)
            /\ \A x : Standing(under[t], x, l) => Standing(inbox'[t], x, l)
            /\ t \notin except /\ link[t] = "open" => Standing(inbox'[t], e, l)
  <2>1. /\ ~ComesAfter(under[t], 0, l) => ~ComesAfter(under[t] \o <<e>>, 0, l)
        /\ \A x : Standing(under[t], x, l) => Standing(under[t] \o <<e>>, x, l)
        /\ Standing(under[t] \o <<e>>, e, l)
    BY <1>1, <1>5, AppendKeeps
  <2>2. CASE inbox'[t] = under[t] \o <<e>>
    BY <2>1, <2>2
  <2>3. CASE inbox'[t] = under[t]
    BY <1>3, <2>1, <2>3
  <2> QED
    BY <1>2, <2>2, <2>3
<1> QED
  BY <1>4, <1>5

\* forceCloseRoom leaves what is on its way as it is, and empties the room after it is closed.
LEMMA QueueCloses ==
    ASSUME PresenceTypeOK, ForceClose, NEW t \in Sockets
    PROVE /\ AnswerComes(inbox'[t]) => AnswerComes(inbox[t])
          /\ OneAnswer(inbox[t]) => OneAnswer(inbox'[t])
          /\ ClosedEnds(inbox[t]) => ClosedEnds(inbox'[t])
          /\ link[t] = "open" => EvictIn(inbox'[t])
<1> DEFINE c == <<"closed", NoSocket>>
           v == <<"evict", NoSocket>>
           q == inbox[t] \o <<c>>
<1>1. c \in Event /\ v \in Event /\ inbox[t] \in Seq(Event) /\ q \in Seq(Event)
  BY Appended DEF Event, PresenceTypeOK
<1>2. /\ AnswerComes(q) => AnswerComes(inbox[t])
      /\ OneAnswer(inbox[t]) => OneAnswer(q)
  BY <1>1, AppendKeeps
<1>3. /\ AnswerComes(q \o <<v>>) => AnswerComes(q)
      /\ OneAnswer(q) => OneAnswer(q \o <<v>>)
      /\ EvictIn(q \o <<v>>)
  BY <1>1, AppendKeeps
<1>4. ASSUME ClosedEnds(inbox[t]) PROVE ClosedEnds(q \o <<v>>)
  <2>1. /\ DOMAIN (q \o <<v>>) = 1 .. Len(inbox[t]) + 2 /\ Len(inbox[t]) \in Nat
        /\ \A k \in 1 .. Len(inbox[t]) : (q \o <<v>>)[k] = inbox[t][k]
        /\ (q \o <<v>>)[Len(inbox[t]) + 1] = c /\ (q \o <<v>>)[Len(inbox[t]) + 2] = v
        /\ DOMAIN inbox[t] = 1 .. Len(inbox[t])
    BY <1>1
  <2>2. v[1] = "evict"
    OBVIOUS
  <2> HIDE DEF q, v, c
  <2> QED
    BY <1>4, <2>1, <2>2 DEF ClosedEnds
<1>5. /\ inbox'[t] = inbox[t] \/ inbox'[t] = q \o <<v>>
      /\ link[t] = "open" => inbox'[t] = q \o <<v>>
  BY PublishedClose DEF ForceClose, PresenceTypeOK
<1> HIDE DEF q
<1> QED
  BY <1>2, <1>3, <1>4, <1>5

-----------------------------------------------------------------------------
(* RoomPresence: answers and keys *)

LEMMA QueueStep ==
    ASSUME PresenceTypeOK, \A s \in Sockets : QueueOK(s), [PresenceNext]_presenceVars,
           NEW t \in Sockets
    PROVE QueueOK(t)'
<1> inbox[t] \in Seq(Event)
  BY DEF PresenceTypeOK
<1>1. ASSUME inbox'[t] = inbox[t], join'[t] = join[t] \/ join[t] # "await"
      PROVE QueueOK(t)'
  BY <1>1 DEF QueueOK
<1>2. ASSUME NEW s \in Sockets, Connect(s) \/ Enter(s) \/ Locate(s) \/ Compare(s) \/ ReadCurrent(s) \/ ClearKeys(s)
      PROVE QueueOK(t)'
  BY <1>1, <1>2 DEF Connect, Enter, Locate, Compare, ReadCurrent, ClearKeys, PresenceTypeOK
<1>3. ASSUME NEW s \in Sockets, Fetch(s) PROVE QueueOK(t)'
  <2>1. PICK e \in Event : e[1] = "sockets" /\ inbox' = [inbox EXCEPT ![s] = Append(@, e)]
    BY <1>3, Kinds DEF Fetch, PresenceTypeOK
  <2>2. CASE t = s
    <3>1. inbox'[s] = inbox[s] \o <<e>>
      BY <2>1, <2>2, Appended DEF PresenceTypeOK
    <3>2. ~AnswerComes(inbox[s]) /\ join'[s] = "await"
      BY <1>3 DEF Fetch, QueueOK, PresenceTypeOK
    <3>3. inbox[s] \in Seq(Event) /\ OneAnswer(inbox[s]) /\ ClosedEnds(inbox[s]) /\ e[1] # "closed"
      BY <2>1 DEF QueueOK, PresenceTypeOK
    <3>4. OneAnswer(inbox[s] \o <<e>>) /\ ClosedEnds(inbox[s] \o <<e>>)
      BY <3>2, <3>3, AppendKeeps
    <3> QED
      BY <2>2, <3>1, <3>2, <3>4 DEF QueueOK
  <2> QED
    BY <1>1, <1>3, <2>1, <2>2 DEF Fetch, PresenceTypeOK
<1>4. ASSUME NEW s \in Sockets, FetchedNobody(s) \/ FetchedPeer(s) \/ Deliver(s), t = s
      PROVE /\ OneAnswer(Tail(inbox[t])) /\ ClosedEnds(Tail(inbox[t]))
            /\ AnswerComes(Tail(inbox[t])) => AnswerComes(inbox[t]) /\ Deliver(s)
  <2>1. inbox[t] # <<>> /\ (~Deliver(s) => Head(inbox[t])[1] = "sockets")
    BY <1>4 DEF FetchedNobody, FetchedPeer, Deliver
  <2> QED
    BY <1>4, <2>1, TailKeeps DEF QueueOK
<1>5. ASSUME NEW s \in Sockets, FetchedNobody(s) PROVE QueueOK(t)'
  <2> DEFINE under == [inbox EXCEPT ![s] = Tail(@)]
  <2>1. under \in [Sockets -> Seq(Event)] /\ <<"joined", Owner[s]>> \in Event
    BY <1>5, HeadTaken, Kinds DEF FetchedNobody, PresenceTypeOK
  <2>2. OneAnswer(under[t]) /\ ClosedEnds(under[t]) /\ (AnswerComes(under[t]) => t # s /\ AnswerComes(inbox[t]))
    BY <1>4, <1>5 DEF QueueOK, PresenceTypeOK, FetchedNobody, Deliver
  <2>3. Publish(under, <<<<"joined", Owner[s]>>>>, {s})
    BY <1>5 DEF FetchedNobody
  <2> HIDE DEF under
  <2>4. OneAnswer(inbox'[t]) /\ ClosedEnds(inbox'[t]) /\ (AnswerComes(inbox'[t]) => AnswerComes(under[t]))
    BY <2>1, <2>2, <2>3, QueueGrows
  <2> QED
    BY <1>5, <2>2, <2>4 DEF QueueOK, FetchedNobody, PresenceTypeOK
<1>6. ASSUME NEW s \in Sockets, FetchedPeer(s) \/ Deliver(s) PROVE QueueOK(t)'
  <2>1. CASE t = s
    BY <1>4, <1>6, <2>1 DEF QueueOK, FetchedPeer, Deliver, PresenceTypeOK
  <2> QED
    BY <1>1, <1>6, <2>1 DEF FetchedPeer, Deliver, PresenceTypeOK
<1>7. ASSUME NEW s \in Sockets, Announce(s) \/ Leave(s) PROVE QueueOK(t)'
  <2>1. PICK e \in Event : e[1] \in {"joined", "left"} /\ Publish(inbox, <<e>>, {s})
    BY <1>7, Kinds DEF Announce, Leave
  <2>2. OneAnswer(inbox'[t]) /\ ClosedEnds(inbox'[t]) /\ (AnswerComes(inbox'[t]) => AnswerComes(inbox[t]))
    BY <2>1, QueueGrows DEF QueueOK, PresenceTypeOK
  <2>3. join'[t] = join[t] \/ join[t] # "await"
    BY <1>7 DEF Announce, Leave, PresenceTypeOK
  <2> QED
    BY <2>2, <2>3 DEF QueueOK
<1>8. ASSUME NEW s \in Sockets, Disconnect(s) PROVE QueueOK(t)'
  <2> DEFINE under == [inbox EXCEPT ![s] = AnswerIn(@)]
  <2>1. under \in [Sockets -> Seq(Event)]
    BY AnswerKept DEF PresenceTypeOK
  <2>2. OneAnswer(under[t]) /\ ClosedEnds(under[t]) /\ (AnswerComes(under[t]) => AnswerComes(inbox[t]))
    BY AnswerKept DEF QueueOK, PresenceTypeOK
  <2>3. CASE s \in entry
    <3>1. Publish(under, <<<<"left", Owner[s]>>>>, {s}) /\ <<"left", Owner[s]>> \in Event
      BY <1>8, <2>3, Kinds DEF Disconnect
    <3> HIDE DEF under
    <3>2. OneAnswer(inbox'[t]) /\ ClosedEnds(inbox'[t]) /\ (AnswerComes(inbox'[t]) => AnswerComes(inbox[t]))
      BY <2>1, <2>2, <3>1, QueueGrows
    <3> QED
      BY <1>8, <3>2 DEF QueueOK, Disconnect
  <2>4. CASE s \notin entry
    <3>1. inbox' = under
      BY <1>8, <2>1, <2>4, PublishedNone DEF Disconnect
    <3> QED
      BY <1>8, <2>2, <3>1 DEF QueueOK, Disconnect
  <2> QED
    BY <2>3, <2>4
<1>9. ASSUME ForceClose PROVE QueueOK(t)'
  BY <1>9, QueueCloses DEF QueueOK, ForceClose
<1>10. ASSUME UNCHANGED presenceVars PROVE QueueOK(t)'
  BY <1>1, <1>10 DEF presenceVars
<1> QED
  BY <1>2, <1>3, <1>5, <1>6, <1>7, <1>8, <1>9, <1>10 DEF PresenceNext

LEMMA KeysStep ==
    ASSUME PresenceTypeOK, KeysStand, [PresenceNext]_presenceVars
    PROVE KeysStand'
<1>1. ASSUME NEW s \in Sockets, Connect(s) \/ Disconnect(s) \/ ReadCurrent(s) \/ ClearKeys(s)
      PROVE KeysStand'
  BY <1>1 DEF Connect, Disconnect, ReadCurrent, ClearKeys, KeysStand, PresenceTypeOK, redis
<1>2. ASSUME UNCHANGED <<link, keys, cleanup>> PROVE KeysStand'
  BY <1>2 DEF KeysStand
<1>3. ASSUME NEW s \in Sockets, \/ Enter(s) \/ Fetch(s) \/ FetchedNobody(s) \/ FetchedPeer(s) \/ Announce(s)
                                \/ Locate(s) \/ Compare(s) \/ Leave(s) \/ Deliver(s)
      PROVE UNCHANGED <<link, keys, cleanup>>
  BY <1>3 DEF Enter, Fetch, FetchedNobody, FetchedPeer, Announce, Locate, Compare, Leave, Deliver, redis
<1>4. ForceClose \/ UNCHANGED presenceVars => UNCHANGED <<link, keys, cleanup>>
  BY DEF ForceClose, presenceVars, redis
<1> QED
  BY <1>1, <1>2, <1>3, <1>4 DEF PresenceNext

-----------------------------------------------------------------------------
(* RoomPresence: who is in the room, and who was found there *)

LEMMA RoomStep ==
    ASSUME PresenceTypeOK, RoomInv, [PresenceNext]_presenceVars
    PROVE RoomInv'
<1>1. ASSUME NEW s \in Sockets, Enter(s) PROVE RoomInv'
  <2>1. /\ member' = member \cup {s} /\ entry' = entry \cup {s}
        /\ accompanied' = (accompanied \ {s}) \cup Together(member')
        /\ doubled' = IF Others(s) = {} THEN doubled \ {s} ELSE doubled \cup (Others(s) \cap member) \cup {s}
    BY <1>1 DEF Enter
  <2>2. ASSUME NEW x \in member', NEW t \in member', Owner[x] # Owner[t] PROVE t \in accompanied'
    BY <2>1, <2>2 DEF Together
  <2>3. ASSUME NEW x \in member' \cup entry', NEW t \in member', x # t, Owner[x] = Owner[t]
        PROVE t \in doubled'
    <3>1. CASE t = s
      BY <2>1, <2>3, <3>1 DEF Others
    <3>2. CASE x = s
      BY <2>1, <2>3, <3>2 DEF Others
    <3>3. CASE x # s /\ t # s
      <4>1. t \in doubled
        BY <2>1, <2>3, <3>3 DEF RoomInv
      <4> QED
        BY <2>1, <3>3, <4>1
    <3> QED
      BY <3>1, <3>2, <3>3
  <2> QED
    BY <2>2, <2>3 DEF RoomInv
<1>2. ASSUME NEW out, Forget(out), member' = member \ out, entry' \subseteq entry PROVE RoomInv'
  BY <1>2 DEF Forget, RoomInv
<1>3. ASSUME NEW s \in Sockets, Leave(s) \/ Disconnect(s) \/ Deliver(s)
      PROVE \E out : Forget(out) /\ member' = member \ out /\ entry' \subseteq entry
  <2>1. CASE Deliver(s) /\ Head(inbox[s])[1] # "evict"
    <3>1. Forget({}) /\ member' = member \ {} /\ entry' \subseteq entry
      BY <2>1 DEF Deliver
    <3> QED
      BY <3>1
  <2>2. CASE Leave(s) \/ Disconnect(s) \/ (Deliver(s) /\ Head(inbox[s])[1] = "evict")
    <3>1. Forget({s}) /\ member' = member \ {s} /\ entry' \subseteq entry
      BY <2>2 DEF Leave, Disconnect, Deliver
    <3> QED
      BY <3>1
  <2> QED
    BY <1>3, <2>1, <2>2
<1>4. ASSUME UNCHANGED <<member, entry, accompanied, doubled>> PROVE RoomInv'
  BY <1>4 DEF RoomInv
<1>5. ASSUME NEW s \in Sockets, \/ Connect(s) \/ Fetch(s) \/ FetchedNobody(s) \/ FetchedPeer(s) \/ Announce(s)
                                \/ Locate(s) \/ Compare(s) \/ ReadCurrent(s) \/ ClearKeys(s)
      PROVE UNCHANGED <<member, entry, accompanied, doubled>>
  BY <1>5 DEF Connect, Fetch, FetchedNobody, FetchedPeer, Announce, Locate, Compare, ReadCurrent, ClearKeys,
              sinceJoined
<1>6. ForceClose \/ UNCHANGED presenceVars => UNCHANGED <<member, entry, accompanied, doubled>>
  BY DEF ForceClose, presenceVars, sinceJoined
<1> QED
  BY <1>1, <1>2, <1>3, <1>4, <1>5, <1>6 DEF PresenceNext

LEMMA LocatedStep ==
    ASSUME PresenceTypeOK, LocatedInv, [PresenceNext]_presenceVars
    PROVE LocatedInv'
<1>1. ASSUME NEW u \in Pair, userSocket'[u] # NoSocket PROVE Owner[userSocket'[u]] = u
  <2>1. ASSUME NEW s \in Sockets, Connect(s) \/ ClearKeys(s)
        PROVE userSocket'[u] \in {userSocket[u], NoSocket} \/ (userSocket'[u] = s /\ u = Owner[s])
    BY <2>1, PeerIsOther DEF Connect, ClearKeys, PresenceTypeOK
  <2>2. ASSUME NEW s \in Sockets, \/ Enter(s) \/ Fetch(s) \/ FetchedNobody(s) \/ FetchedPeer(s) \/ Announce(s)
                                  \/ Locate(s) \/ Compare(s) \/ Leave(s) \/ Disconnect(s) \/ ReadCurrent(s)
                                  \/ Deliver(s)
        PROVE userSocket' = userSocket
    BY <2>2 DEF Enter, Fetch, FetchedNobody, FetchedPeer, Announce, Locate, Compare, Leave, Disconnect,
                ReadCurrent, Deliver, redis
  <2>3. ForceClose \/ UNCHANGED presenceVars => userSocket' = userSocket
    BY DEF ForceClose, presenceVars, redis
  <2> QED
    BY <1>1, <2>1, <2>2, <2>3 DEF PresenceNext, LocatedInv
<1>2. ASSUME NEW t \in Sockets, join'[t] = "compare"
      PROVE found'[t] # NoSocket /\ Owner[found'[t]] = Peer(t)
  <2>1. ASSUME NEW s \in Sockets, Locate(s), s = t
        PROVE found'[t] # NoSocket /\ Owner[found'[t]] = Peer(t)
    <3>1. userSocket[Peer(t)] # NoSocket /\ found'[t] = userSocket[Peer(t)]
      BY <1>2, <2>1 DEF Locate, PresenceTypeOK
    <3> QED
      BY <3>1, PeerIsOther DEF LocatedInv
  <2>2. ASSUME NEW s \in Sockets, \/ Connect(s) \/ Enter(s) \/ Fetch(s) \/ FetchedNobody(s) \/ FetchedPeer(s)
                                  \/ Announce(s) \/ Compare(s) \/ (Locate(s) /\ s # t)
        PROVE join[t] = "compare" /\ found'[t] = found[t]
    BY <1>2, <2>2 DEF Connect, Enter, Fetch, FetchedNobody, FetchedPeer, Announce, Compare, Locate, PresenceTypeOK
  <2>3. ASSUME NEW s \in Sockets, Leave(s) \/ Disconnect(s) \/ ReadCurrent(s) \/ ClearKeys(s) \/ Deliver(s)
        PROVE join[t] = "compare" /\ found'[t] = found[t]
    BY <1>2, <2>3 DEF Leave, Disconnect, ReadCurrent, ClearKeys, Deliver
  <2>4. ForceClose \/ UNCHANGED presenceVars => join[t] = "compare" /\ found'[t] = found[t]
    BY <1>2 DEF ForceClose, presenceVars
  <2> QED
    BY <2>1, <2>2, <2>3, <2>4 DEF PresenceNext, LocatedInv
<1> QED
  BY <1>1, <1>2 DEF LocatedInv, Peer

\* The answers on their way to t are those that were.
LEMMA ToldStands ==
    ASSUME NEW t \in Sockets, ToldOK(t), t \in member' => t \in member,
           join'[t] = join[t] \/ join'[t] \notin {"none", "name"},
           t \in member' /\ t \in accompanied \cup doubled => t \in accompanied' \cup doubled',
           t \in member' /\ t \in waitingSent \cup misled => t \in waitingSent' \cup misled',
           \A k \in DOMAIN inbox'[t] : inbox'[t][k] \in {"sockets"} \X Sockets =>
               \E m \in DOMAIN inbox[t] : inbox[t][m] = inbox'[t][k]
    PROVE ToldOK(t)'
  BY DEF ToldOK

\* What is published to the room are no answers.
LEMMA NoNewAnswer ==
    ASSUME NEW under \in [Sockets -> Seq(Event)], NEW e \in Event, e[1] \in {"joined", "left"},
           NEW except, Publish(under, <<e>>, except), NEW t \in Sockets
    PROVE \A k \in DOMAIN inbox'[t] : inbox'[t][k] \in {"sockets"} \X Sockets =>
              \E m \in DOMAIN under[t] : under[t][m] = inbox'[t][k]
<1>1. under[t] \in Seq(Event) /\ (inbox'[t] = under[t] \/ inbox'[t] = under[t] \o <<e>>)
  BY PublishedOne
<1>2. \A k \in DOMAIN (under[t] \o <<e>>) : (under[t] \o <<e>>)[k] \in {"sockets"} \X Sockets =>
          \E m \in DOMAIN under[t] : under[t][m] = (under[t] \o <<e>>)[k]
  <2> SUFFICES ASSUME NEW k \in DOMAIN (under[t] \o <<e>>), (under[t] \o <<e>>)[k][1] = "sockets"
               PROVE \E m \in DOMAIN under[t] : under[t][m] = (under[t] \o <<e>>)[k]
    OBVIOUS
  <2> QED
    BY <1>1, Appended
<1> QED
  BY <1>1, <1>2

LEMMA FewerInTail ==
    ASSUME NEW q \in Seq(Event), q # <<>>
    PROVE \A k \in DOMAIN Tail(q) : \E m \in DOMAIN q : q[m] = Tail(q)[k]
  BY Taken

LEMMA FewerInAnswer ==
    ASSUME NEW q
    PROVE \A k \in DOMAIN AnswerIn(q) : \E m \in DOMAIN q : q[m] = AnswerIn(q)[k]
<1> DEFINE answers == {q[k] : k \in DOMAIN q} \cap ({"sockets"} \X (Sockets \cup {NoSocket}))
<1>1. CASE answers = {}
  BY <1>1 DEF AnswerIn
<1>2. CASE answers # {}
  <2>1. PICK e \in answers : AnswerIn(q) = <<e>>
    BY <1>2 DEF AnswerIn
  <2> QED
    BY <2>1
<1> QED
  BY <1>1, <1>2

\* fetchSockets answers with a socket that is there: s meets it, or has.
LEMMA FetchFindsMet ==
    ASSUME PresenceTypeOK, RoomInv, NEW s \in member, NEW p \in member \ {s}
    PROVE s \in accompanied \cup doubled
<1>1. s \in Sockets /\ p \in Sockets
  BY DEF PresenceTypeOK
<1>2. CASE Owner[p] # Owner[s]
  BY <1>2 DEF RoomInv
<1>3. CASE Owner[p] = Owner[s]
  BY <1>3 DEF RoomInv
<1> QED
  BY <1>2, <1>3

LEMMA ToldStep ==
    ASSUME PresenceTypeOK, RoomInv, LocatedInv, NEW t \in Sockets, QueueOK(t), ToldOK(t),
           [PresenceNext]_presenceVars
    PROVE ToldOK(t)'
<1> inbox \in [Sockets -> Seq(Event)] /\ inbox[t] \in Seq(Event)
  BY DEF PresenceTypeOK
<1>1. ASSUME NEW s \in Sockets, Enter(s) PROVE ToldOK(t)'
  <2>1. CASE t = s
    <3>1. join'[t] = "fetch" /\ ~AnswerComes(inbox'[t])
      BY <1>1, <2>1 DEF Enter, QueueOK, PresenceTypeOK
    <3> QED
      BY <3>1 DEF ToldOK, AnswerComes
  <2>2. CASE t # s
    <3>1. inbox'[t] = inbox[t] /\ join'[t] = join[t] /\ (t \in member' => t \in member)
      BY <1>1, <2>2 DEF Enter, PresenceTypeOK
    <3>2. /\ t \in accompanied \cup doubled => t \in accompanied' \cup doubled'
          /\ t \in waitingSent \cup misled => t \in waitingSent' \cup misled'
      BY <1>1, <2>2 DEF Enter
    <3> QED
      BY <3>1, <3>2, ToldStands
  <2> QED
    BY <2>1, <2>2
<1>2. ASSUME NEW s \in Sockets, Fetch(s) PROVE ToldOK(t)'
  <2>1. PICK p \in IF member \subseteq {s} THEN {NoSocket} ELSE member \ {s} :
            inbox' = [inbox EXCEPT ![s] = Append(@, <<"sockets", p>>)]
    BY <1>2 DEF Fetch
  <2>2. UNCHANGED <<member, accompanied, doubled, waitingSent, misled>> /\ join'[s] = "await"
    BY <1>2 DEF Fetch, sinceJoined, PresenceTypeOK
  <2>3. CASE t = s
    <3>1. ASSUME t \in member, NEW k \in DOMAIN inbox'[t], inbox'[t][k] \in {"sockets"} \X Sockets
          PROVE t \in accompanied \cup doubled
      <4>1. CASE p \in member \ {s}
        BY <2>3, <3>1, <4>1, FetchFindsMet
      <4>2. CASE p = NoSocket
        <5>1. <<"sockets", p>> \in Event
          BY <4>2, Kinds
        <5>2. /\ DOMAIN inbox'[t] = 1 .. Len(inbox[t]) + 1 /\ inbox'[t][Len(inbox[t]) + 1] = <<"sockets", p>>
              /\ \A m \in 1 .. Len(inbox[t]) : inbox'[t][m] = inbox[t][m]
              /\ Len(inbox[t]) \in Nat /\ DOMAIN inbox[t] = 1 .. Len(inbox[t])
          BY <2>1, <2>3, <5>1, Appended
        <5>3. <<"sockets", p>> \notin {"sockets"} \X Sockets
          BY <4>2, PresenceAssumption
        <5>4. k \in DOMAIN inbox[t] /\ inbox'[t][k] = inbox[t][k]
          BY <3>1, <5>2, <5>3
        <5> QED
          BY <3>1, <5>4 DEF ToldOK
      <4> QED
        BY <2>1, <4>1, <4>2
    <3> QED
      BY <2>2, <2>3, <3>1 DEF ToldOK
  <2>4. CASE t # s
    <3>1. inbox'[t] = inbox[t] /\ join'[t] = join[t]
      BY <1>2, <2>1, <2>4 DEF Fetch, PresenceTypeOK
    <3> QED
      BY <2>2, <3>1, ToldStands
  <2> QED
    BY <2>3, <2>4
<1>3. ASSUME NEW s \in Sockets, FetchedNobody(s) PROVE ToldOK(t)'
  <2> DEFINE under == [inbox EXCEPT ![s] = Tail(@)]
  <2>1. under \in [Sockets -> Seq(Event)] /\ <<"joined", Owner[s]>> \in Event
    BY <1>3, HeadTaken, Kinds DEF FetchedNobody
  <2>2. Publish(under, <<<<"joined", Owner[s]>>>>, {s})
    BY <1>3 DEF FetchedNobody
  <2>3. \A k \in DOMAIN under[t] : \E m \in DOMAIN inbox[t] : inbox[t][m] = under[t][k]
    BY <1>3, FewerInTail DEF FetchedNobody
  <2> HIDE DEF under
  <2>4. \A k \in DOMAIN inbox'[t] : inbox'[t][k] \in {"sockets"} \X Sockets =>
              \E m \in DOMAIN under[t] : under[t][m] = inbox'[t][k]
    BY <2>1, <2>2, NoNewAnswer
  <2>5. \A k \in DOMAIN inbox'[t] : inbox'[t][k] \in {"sockets"} \X Sockets =>
              \E m \in DOMAIN inbox[t] : inbox[t][m] = inbox'[t][k]
    BY <2>3, <2>4
  <2>6. join'[t] \in {join[t], "locate"} /\ member' = member /\ UNCHANGED sinceJoined
    BY <1>3 DEF FetchedNobody, PresenceTypeOK
  <2> QED
    BY <2>5, <2>6, ToldStands DEF sinceJoined
<1>4. ASSUME NEW s \in Sockets, FetchedPeer(s) PROVE ToldOK(t)'
  <2>1. UNCHANGED <<member, accompanied, doubled, waitingSent, misled>>
    BY <1>4 DEF FetchedPeer, sinceJoined
  <2>2. CASE t = s
    <3>1. inbox[t][1] \in {"sockets"} \X Sockets /\ 1 \in DOMAIN inbox[t]
      BY <1>4, <2>2, Taken DEF FetchedPeer
    <3>2. t \in member => t \in accompanied \cup doubled
      BY <3>1 DEF ToldOK
    <3> QED
      BY <2>1, <3>2 DEF ToldOK
  <2>3. CASE t # s
    BY <1>4, <2>1, <2>3, ToldStands DEF FetchedPeer, PresenceTypeOK
  <2> QED
    BY <2>2, <2>3
<1>5. ASSUME NEW s \in Sockets, Announce(s) PROVE ToldOK(t)'
  <2>1. UNCHANGED <<member, accompanied, doubled, waitingSent, misled>>
    BY <1>5 DEF Announce, sinceJoined
  <2>2. \A k \in DOMAIN inbox'[t] : inbox'[t][k] \in {"sockets"} \X Sockets =>
              \E m \in DOMAIN inbox[t] : inbox[t][m] = inbox'[t][k]
    BY <1>5, Kinds, NoNewAnswer DEF Announce
  <2>3. CASE t = s
    <3>1. t \in member => t \in accompanied \cup doubled
      BY <1>5, <2>3 DEF ToldOK, Announce
    <3> QED
      BY <2>1, <3>1 DEF ToldOK
  <2>4. CASE t # s
    BY <1>5, <2>1, <2>2, <2>4, ToldStands DEF Announce, PresenceTypeOK
  <2> QED
    BY <2>3, <2>4
<1>6. ASSUME NEW s \in Sockets, Locate(s) PROVE ToldOK(t)'
  <2>1. inbox' = inbox /\ member' = member /\ accompanied' = accompanied /\ doubled' = doubled /\ misled' = misled
    BY <1>6 DEF Locate
  <2>2. CASE t = s
    <3>1. join'[t] = "compare" \/ (join'[t] = "none" /\ (t \in member => t \in waitingSent'))
      BY <1>6, <2>2 DEF Locate, SendWaiting, PresenceTypeOK
    <3> QED
      BY <2>1, <3>1 DEF ToldOK
  <2>3. CASE t # s
    <3>1. join'[t] = join[t] /\ waitingSent \subseteq waitingSent'
      BY <1>6, <2>3 DEF Locate, SendWaiting, PresenceTypeOK
    <3> QED
      BY <2>1, <3>1, ToldStands
  <2> QED
    BY <2>2, <2>3
<1>7. ASSUME NEW s \in Sockets, Compare(s) PROVE ToldOK(t)'
  <2>1. inbox' = inbox /\ member' = member /\ accompanied' = accompanied /\ doubled' = doubled
    BY <1>7 DEF Compare
  <2>2. waitingSent \subseteq waitingSent' /\ misled \subseteq misled'
    BY <1>7 DEF Compare, SendWaiting
  <2>3. CASE t = s
    <3>1. join'[t] = "none"
      BY <1>7, <2>3 DEF Compare, PresenceTypeOK
    <3>2. found[t] \in member /\ t \in member => t \in accompanied
      BY <1>7, <2>3, PeerIsOther DEF Compare, LocatedInv, RoomInv
    <3>3. found[t] \notin member /\ t \in member => t \in waitingSent' \cup misled'
      BY <1>7, <2>3 DEF Compare, SendWaiting
    <3>4. t \in member' => t \in accompanied' \cup doubled' \cup waitingSent' \cup misled'
      BY <2>1, <3>2, <3>3
    <3> QED
      BY <2>1, <3>1, <3>4 DEF ToldOK
  <2>4. CASE t # s
    <3>1. join'[t] = join[t]
      BY <1>7, <2>4 DEF Compare, PresenceTypeOK
    <3> QED
      BY <2>1, <2>2, <3>1, ToldStands
  <2> QED
    BY <2>3, <2>4
<1>8. ASSUME NEW s \in Sockets, Leave(s) \/ Disconnect(s) \/ Deliver(s), t # s PROVE ToldOK(t)'
  <2>1. join'[t] = join[t] /\ (t \in member' => t \in member)
    BY <1>8 DEF Leave, Disconnect, Deliver
  <2>2. /\ t \in accompanied \cup doubled => t \in accompanied' \cup doubled'
        /\ t \in waitingSent \cup misled => t \in waitingSent' \cup misled'
    BY <1>8 DEF Leave, Disconnect, Deliver, Forget
  <2>3. \A k \in DOMAIN inbox'[t] : inbox'[t][k] \in {"sockets"} \X Sockets =>
              \E m \in DOMAIN inbox[t] : inbox[t][m] = inbox'[t][k]
    <3>1. CASE Leave(s)
      BY <3>1, Kinds, NoNewAnswer DEF Leave
    <3>2. CASE Disconnect(s)
      <4> DEFINE under == [inbox EXCEPT ![s] = AnswerIn(@)]
      <4>1. under \in [Sockets -> Seq(Event)] /\ under[t] = inbox[t]
        BY <1>8, AnswerKept
      <4>2. CASE s \in entry
        <5>1. Publish(under, <<<<"left", Owner[s]>>>>, {s})
          BY <3>2, <4>2 DEF Disconnect
        <5> HIDE DEF under
        <5>2. \A k \in DOMAIN inbox'[t] : inbox'[t][k] \in {"sockets"} \X Sockets =>
                  \E m \in DOMAIN under[t] : under[t][m] = inbox'[t][k]
          BY <4>1, <5>1, Kinds, NoNewAnswer
        <5> QED
          BY <4>1, <5>2
      <4>3. CASE s \notin entry
        <5>1. Publish(under, <<>>, {s})
          BY <3>2, <4>3 DEF Disconnect
        <5> HIDE DEF under
        <5>2. inbox' = under
          BY <4>1, <5>1, PublishedNone
        <5> QED
          BY <4>1, <5>2
      <4> QED
        BY <4>2, <4>3
    <3>3. CASE Deliver(s)
      BY <1>8, <3>3 DEF Deliver
    <3> QED
      BY <1>8, <3>1, <3>2, <3>3
  <2> QED
    BY <2>1, <2>2, <2>3, ToldStands
<1>9. ASSUME NEW s \in Sockets, Leave(s) \/ Disconnect(s) \/ Deliver(s), t = s PROVE ToldOK(t)'
  <2>1. CASE t \notin member'
    BY <2>1 DEF ToldOK
  <2>2. CASE t \in member'
    <3>1. Deliver(s) /\ Head(inbox[s])[1] # "evict" /\ inbox[s] # <<>>
      BY <1>9, <2>2 DEF Leave, Disconnect, Deliver
    <3>2. /\ member' = member /\ join' = join
          /\ accompanied' = accompanied /\ doubled' = doubled /\ waitingSent' = waitingSent /\ misled' = misled
      BY <3>1 DEF Deliver, Forget
    <3>3. \A k \in DOMAIN inbox'[t] : \E m \in DOMAIN inbox[t] : inbox[t][m] = inbox'[t][k]
      <4>1. inbox'[t] = Tail(inbox[t])
        BY <1>9, <3>1 DEF Deliver
      <4> QED
        BY <1>9, <3>1, <4>1, FewerInTail
    <3> QED
      BY <3>2, <3>3, ToldStands
  <2> QED
    BY <2>1, <2>2
<1>10. ASSUME ForceClose PROVE ToldOK(t)'
  <2> DEFINE c == <<"closed", NoSocket>>
             v == <<"evict", NoSocket>>
             q == inbox[t] \o <<c>>
  <2>1. c \in Event /\ v \in Event /\ c[1] # "sockets" /\ v[1] # "sockets"
    BY DEF Event
  <2>2. inbox'[t] = inbox[t] \/ inbox'[t] = q \o <<v>>
    BY <1>10, PublishedClose DEF ForceClose
  <2> HIDE DEF c, v
  <2>3. q \in Seq(Event)
    BY <2>1, Appended
  <2>4. \A k \in DOMAIN q : q[k][1] = "sockets" => \E m \in DOMAIN inbox[t] : inbox[t][m] = q[k]
    BY <2>1, Appended
  <2> HIDE DEF q
  <2>5. \A k \in DOMAIN (q \o <<v>>) : (q \o <<v>>)[k][1] = "sockets" =>
            \E m \in DOMAIN q : q[m] = (q \o <<v>>)[k]
    BY <2>1, <2>3, Appended
  <2>6. \A k \in DOMAIN inbox'[t] : inbox'[t][k] \in {"sockets"} \X Sockets =>
              \E m \in DOMAIN inbox[t] : inbox[t][m] = inbox'[t][k]
    <3> SUFFICES ASSUME NEW k \in DOMAIN inbox'[t], inbox'[t][k][1] = "sockets"
                 PROVE \E m \in DOMAIN inbox[t] : inbox[t][m] = inbox'[t][k]
      OBVIOUS
    <3> QED
      BY <2>2, <2>4, <2>5
  <2> QED
    BY <1>10, <2>6, ToldStands DEF ForceClose, sinceJoined
<1>11. ASSUME \/ UNCHANGED presenceVars
              \/ \E s \in Sockets : Connect(s) \/ ReadCurrent(s) \/ ClearKeys(s)
       PROVE ToldOK(t)'
  <2>1. UNCHANGED <<member, join, inbox, sinceJoined>>
    BY <1>11 DEF presenceVars, Connect, ReadCurrent, ClearKeys
  <2> QED
    BY <2>1, ToldStands DEF sinceJoined
<1> QED
  BY <1>1, <1>2, <1>3, <1>4, <1>5, <1>6, <1>7, <1>8, <1>9, <1>10, <1>11 DEF PresenceNext

-----------------------------------------------------------------------------
(* RoomPresence: who knows of whom *)

\* What a step leaves of what t knows or has on its way.
Undisturbed(t) ==
    /\ join[t] \in Announcing => join'[t] = join[t] /\ found'[t] = found[t]
    /\ t \in informed => t \in informed'
    /\ EvictIn(inbox[t]) => EvictIn(inbox'[t])
    /\ ~ComesAfter(inbox[t], 0, PeerLeft(t)) => ~ComesAfter(inbox'[t], 0, PeerLeft(t))
    /\ \A x : Standing(inbox[t], x, PeerLeft(t)) => Standing(inbox'[t], x, PeerLeft(t))

LEMMA UndisturbedKnows ==
    ASSUME NEW s, NEW t, Knows(s, t), Undisturbed(s)
    PROVE Knows(s, t)'
<1>1. /\ PeerLeft(s)' = PeerLeft(s) /\ Peer(s)' = Peer(s)
  BY DEF PeerLeft, Peer
<1>2. CASE join[s] = "fetch"
  BY <1>2 DEF Undisturbed, Announcing, Knows
<1>3. CASE Standing(inbox[s], <<"joined", Peer(s)>>, PeerLeft(s))
  BY <1>1, <1>3 DEF Undisturbed, Knows
<1>4. CASE join[s] = "await" /\ Standing(inbox[s], <<"sockets", t>>, PeerLeft(s))
  BY <1>1, <1>4 DEF Undisturbed, Announcing, Knows
<1>5. CASE join[s] = "name" /\ found[s] = t /\ ~ComesAfter(inbox[s], 0, PeerLeft(s))
  BY <1>1, <1>5 DEF Undisturbed, Announcing, Knows
<1>6. CASE s \in informed /\ ~ComesAfter(inbox[s], 0, PeerLeft(s))
  BY <1>1, <1>6 DEF Undisturbed, Knows
<1> QED
  BY <1>2, <1>3, <1>4, <1>5, <1>6 DEF Knows

LEMMA UndisturbedPair ==
    ASSUME NEW s, NEW t, PairOK(s, t), Undisturbed(s), Undisturbed(t),
           s \in member' => s \in member, t \in member' => t \in member,
           s \notin doubled' => s \notin doubled, t \notin doubled' => t \notin doubled
    PROVE PairOK(s, t)'
<1> SUFFICES ASSUME s \in member', t \in member', Owner[s] # Owner[t], s \notin doubled', t \notin doubled'
             PROVE (EvictIn(inbox[s]) \/ EvictIn(inbox[t]) \/ join[t] \in Announcing \/ Knows(s, t))'
  BY DEF PairOK
<1>1. EvictIn(inbox[s]) \/ EvictIn(inbox[t]) \/ join[t] \in Announcing \/ Knows(s, t)
  BY DEF PairOK
<1>2. EvictIn(inbox[s]) \/ EvictIn(inbox[t]) => EvictIn(inbox'[s]) \/ EvictIn(inbox'[t])
  BY DEF Undisturbed
<1>3. join[t] \in Announcing => join'[t] \in Announcing
  BY DEF Undisturbed
<1> QED
  BY <1>1, <1>2, <1>3, UndisturbedKnows

\* An event that is not of the peer's leaving disturbs nobody.
LEMMA PublishDisturbsNot ==
    ASSUME NEW under \in [Sockets -> Seq(Event)], NEW e \in Event, e[1] \in {"joined", "left"},
           NEW except, Publish(under, <<e>>, except), NEW t \in Sockets,
           under[t] = inbox[t], e # PeerLeft(t),
           join[t] \in Announcing => join'[t] = join[t] /\ found'[t] = found[t],
           t \in informed => t \in informed'
    PROVE Undisturbed(t)
<1>1. /\ EvictIn(under[t]) => EvictIn(inbox'[t])
      /\ ~ComesAfter(under[t], 0, PeerLeft(t)) => ~ComesAfter(inbox'[t], 0, PeerLeft(t))
      /\ \A x : Standing(under[t], x, PeerLeft(t)) => Standing(inbox'[t], x, PeerLeft(t))
  BY QueueGrows
<1> QED
  BY <1>1 DEF Undisturbed

LEMMA SameDisturbsNot ==
    ASSUME NEW t, inbox'[t] = inbox[t],
           join[t] \in Announcing => join'[t] = join[t] /\ found'[t] = found[t],
           t \in informed => t \in informed'
    PROVE Undisturbed(t)
  BY DEF Undisturbed

LEMMA PairEnter ==
    ASSUME PresenceTypeOK, NEW y \in Sockets, NEW z \in Sockets, PairOK(y, z),
           NEW s \in Sockets, Enter(s)
    PROVE PairOK(y, z)'
<1>1. /\ inbox' = inbox /\ found' = found /\ informed' = informed /\ member' = member \cup {s}
      /\ join' = [join EXCEPT ![s] = "fetch"] /\ doubled \ {s} \subseteq doubled'
  BY DEF Enter
<1>2. CASE y = s
  BY <1>1, <1>2 DEF PairOK, Knows, PresenceTypeOK
<1>3. CASE z = s
  BY <1>1, <1>3 DEF PairOK, Announcing, PresenceTypeOK
<1>4. CASE y # s /\ z # s
  <2>1. Undisturbed(y) /\ Undisturbed(z)
    BY <1>1, <1>4, SameDisturbsNot DEF PresenceTypeOK
  <2> QED
    BY <1>1, <1>4, <2>1, UndisturbedPair
<1> QED
  BY <1>2, <1>3, <1>4

\* fetchSockets answers with the one socket that is there.
LEMMA PairFetch ==
    ASSUME PresenceTypeOK, RoomInv, NEW y \in Sockets, NEW z \in Sockets, PairOK(y, z),
           NEW s \in Sockets, Fetch(s)
    PROVE PairOK(y, z)'
<1>1. PICK p \in IF member \subseteq {s} THEN {NoSocket} ELSE member \ {s} :
          inbox' = [inbox EXCEPT ![s] = Append(@, <<"sockets", p>>)]
  BY DEF Fetch
<1>2. /\ join' = [join EXCEPT ![s] = "await"] /\ found' = found /\ informed' = informed
      /\ member' = member /\ doubled' = doubled
  BY DEF Fetch, sinceJoined
<1>3. \A t \in Sockets : t # s => Undisturbed(t)
  BY <1>1, <1>2, SameDisturbsNot DEF PresenceTypeOK
<1>4. CASE z = s
  BY <1>2, <1>4 DEF PairOK, Announcing, PresenceTypeOK
<1>5. CASE y = s
  <2> SUFFICES ASSUME y \in member, z \in member, Owner[y] # Owner[z], y \notin doubled, z \notin doubled
               PROVE Knows(y, z)'
    BY <1>2 DEF PairOK
  <2>1. p = z
    <3>1. p \in member /\ p # s /\ p \in Sockets
      BY <1>1, <1>5 DEF PresenceTypeOK
    <3>2. Owner[p] # Owner[y]
      BY <1>5, <3>1 DEF RoomInv
    <3>3. Owner[p] = Owner[z]
      BY <1>5, <3>1, <3>2, PeerIsOther
    <3> QED
      BY <3>1, <3>3 DEF RoomInv
  <2> DEFINE e == <<"sockets", z>>
  <2>2. e \in Event /\ e # PeerLeft(y) /\ inbox[y] \in Seq(Event)
    BY Kinds DEF PeerLeft, PresenceTypeOK
  <2>3. inbox'[y] = Append(inbox[y], e)
    BY <1>1, <1>5, <2>1 DEF PresenceTypeOK
  <2> HIDE DEF e
  <2>4. inbox'[y] = inbox[y] \o <<e>>
    BY <2>2, <2>3, Appended
  <2>5. Standing(inbox'[y], e, PeerLeft(y))
    BY <2>2, <2>4, AppendKeeps
  <2>6. join'[y] = "await"
    BY <1>2, <1>5 DEF PresenceTypeOK
  <2> QED
    BY <2>5, <2>6 DEF Knows, PeerLeft, Peer, e
<1>6. CASE y # s /\ z # s
  BY <1>2, <1>3, <1>6, UndisturbedPair
<1> QED
  BY <1>4, <1>5, <1>6

\* The announcement of s is on its way to the others in the room.
LEMMA AnnouncedTo ==
    ASSUME PresenceTypeOK, NEW y \in member, NEW s \in Sockets, Owner[y] # Owner[s],
           NEW under \in [Sockets -> Seq(Event)], Publish(under, <<<<"joined", Owner[s]>>>>, {s})
    PROVE Knows(y, s)'
<1> DEFINE e == <<"joined", Owner[s]>>
<1>1. e \in Event /\ e[1] = "joined" /\ e # PeerLeft(y) /\ y \in Sockets /\ y # s /\ link[y] = "open"
  BY Kinds DEF PeerLeft, PresenceTypeOK
<1>2. e = <<"joined", Peer(y)>>
  BY <1>1, PeerIsOther
<1> HIDE DEF e
<1>3. Publish(under, <<e>>, {s})
  BY DEF e
<1>4. Standing(inbox'[y], e, PeerLeft(y))
  <2>1. y \notin {s}
    BY <1>1
  <2>2. e # PeerLeft(y) /\ y \notin {s} /\ link[y] = "open" => Standing(inbox'[y], e, PeerLeft(y))
    BY <1>1, <1>3, QueueGrows
  <2> QED
    BY <1>1, <2>1, <2>2
<1>5. PeerLeft(y)' = PeerLeft(y) /\ Peer(y)' = Peer(y)
  BY DEF PeerLeft, Peer
<1>6. Standing(inbox'[y], <<"joined", Peer(y)'>>, PeerLeft(y)')
  BY <1>2, <1>4, <1>5
<1> QED
  BY <1>6 DEF Knows

\* The worker of y handles an event that is neither an eviction, nor the peer's leaving: what
\* stands after it stands.
LEMMA PairTail ==
    ASSUME PresenceTypeOK, NEW y \in Sockets, QueueOK(y), inbox[y] # <<>>,
           inbox'[y] = Tail(inbox[y]), Head(inbox[y])[1] # "evict"
    PROVE /\ EvictIn(inbox[y]) => EvictIn(inbox'[y])
          /\ Head(inbox[y])[1] = "closed" => EvictIn(inbox'[y])
          /\ Head(inbox[y])[1] = "sockets" => ~AnswerComes(inbox'[y])
          /\ ~ComesAfter(inbox[y], 0, PeerLeft(y)) =>
                ~ComesAfter(inbox'[y], 0, PeerLeft(y)) /\ Head(inbox[y]) # PeerLeft(y)
          /\ \A x : Standing(inbox[y], x, PeerLeft(y)) =>
                \/ Standing(inbox'[y], x, PeerLeft(y))
                \/ Head(inbox[y]) = x /\ ~ComesAfter(inbox'[y], 0, PeerLeft(y))
<1>1. inbox[y] \in Seq(Event) /\ OneAnswer(inbox[y]) /\ ClosedEnds(inbox[y])
  BY DEF QueueOK, PresenceTypeOK
<1>2. /\ EvictIn(Tail(inbox[y])) \/ ~EvictIn(inbox[y])
      /\ Head(inbox[y])[1] = "closed" => EvictIn(Tail(inbox[y]))
      /\ Head(inbox[y])[1] = "sockets" => ~AnswerComes(Tail(inbox[y]))
  BY <1>1, TailKeeps
<1>3. /\ ~ComesAfter(inbox[y], 0, PeerLeft(y)) =>
                ~ComesAfter(Tail(inbox[y]), 0, PeerLeft(y)) /\ Head(inbox[y]) # PeerLeft(y)
      /\ \A x : Standing(inbox[y], x, PeerLeft(y)) =>
                \/ Standing(Tail(inbox[y]), x, PeerLeft(y))
                \/ Head(inbox[y]) = x /\ ~ComesAfter(Tail(inbox[y]), 0, PeerLeft(y))
  BY <1>1, TailKeeps
<1> QED
  BY <1>2, <1>3

\* Nobody was found: s announces itself, and knew that no answer would name a socket.
LEMMA PairFetchedNobody ==
    ASSUME PresenceTypeOK, NEW y \in Sockets, NEW z \in Sockets, QueueOK(y), PairOK(y, z),
           NEW s \in Sockets, FetchedNobody(s)
    PROVE PairOK(y, z)'
<1> DEFINE under == [inbox EXCEPT ![s] = Tail(@)]
<1>1. /\ join[s] = "await" /\ inbox[s] # <<>> /\ Head(inbox[s]) = <<"sockets", NoSocket>>
      /\ join' = [join EXCEPT ![s] = "locate"] /\ found' = found /\ informed' = informed
      /\ member' = member /\ doubled' = doubled
      /\ Publish(under, <<<<"joined", Owner[s]>>>>, {s})
  BY DEF FetchedNobody, sinceJoined
<1>2. /\ under \in [Sockets -> Seq(Event)] /\ under[s] = Tail(inbox[s])
      /\ \A t \in Sockets : t # s => under[t] = inbox[t]
  BY <1>1, HeadTaken DEF PresenceTypeOK
<1>3. inbox'[s] = Tail(inbox[s])
  BY <1>1, <1>2, Kinds, PublishedOne
<1>4. ASSUME NEW t \in Sockets, t # s PROVE Undisturbed(t)
  <2>1. /\ <<"joined", Owner[s]>> \in Event /\ <<"joined", Owner[s]>>[1] = "joined"
        /\ <<"joined", Owner[s]>> # PeerLeft(t)
    BY Kinds DEF PeerLeft
  <2>2. under[t] = inbox[t] /\ join'[t] = join[t]
    BY <1>1, <1>2, <1>4 DEF PresenceTypeOK
  <2> QED
    BY <1>1, <1>2, <2>1, <2>2, PublishDisturbsNot
<1> SUFFICES ASSUME y \in member, z \in member, Owner[y] # Owner[z], y \notin doubled, z \notin doubled
             PROVE PairOK(y, z)'
  BY <1>1 DEF PairOK
<1>5. CASE z = s
  <2>1. Knows(y, z)'
    BY <1>1, <1>2, <1>5, AnnouncedTo
  <2> QED
    BY <2>1 DEF PairOK
<1>6. CASE y = s
  <2>1. Head(inbox[y]) # <<"joined", Peer(y)>> /\ Head(inbox[y]) # <<"sockets", z>>
        /\ Head(inbox[y])[1] = "sockets" /\ inbox'[y] = Tail(inbox[y]) /\ inbox[y] # <<>>
    BY <1>1, <1>3, <1>6, PresenceAssumption
  <2>2. Undisturbed(z)
    BY <1>4, <1>6
  <2>3. CASE EvictIn(inbox[y]) \/ EvictIn(inbox[z]) \/ join[z] \in Announcing
    BY <2>1, <2>2, <2>3, PairTail DEF Undisturbed, PairOK
  <2>4. CASE Knows(y, z)
    <3>1. join[y] = "await" /\ PeerLeft(y)' = PeerLeft(y) /\ Peer(y)' = Peer(y)
      BY <1>1, <1>6 DEF PeerLeft, Peer
    <3>2. CASE Standing(inbox[y], <<"joined", Peer(y)>>, PeerLeft(y))
      <4>1. Standing(inbox'[y], <<"joined", Peer(y)>>, PeerLeft(y))
        BY <2>1, <3>2, PairTail
      <4> QED
        BY <3>1, <4>1 DEF Knows, PairOK
    <3>3. CASE Standing(inbox[y], <<"sockets", z>>, PeerLeft(y))
      <4>1. Standing(inbox'[y], <<"sockets", z>>, PeerLeft(y)) /\ ~AnswerComes(inbox'[y])
        BY <2>1, <3>3, PairTail
      <4> QED
        BY <4>1 DEF Standing, AnswerComes
    <3>4. CASE y \in informed /\ ~ComesAfter(inbox[y], 0, PeerLeft(y))
      <4>1. y \in informed' /\ ~ComesAfter(inbox'[y], 0, PeerLeft(y)')
        BY <1>1, <2>1, <3>1, <3>4, PairTail
      <4> QED
        BY <4>1 DEF Knows, PairOK
    <3> QED
      BY <2>4, <3>1, <3>2, <3>3, <3>4 DEF Knows
  <2> QED
    BY <2>3, <2>4 DEF PairOK
<1>7. CASE y # s /\ z # s
  BY <1>1, <1>4, <1>7, UndisturbedPair
<1> QED
  BY <1>5, <1>6, <1>7

\* The socket found is that of the peer: s has it in hand.
LEMMA PairFetchedPeer ==
    ASSUME PresenceTypeOK, NEW y \in Sockets, NEW z \in Sockets, QueueOK(y), PairOK(y, z),
           NEW s \in Sockets, FetchedPeer(s)
    PROVE PairOK(y, z)'
<1>1. /\ join[s] = "await" /\ inbox[s] # <<>> /\ Head(inbox[s]) \in {"sockets"} \X Sockets
      /\ found'[s] = Head(inbox[s])[2] /\ inbox'[s] = Tail(inbox[s]) /\ join'[s] = "name"
      /\ informed' = informed /\ member' = member /\ doubled' = doubled
  BY DEF FetchedPeer, sinceJoined, PresenceTypeOK
<1>2. \A t \in Sockets : t # s => Undisturbed(t)
  BY SameDisturbsNot DEF FetchedPeer, PresenceTypeOK
<1> SUFFICES ASSUME y \in member, z \in member, Owner[y] # Owner[z], y \notin doubled, z \notin doubled
             PROVE PairOK(y, z)'
  BY <1>1 DEF PairOK
<1>3. CASE z = s
  BY <1>1, <1>3 DEF PairOK, Announcing
<1>4. CASE y = s
  <2>1. Head(inbox[y]) # <<"joined", Peer(y)>>
        /\ Head(inbox[y])[1] = "sockets" /\ inbox'[y] = Tail(inbox[y]) /\ inbox[y] # <<>>
    BY <1>1, <1>4
  <2>2. Undisturbed(z)
    BY <1>2, <1>4
  <2>3. CASE EvictIn(inbox[y]) \/ EvictIn(inbox[z]) \/ join[z] \in Announcing
    BY <2>1, <2>2, <2>3, PairTail DEF Undisturbed, PairOK
  <2>4. CASE Knows(y, z)
    <3>1. join[y] = "await" /\ PeerLeft(y)' = PeerLeft(y) /\ Peer(y)' = Peer(y)
      BY <1>1, <1>4 DEF PeerLeft, Peer
    <3>2. CASE Standing(inbox[y], <<"joined", Peer(y)>>, PeerLeft(y))
      <4>1. Standing(inbox'[y], <<"joined", Peer(y)>>, PeerLeft(y))
        BY <2>1, <3>2, PairTail
      <4> QED
        BY <3>1, <4>1 DEF Knows, PairOK
    <3>3. CASE Standing(inbox[y], <<"sockets", z>>, PeerLeft(y))
      <4>1. ~AnswerComes(inbox'[y])
        BY <2>1, PairTail
      <4>2. ~Standing(inbox'[y], <<"sockets", z>>, PeerLeft(y))
        BY <4>1 DEF Standing, AnswerComes
      <4>3. Head(inbox[y]) = <<"sockets", z>> /\ ~ComesAfter(inbox'[y], 0, PeerLeft(y))
        BY <2>1, <3>3, <4>2, PairTail
      <4>4. join'[y] = "name" /\ found'[y] = z /\ ~ComesAfter(inbox'[y], 0, PeerLeft(y)')
        BY <1>1, <1>4, <3>1, <4>3
      <4> QED
        BY <4>4 DEF Knows, PairOK
    <3>4. CASE y \in informed /\ ~ComesAfter(inbox[y], 0, PeerLeft(y))
      <4>1. y \in informed' /\ ~ComesAfter(inbox'[y], 0, PeerLeft(y)')
        BY <1>1, <2>1, <3>1, <3>4, PairTail
      <4> QED
        BY <4>1 DEF Knows, PairOK
    <3> QED
      BY <2>4, <3>1, <3>2, <3>3, <3>4 DEF Knows
  <2> QED
    BY <2>3, <2>4 DEF PairOK
<1>5. CASE y # s /\ z # s
  BY <1>1, <1>2, <1>5, UndisturbedPair
<1> QED
  BY <1>3, <1>4, <1>5

\* The key of a socket in the room stands: the list of chat.joined names its user.
LEMMA PairAnnounce ==
    ASSUME PresenceTypeOK, KeysStand, NEW y \in Sockets, NEW z \in Sockets, PairOK(y, z),
           NEW s \in Sockets, Announce(s)
    PROVE PairOK(y, z)'
<1>1. /\ join[s] = "name" /\ informed \subseteq informed' /\ member' = member /\ doubled' = doubled
      /\ Publish(inbox, <<<<"joined", Owner[s]>>>>, {s})
  BY DEF Announce, sinceJoined
<1>2. inbox'[s] = inbox[s]
  <2>1. inbox \in [Sockets -> Seq(Event)] /\ <<"joined", Owner[s]>> \in Event
    BY Kinds DEF PresenceTypeOK
  <2> QED
    BY <1>1, <2>1, PublishedOne
<1>3. ASSUME NEW t \in Sockets, t # s PROVE Undisturbed(t)
  <2>1. /\ <<"joined", Owner[s]>> \in Event /\ <<"joined", Owner[s]>>[1] = "joined"
        /\ <<"joined", Owner[s]>> # PeerLeft(t)
    BY Kinds DEF PeerLeft
  <2>2. join'[t] = join[t] /\ found'[t] = found[t] /\ inbox \in [Sockets -> Seq(Event)]
    BY <1>3 DEF Announce, PresenceTypeOK
  <2> QED
    BY <1>1, <2>1, <2>2, PublishDisturbsNot
<1> SUFFICES ASSUME y \in member, z \in member, Owner[y] # Owner[z], y \notin doubled, z \notin doubled
             PROVE PairOK(y, z)'
  BY <1>1 DEF PairOK
<1>4. CASE z = s
  <2>1. Knows(y, z)'
    BY <1>1, <1>4, AnnouncedTo DEF PresenceTypeOK
  <2> QED
    BY <2>1 DEF PairOK
<1>5. CASE y = s
  <2>1. Undisturbed(z)
    BY <1>3, <1>5
  <2>2. CASE EvictIn(inbox[y]) \/ EvictIn(inbox[z]) \/ join[z] \in Announcing
    BY <1>2, <1>5, <2>1, <2>2 DEF Undisturbed, PairOK
  <2>3. CASE Knows(y, z)
    <3>1. join[y] = "name" /\ PeerLeft(y)' = PeerLeft(y) /\ Peer(y)' = Peer(y) /\ inbox'[y] = inbox[y]
      BY <1>1, <1>2, <1>5 DEF PeerLeft, Peer
    <3>2. CASE Standing(inbox[y], <<"joined", Peer(y)>>, PeerLeft(y))
      BY <3>1, <3>2 DEF Knows, PairOK
    <3>3. CASE y \in informed /\ ~ComesAfter(inbox[y], 0, PeerLeft(y))
      BY <1>1, <3>1, <3>3 DEF Knows, PairOK
    <3>4. CASE found[y] = z /\ ~ComesAfter(inbox[y], 0, PeerLeft(y))
      <4>1. z \in keys /\ link[y] = "open"
        BY DEF KeysStand, PresenceTypeOK
      <4>2. y \in informed'
        BY <1>5, <3>4, <4>1 DEF Announce
      <4> QED
        BY <3>1, <3>4, <4>2 DEF Knows, PairOK
    <3> QED
      BY <2>3, <3>1, <3>2, <3>3, <3>4 DEF Knows
  <2> QED
    BY <2>2, <2>3 DEF PairOK
<1>6. CASE y # s /\ z # s
  BY <1>1, <1>3, <1>6, UndisturbedPair
<1> QED
  BY <1>4, <1>5, <1>6

\* Whose peer has one socket there hears of no other's leaving.
LEMMA PairLeave ==
    ASSUME PresenceTypeOK, RoomInv, NEW y \in Sockets, NEW z \in Sockets, PairOK(y, z),
           NEW s \in Sockets, Leave(s) \/ Disconnect(s)
    PROVE PairOK(y, z)'
<1>1. /\ join' = join /\ found' = found /\ informed' = informed \ {s}
      /\ member' = member \ {s} /\ doubled' = doubled \ {s}
  BY DEF Leave, Disconnect, Forget
<1> SUFFICES ASSUME y \in member, z \in member, Owner[y] # Owner[z], y \notin doubled, z \notin doubled,
                    y # s, z # s
             PROVE PairOK(y, z)'
  BY <1>1 DEF PairOK
<1>2. s \in entry => Owner[s] # Owner[y] /\ Owner[s] # Owner[z]
  BY DEF RoomInv
<1>3. s \notin entry
  BY <1>2, PeerIsOther
<1>4. ASSUME NEW t \in Sockets, t # s PROVE Undisturbed(t)
  <2> DEFINE under == [inbox EXCEPT ![s] = AnswerIn(@)]
  <2>1. Disconnect(s) /\ Publish(under, <<>>, {s})
    BY <1>3 DEF Leave, Disconnect
  <2>2. under \in [Sockets -> Seq(Event)] /\ under[t] = inbox[t]
    BY <1>4, AnswerKept DEF PresenceTypeOK
  <2> HIDE DEF under
  <2>3. inbox'[t] = inbox[t]
    BY <2>1, <2>2, PublishedNone
  <2> QED
    BY <1>1, <1>4, <2>3, SameDisturbsNot
<1> QED
  BY <1>1, <1>4, UndisturbedPair

LEMMA PairDeliver ==
    ASSUME PresenceTypeOK, NEW y \in Sockets, NEW z \in Sockets, QueueOK(y), QueueOK(z), PairOK(y, z),
           NEW s \in Sockets, Deliver(s)
    PROVE PairOK(y, z)'
<1>1. /\ inbox[s] # <<>> /\ Head(inbox[s])[1] # "sockets" /\ inbox'[s] = Tail(inbox[s])
      /\ join' = join /\ found' = found
  BY DEF Deliver, PresenceTypeOK
<1>2. \A t \in Sockets : t # s => Undisturbed(t)
  BY SameDisturbsNot DEF Deliver, PresenceTypeOK
<1>3. CASE Head(inbox[s])[1] = "evict"
  <2>1. member' = member \ {s} /\ doubled' = doubled \ {s}
    BY <1>3 DEF Deliver, Forget
  <2>2. CASE y = s \/ z = s
    BY <2>1, <2>2 DEF PairOK
  <2>3. CASE y # s /\ z # s
    BY <1>2, <2>1, <2>3, UndisturbedPair
  <2> QED
    BY <2>2, <2>3
<1>4. CASE Head(inbox[s])[1] # "evict"
  <2>1. member' = member /\ doubled' = doubled
    BY <1>4 DEF Deliver, Forget
  <2> SUFFICES ASSUME y \in member, z \in member, Owner[y] # Owner[z], y \notin doubled, z \notin doubled
               PROVE PairOK(y, z)'
    BY <2>1 DEF PairOK
  <2>2. EvictIn(inbox[s]) => EvictIn(inbox'[s])
    <3>1. inbox[s] \in Seq(Event)
      BY DEF PresenceTypeOK
    <3>2. EvictIn(inbox[s]) /\ Head(inbox[s])[1] # "evict" => EvictIn(Tail(inbox[s]))
      BY <1>1, <3>1, TailKeeps
    <3> QED
      BY <1>1, <1>4, <3>2
  <2>3. EvictIn(inbox[y]) \/ EvictIn(inbox[z]) => EvictIn(inbox'[y]) \/ EvictIn(inbox'[z])
    BY <1>2, <2>2 DEF Undisturbed
  <2>4. CASE EvictIn(inbox[y]) \/ EvictIn(inbox[z]) \/ join[z] \in Announcing
    BY <1>1, <2>3, <2>4 DEF PairOK
  <2>5. CASE Knows(y, z) /\ y # s
    BY <1>2, <2>5, UndisturbedKnows DEF PairOK
  <2>6. CASE Knows(y, z) /\ y = s
    <3>1. PeerLeft(y)' = PeerLeft(y) /\ Peer(y)' = Peer(y)
      BY DEF PeerLeft, Peer
    <3>2. CASE Head(inbox[y])[1] = "closed"
      BY <1>1, <1>4, <2>6, <3>2, PairTail DEF PairOK
    <3>3. CASE Head(inbox[y])[1] # "closed" /\ Head(inbox[y]) # PeerLeft(y)
      <4>1. informed \subseteq informed' /\ (Head(inbox[y]) = <<"joined", Peer(y)>> => y \in informed')
        BY <2>6, <3>3 DEF Deliver, PeerLeft
      <4>2. CASE join[y] = "fetch"
        BY <1>1, <4>2 DEF Knows, PairOK
      <4>3. CASE Standing(inbox[y], <<"joined", Peer(y)>>, PeerLeft(y))
        <5>1. \/ Standing(inbox'[y], <<"joined", Peer(y)>>, PeerLeft(y))
              \/ y \in informed' /\ ~ComesAfter(inbox'[y], 0, PeerLeft(y))
          BY <1>1, <1>4, <2>6, <4>1, <4>3, PairTail
        <5> QED
          BY <3>1, <5>1 DEF Knows, PairOK
      <4>4. CASE join[y] = "await" /\ Standing(inbox[y], <<"sockets", z>>, PeerLeft(y))
        <5>1. Head(inbox[y]) # <<"sockets", z>>
          BY <1>1, <2>6
        <5>2. Standing(inbox'[y], <<"sockets", z>>, PeerLeft(y))
          BY <1>1, <1>4, <2>6, <4>4, <5>1, PairTail
        <5> QED
          BY <1>1, <3>1, <4>4, <5>2 DEF Knows, PairOK
      <4>5. CASE join[y] = "name" /\ found[y] = z /\ ~ComesAfter(inbox[y], 0, PeerLeft(y))
        <5>1. ~ComesAfter(inbox'[y], 0, PeerLeft(y))
          BY <1>1, <1>4, <2>6, <4>5, PairTail
        <5> QED
          BY <1>1, <3>1, <4>5, <5>1 DEF Knows, PairOK
      <4>6. CASE y \in informed /\ ~ComesAfter(inbox[y], 0, PeerLeft(y))
        <5>1. ~ComesAfter(inbox'[y], 0, PeerLeft(y))
          BY <1>1, <1>4, <2>6, <4>6, PairTail
        <5> QED
          BY <3>1, <4>1, <4>6, <5>1 DEF Knows, PairOK
      <4> QED
        BY <2>6, <4>2, <4>3, <4>4, <4>5, <4>6 DEF Knows
    <3>4. CASE Head(inbox[y]) = PeerLeft(y)
      <4>1. ComesAfter(inbox[y], 0, PeerLeft(y))
        BY <1>1, <1>4, <2>6, <3>4, PairTail
      <4>2. ASSUME NEW x, Standing(inbox[y], x, PeerLeft(y)), x # PeerLeft(y)
            PROVE Standing(inbox'[y], x, PeerLeft(y))
        BY <1>1, <1>4, <2>6, <3>4, <4>2, PairTail
      <4>3. <<"joined", Peer(y)>> # PeerLeft(y) /\ <<"sockets", z>> # PeerLeft(y)
        BY DEF PeerLeft
      <4>4. \/ join'[y] = "fetch"
            \/ Standing(inbox'[y], <<"joined", Peer(y)>>, PeerLeft(y))
            \/ join'[y] = "await" /\ Standing(inbox'[y], <<"sockets", z>>, PeerLeft(y))
        BY <1>1, <2>6, <4>1, <4>2, <4>3 DEF Knows
      <4> QED
        BY <3>1, <4>4 DEF Knows, PairOK
    <3> QED
      BY <3>2, <3>3, <3>4
  <2> QED
    BY <2>4, <2>5, <2>6 DEF PairOK
<1> QED
  BY <1>3, <1>4

LEMMA PairStep ==
    ASSUME PresenceInv, NEW y \in Sockets, NEW z \in Sockets, [PresenceNext]_presenceVars
    PROVE PairOK(y, z)'
<1> PresenceTypeOK /\ KeysStand /\ RoomInv /\ PairOK(y, z) /\ QueueOK(y) /\ QueueOK(z)
  BY DEF PresenceInv
<1>1. ASSUME NEW s \in Sockets, Connect(s) \/ Locate(s) \/ Compare(s) \/ ReadCurrent(s) \/ ClearKeys(s)
      PROVE PairOK(y, z)'
  <2>1. UNCHANGED <<inbox, informed, member, doubled>>
    BY <1>1 DEF Connect, Locate, Compare, ReadCurrent, ClearKeys, sinceJoined
  <2>2. \A t \in Sockets : join[t] \in Announcing => join'[t] = join[t] /\ found'[t] = found[t]
    BY <1>1 DEF Connect, Locate, Compare, ReadCurrent, ClearKeys, Announcing, PresenceTypeOK
  <2> QED
    BY <2>1, <2>2, SameDisturbsNot, UndisturbedPair
<1>2. ASSUME ForceClose PROVE PairOK(y, z)'
  <2>1. y \in member' => EvictIn(inbox'[y])
    BY <1>2, QueueCloses DEF ForceClose, PresenceTypeOK
  <2> QED
    BY <2>1 DEF PairOK
<1>3. ASSUME UNCHANGED presenceVars PROVE PairOK(y, z)'
  BY <1>3, SameDisturbsNot, UndisturbedPair DEF presenceVars, sinceJoined
<1> QED
  BY <1>1, <1>2, <1>3, PairEnter, PairFetch, PairFetchedNobody, PairFetchedPeer, PairAnnounce,
     PairLeave, PairDeliver DEF PresenceNext

LEMMA PresenceInitInv == PresenceInit => PresenceInv
<1> SUFFICES ASSUME PresenceInit PROVE PresenceInv
  OBVIOUS
<1>1. PresenceTypeOK
  BY PresenceTypeInit
<1>2. KeysStand /\ RoomInv /\ LocatedInv
  BY DEF PresenceInit, KeysStand, RoomInv, LocatedInv
<1>3. \A s \in Sockets : QueueOK(s) /\ ToldOK(s)
  BY DEF PresenceInit, QueueOK, ToldOK, AnswerComes, OneAnswer, ClosedEnds
<1>4. \A s, t \in Sockets : PairOK(s, t)
  BY DEF PresenceInit, PairOK
<1> QED
  BY <1>1, <1>2, <1>3, <1>4 DEF PresenceInv

LEMMA PresenceStep == PresenceInv /\ [PresenceNext]_presenceVars => PresenceInv'
<1> SUFFICES ASSUME PresenceInv, [PresenceNext]_presenceVars PROVE PresenceInv'
  OBVIOUS
<1> USE DEF PresenceInv
<1>1. PresenceTypeOK' /\ KeysStand' /\ RoomInv' /\ LocatedInv'
  BY PresenceTypeStep, KeysStep, RoomStep, LocatedStep
<1>2. ASSUME NEW t \in Sockets PROVE QueueOK(t)' /\ ToldOK(t)'
  BY QueueStep, ToldStep
<1>3. ASSUME NEW s \in Sockets, NEW t \in Sockets PROVE PairOK(s, t)'
  BY PairStep
<1> QED
  BY <1>1, <1>2, <1>3

\* When nothing is under way, to know is to have been told.
LEMMA SettledKnow == PresenceInv => NobodyWaitsForThePresent
<1> SUFFICES ASSUME PresenceInv, Settled, NEW s \in member, NEW t \in member, Owner[s] # Owner[t],
                    {s, t} \cap doubled = {}
             PROVE s \in informed
  BY DEF NobodyWaitsForThePresent
<1>1. s \in Sockets /\ t \in Sockets
  BY DEF PresenceInv, PresenceTypeOK
<1>2. /\ inbox[s] = <<>> /\ inbox[t] = <<>> /\ join[s] = "none" /\ join[t] = "none"
  BY <1>1 DEF Settled
<1>3. EvictIn(inbox[s]) \/ EvictIn(inbox[t]) \/ join[t] \in Announcing \/ Knows(s, t)
  BY <1>1 DEF PresenceInv, PairOK
<1> QED
  BY <1>2, <1>3 DEF EvictIn, Announcing, Knows, Standing

LEMMA ToldOrMisled == PresenceInv => PeerToldUnlessMisled
  BY DEF PresenceInv, ToldOK, PeerToldUnlessMisled, WaitsAlone

\* Type correctness of rooms, joins and events: in particular who is in the room is connected.
THEOREM PresenceTypeCorrect == PresenceSpec => []PresenceTypeOK
<1>1. PresenceInv => PresenceTypeOK
  BY DEF PresenceInv
<1> QED
  BY <1>1, PresenceInitInv, PresenceStep, PTL DEF PresenceSpec

\* joinChat, leaveChat, handleDisconnect and forceCloseRoom: when everything has been handled,
\* two sockets that are in the room, each alone for its user, know of each other.
THEOREM NobodyWaits == PresenceSpec => []NobodyWaitsForThePresent
  BY PresenceInitInv, PresenceStep, SettledKnow, PTL DEF PresenceSpec

\* joinChat: who waits alone has had the peer told, or was misled by outdated metadata or by
\* another socket of its own.
THEOREM PeersAreTold == PresenceSpec => []PeerToldUnlessMisled
  BY PresenceInitInv, PresenceStep, ToldOrMisled, PTL DEF PresenceSpec

=============================================================================
