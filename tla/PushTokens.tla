----------------------------- MODULE PushTokens -----------------------------
(***************************************************************************)
(* The rows of push_tokens: which token a user's notifications go to.      *)
(* registerToken looks for the row of the token and for the row of the     *)
(* user, and reuses one of them; deactivateToken and a send that Firebase  *)
(* answers with "not registered" delete a row by its id.  Each is several  *)
(* statements, on any worker, and a row keeps its id when it gets another  *)
(* token or user.                                                          *)
(*                                                                         *)
(* There is one provider.  A token belongs to an installation of the app:  *)
(* once that is gone, Firebase refuses it and it is not registered again.  *)
(* Push is taken to be enabled (canSendPush).                              *)
(***************************************************************************)
EXTENDS FiniteSets, Naturals

CONSTANTS
    Recipients, \* the users
    Tokens,
    Rows,       \* bound: the ids of rows
    NoRow,      \* no row: NULL, or an id that is not used
    NoToken,    \* no token of the user is registered
    Unsure,     \* the user's last call failed half-way
    Calls       \* bound: calls under way at a time

ASSUME PushTokensAssumption ==
    /\ NoRow \notin Rows \cup [user : Recipients, token : Tokens]
    /\ NoToken \notin Tokens /\ Unsure \notin Tokens /\ NoToken # Unsure

VARIABLES
    rows,       \* rows[r]: the user and token of the row r, or NoRow
    gone,       \* tokens of installations that are gone
    cooldown,   \* the recipients of requests whose push lock has not expired
    call,       \* call[c]: how far the call c is
    last,       \* history: last[u]: the token that u was last told is registered
    raced       \* history: a registration wrote a row that another call meant to
                \* write or delete

pushVars == <<rows, gone, cooldown, call, last, raced>>

-----------------------------------------------------------------------------
Row == [user : Recipients, token : Tokens]

\* Where a call waits: registerToken for the user's row, the delete of that row or
\* the save of row; any other for the delete of row, or with a message for Firebase.
Idle == [at |-> "idle"]
Registration == [at : {"findUser", "drop", "save"}, user : Recipients, token : Tokens,
                 row : Rows \cup {NoRow}, other : Rows \cup {NoRow}]
Message == [at : {"tokens"}, user : Recipients]
Holder == [at : {"send", "retry", "remove"}, user : Recipients, token : Tokens, row : Rows]

\* UQ_push_tokens_provider_token and UQ_push_tokens_user_provider allow u and t in
\* the row r.
KeysAllow(r, u, t) ==
    \A s \in Rows \ {r} : rows[s] # NoRow => rows[s].user # u /\ rows[s].token # t

PushTypeOK ==
    /\ rows \in [Rows -> Row \cup {NoRow}]
    /\ \A r \in Rows : rows[r] # NoRow => KeysAllow(r, rows[r].user, rows[r].token)
    /\ gone \subseteq Tokens
    /\ cooldown \subseteq Recipients
    /\ call \in [Calls -> {Idle} \cup Registration \cup Message \cup Holder]
    /\ last \in [Recipients -> Tokens \cup {NoToken, Unsure}]
    /\ raced \in BOOLEAN

PushInit ==
    /\ rows = [r \in Rows |-> NoRow]
    /\ gone = {}
    /\ cooldown = {}
    /\ call = [c \in Calls |-> Idle]
    /\ last = [u \in Recipients |-> NoToken]
    /\ raced = FALSE

-----------------------------------------------------------------------------
Waiting(c, at) == call[c].at = at
Goto(c, at) == call' = [call EXCEPT ![c].at = at]
Return(c) == call' = [call EXCEPT ![c] = Idle]

OfToken(t) == {r \in Rows : rows[r] # NoRow /\ rows[r].token = t}
OfUser(u) == {r \in Rows : rows[r] # NoRow /\ rows[r].user = u}

\* The row found by a unique key, or NoRow.
Found(rs) == IF rs = {} THEN NoRow ELSE CHOOSE r \in rs : TRUE

\* The call d has the row r in hand.
InHand(d, r) ==
    \/ call[d].at \in {"send", "retry", "remove"} /\ call[d].row = r
    \/ call[d].at \in {"findUser", "drop", "save"} /\ r \in {call[d].row, call[d].other}

\* A call other than c has it.
Contested(c, r) == \E d \in Calls \ {c} : InHand(d, r)

-----------------------------------------------------------------------------
(* registerToken *)

\* The row of the token ...
FindToken(c, u, t) ==
    /\ Waiting(c, "idle")
    /\ t \notin gone
    /\ call' = [call EXCEPT ![c] = [at |-> "findUser", user |-> u, token |-> t,
                                    row |-> Found(OfToken(t)), other |-> NoRow]]
    /\ UNCHANGED <<rows, gone, cooldown, last, raced>>

\* ... and that of the user.  The former is reused and the latter dropped, or the
\* latter reused, or a row inserted.
FindUser(c) ==
    LET mine == Found(OfUser(call[c].user)) IN
    /\ Waiting(c, "findUser")
    /\ call' = [call EXCEPT ![c] =
          CASE call[c].row = NoRow -> [@ EXCEPT !.at = "save", !.row = mine]
            [] call[c].row # NoRow /\ mine \in {NoRow, call[c].row} -> [@ EXCEPT !.at = "save"]
            [] OTHER -> [@ EXCEPT !.at = "drop", !.other = mine]]
    /\ UNCHANGED <<rows, gone, cooldown, last, raced>>

DropOther(c) ==
    /\ Waiting(c, "drop")
    /\ rows' = [rows EXCEPT ![call[c].other] = NoRow]
    /\ call' = [call EXCEPT ![c].at = "save", ![c].other = NoRow]
    /\ last' = [last EXCEPT ![call[c].user] = Unsure]
    /\ UNCHANGED <<gone, cooldown, raced>>

\* What the users know after u has registered t: who had it has lost it.
Registered(u, t) ==
    last' = [v \in Recipients |-> IF v = u THEN t ELSE IF last[v] = t THEN NoToken ELSE last[v]]

\* An id that is used nowhere.
Fresh(r) == rows[r] = NoRow /\ \A d \in Calls : ~InHand(d, r)

\* Variant with a bug: the table has no unique keys.
SaveWithoutKeys(c) ==
    LET u == call[c].user
        t == call[c].token IN
    /\ Waiting(c, "save")
    /\ \E r \in Rows :
          /\ IF call[c].row = NoRow THEN Fresh(r) ELSE r = call[c].row
          /\ rows' = [rows EXCEPT ![r] = [user |-> u, token |-> t]]
          /\ raced' = (raced \/ Contested(c, r))
    /\ Registered(u, t)
    /\ Return(c)
    /\ UNCHANGED <<gone, cooldown>>

\* save() updates the row by its id, inserts it again if it has been deleted, or
\* inserts a new one; a unique key may refuse it.
Save(c) ==
    LET u == call[c].user
        t == call[c].token IN
    /\ Waiting(c, "save")
    /\ \E r \in Rows :
          /\ IF call[c].row = NoRow THEN Fresh(r) ELSE r = call[c].row
          /\ IF KeysAllow(r, u, t)
             THEN /\ rows' = [rows EXCEPT ![r] = [user |-> u, token |-> t]]
                  /\ raced' = (raced \/ Contested(c, r))
                  /\ Registered(u, t)
             ELSE UNCHANGED <<rows, raced, last>>
    /\ Return(c)
    /\ UNCHANGED <<gone, cooldown>>

-----------------------------------------------------------------------------
(* deactivateToken *)

FindToDeactivate(c, u, t) ==
    /\ Waiting(c, "idle")
    /\ \E r \in OfToken(t) :
          /\ rows[r].user = u
          /\ call' = [call EXCEPT ![c] = [at |-> "remove", user |-> u, token |-> t, row |-> r]]
    /\ UNCHANGED <<rows, gone, cooldown, last, raced>>

\* u has no t any more.
Deregistered(u, t) == last' = [last EXCEPT ![u] = IF @ = t THEN NoToken ELSE @]

\* Variant with a bug: every row of the user is deleted.
RemoveOfUser(c) ==
    /\ Waiting(c, "remove")
    /\ rows' = [r \in Rows |-> IF r \in OfUser(call[c].user) THEN NoRow ELSE rows[r]]
    /\ Deregistered(call[c].user, call[c].token)
    /\ Return(c)
    /\ UNCHANGED <<gone, cooldown, raced>>

\* The row is deleted by its id, whatever it has become: deactivateToken, and
\* sendFcmMessage for a token that Firebase refuses.
Remove(c) ==
    /\ Waiting(c, "remove")
    /\ rows' = [rows EXCEPT ![call[c].row] = NoRow]
    /\ IF rows[call[c].row] # NoRow THEN Deregistered(call[c].user, call[c].token)
                                    ELSE UNCHANGED last
    /\ Return(c)
    /\ UNCHANGED <<gone, cooldown, raced>>

-----------------------------------------------------------------------------
(* Sending *)

\* sendChatRequestPush: SET NX EX of the lock, which is not released.
AcquireCooldown(c, u) ==
    /\ Waiting(c, "idle")
    /\ u \notin cooldown
    /\ cooldown' = cooldown \cup {u}
    /\ call' = [call EXCEPT ![c] = [at |-> "tokens", user |-> u]]
    /\ UNCHANGED <<rows, gone, last, raced>>

CooldownExpires(u) ==
    /\ u \in cooldown
    /\ cooldown' = cooldown \ {u}
    /\ UNCHANGED <<rows, gone, call, last, raced>>

Take(c, u) ==
    /\ IF OfUser(u) = {}
       THEN Return(c)
       ELSE \E r \in OfUser(u) :
               call' = [call EXCEPT ![c] = [at |-> "send", user |-> u, token |-> rows[r].token, row |-> r]]
    /\ UNCHANGED <<rows, gone, cooldown, last, raced>>

FindRequestTokens(c) == Waiting(c, "tokens") /\ Take(c, call[c].user)

\* sendPeerWaitingPush, sendGroupMemberAddedPush, sendGroupInvitePush: no lock.
FindTokens(c, u) == Waiting(c, "idle") /\ OfUser(u) # {} /\ Take(c, u)

\* sendFcmMessage: sent or refused for another reason; the token is not registered;
\* or one more attempt a second later, which changes nothing any more.
Attempt(c) ==
    /\ Waiting(c, "send")
    /\ \/ Return(c)
       \/ call[c].token \in gone /\ Goto(c, "remove")
       \/ Goto(c, "retry")
    /\ UNCHANGED <<rows, gone, cooldown, last, raced>>

Retry(c) ==
    /\ Waiting(c, "retry")
    /\ Return(c)
    /\ UNCHANGED <<rows, gone, cooldown, last, raced>>

\* The app is uninstalled, or its token replaced by Firebase.
Uninstall(t) ==
    /\ t \notin gone
    /\ gone' = gone \cup {t}
    /\ UNCHANGED <<rows, cooldown, call, last, raced>>

\* A call that ends before its time: the worker dies or the database fails.
Abort(c) ==
    /\ ~Waiting(c, "idle")
    /\ Return(c)
    /\ UNCHANGED <<rows, gone, cooldown, last, raced>>

-----------------------------------------------------------------------------
Register(c) ==
    \/ \E u \in Recipients, t \in Tokens : FindToken(c, u, t)
    \/ FindUser(c) \/ DropOther(c) \/ Save(c)

Deactivate(c) == \E u \in Recipients, t \in Tokens : FindToDeactivate(c, u, t)

Send(c) ==
    \/ \E u \in Recipients : AcquireCooldown(c, u) \/ FindTokens(c, u)
    \/ FindRequestTokens(c) \/ Attempt(c) \/ Retry(c)

PushNext ==
    \/ \E c \in Calls : Register(c) \/ Deactivate(c) \/ Send(c) \/ Remove(c) \/ Abort(c)
    \/ \E u \in Recipients : CooldownExpires(u)
    \/ \E t \in Tokens : Uninstall(t)

PushSpec == PushInit /\ [][PushNext]_pushVars

-----------------------------------------------------------------------------
(* Properties *)

\* What a user was last told of the registration is what the table says: a token
\* that was registered gets the user's notifications, and none does after it was
\* deactivated or taken over by another user; but for a registration that wrote a
\* row another call had in hand.
TokensOf(u) == {rows[r].token : r \in OfUser(u)}
RegistrationStands ==
    raced \/ \A u \in Recipients :
        last[u] # Unsure => TokensOf(u) = {last[u]} \ {NoToken}

=============================================================================
