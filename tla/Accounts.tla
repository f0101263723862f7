------------------------------ MODULE Accounts ------------------------------
(***************************************************************************)
(* One account: its row in users, the tokens its logins are given, and the *)
(* links it is mailed to activate it, reset its password or delete it.     *)
(*                                                                         *)
(* AuthService, UsersService and AdminService read the row, change a       *)
(* column of the entity and save() it after an await: a mail, a password   *)
(* hash, an upload.  save() compares the entity with the row there is now, *)
(* so it also writes back every column that has changed meanwhile, and     *)
(* inserts the row again if it has gone.  Bans and the session version are *)
(* written by UPDATEs of these columns alone.                              *)
(*                                                                         *)
(* Links are taken not to expire.  A passkey login is a login here; what   *)
(* it asks of the challenge and the credential is left out.                *)
(***************************************************************************)
EXTENDS FiniteSets, Naturals

CONSTANTS
    Links,      \* bound: the links that can be mailed
    Kind,       \* Kind[m]: the column of the row that names the link
    NoLink,     \* NULL
    First,      \* the link mailed by register
    Calls,      \* bound: calls under way at a time
    MaxVersion  \* bound: logins

Kinds == {"activationToken", "resetToken", "deleteToken"}

ASSUME AccountsAssumption ==
    /\ Kind \in [Links -> Kinds]
    /\ NoLink \notin Links
    /\ First \in Links /\ Kind[First] = "activationToken"
    /\ MaxVersion \in Nat

VARIABLES
    there,      \* whether the row exists
    row,        \* its columns
    call,       \* call[c]: how far the call c is
    mailed,     \* the links that have been mailed
    issued,     \* the session versions of the tokens that have been signed
    superseded, \* history: those after which another token was signed
    used,       \* history: links that have done their work
    reused,     \* history: ... more than once
    raced,      \* history: links two calls found at a time, or a save brought back
    tokenRace   \* history: two calls that sign a token have overlapped, or a save
                \* set back a column that says which token is valid, or brought
                \* the row back for a login that had found none to increment

history == <<issued, superseded, used, reused, raced, tokenRace>>
vars == <<there, row, call, mailed, history>>

-----------------------------------------------------------------------------
\* The columns that decide who is let in; names, settings and the password
\* hash are left out.
Row == [isActivated : BOOLEAN, isBlocked : BOOLEAN, sessionVersion : 0..MaxVersion,
        activationToken : Links \cup {NoLink}, resetToken : Links \cup {NoLink},
        deleteToken : Links \cup {NoLink}]

\* What a call is about to save.
Changes == {"profile", "mail", "activate", "reset"}

\* Where a call waits: for the increment of the
\* session version or the row that a token is signed for; for the delete of the
\* row; for a save of the row it has read.
Call == [at : {"idle", "increment", "sign", "remove"}, link : Links \cup {NoLink}]
Saver == [at : {"save"}, link : Links \cup {NoLink}, change : Changes, was : Row]
Idle == [at |-> "idle", link |-> NoLink]

TypeOK ==
    /\ there \in BOOLEAN
    /\ row \in Row
    /\ call \in [Calls -> Call \cup Saver]
    /\ mailed \subseteq Links
    /\ issued \subseteq 0..MaxVersion
    /\ superseded \subseteq issued
    /\ used \subseteq mailed
    /\ reused \subseteq used
    /\ raced \subseteq mailed
    /\ tokenRace \in BOOLEAN

\* After register.
Init ==
    /\ there = TRUE
    /\ row = [isActivated |-> FALSE, isBlocked |-> FALSE, sessionVersion |-> 0,
              activationToken |-> First, resetToken |-> NoLink, deleteToken |-> NoLink]
    /\ call = [c \in Calls |-> Idle]
    /\ mailed = {First}
    /\ issued = {}
    /\ superseded = {}
    /\ used = {}
    /\ reused = {}
    /\ raced = {}
    /\ tokenRace = FALSE

-----------------------------------------------------------------------------
Waiting(c, at) == call[c].at = at
Goto(c, at) == call' = [call EXCEPT ![c].at = at]
Return(c) == call' = [call EXCEPT ![c] = Idle]
Begin(c, at, m) ==
    /\ Waiting(c, "idle")
    /\ call' = [call EXCEPT ![c] = [at |-> at, link |-> m]]
BeginSave(c, change, m) ==
    call' = [call EXCEPT ![c] = [at |-> "save", link |-> m, change |-> change, was |-> row]]

\* A token is signed for session version v.
Sign(v) ==
    /\ issued' = issued \cup {v}
    /\ superseded' = superseded \cup issued

Use(m) ==
    /\ used' = used \cup {m}
    /\ reused' = IF m \in used THEN reused \cup {m} ELSE reused

\* Another call has found the link and goes on to use it.
Contest(m) ==
    raced' = IF \E d \in Calls : call[d].link = m THEN raced \cup {m} ELSE raced

\* JwtStrategy.validate: the request comes with a token of the row's version.
Valid(v) == there /\ row.isActivated /\ ~row.isBlocked /\ row.sessionVersion = v

-----------------------------------------------------------------------------
\* login, finishPasskeyLogin: who is activated and not banned ...
FindToLogin(c) ==
    /\ there
    /\ row.isActivated
    /\ ~row.isBlocked
    /\ Begin(c, "increment", NoLink)
    /\ UNCHANGED <<there, row, mailed, history>>

\* Variant with a bug: the session version stays.
IncrementNothing(c) ==
    /\ Waiting(c, "increment")
    /\ Goto(c, "sign")
    /\ tokenRace' = (tokenRace \/ \E d \in Calls : Waiting(d, "sign"))
    /\ UNCHANGED <<there, row, mailed, issued, superseded, used, reused, raced>>

\* ... is given the next session version ...
Increment(c) ==
    /\ Waiting(c, "increment")
    /\ row.sessionVersion < MaxVersion
    /\ row' = IF there THEN [row EXCEPT !.sessionVersion = @ + 1] ELSE row
    /\ Goto(c, "sign")
    /\ tokenRace' = (tokenRace \/ \E d \in Calls : Waiting(d, "sign"))
    /\ UNCHANGED <<there, mailed, issued, superseded, used, reused, raced>>

\* Variant with a bug: the increment is added once more to the row found.
SignNextToken(c) ==
    /\ Waiting(c, "sign")
    /\ IF there THEN Sign(row.sessionVersion + 1) ELSE UNCHANGED <<issued, superseded>>
    /\ Return(c)
    /\ UNCHANGED <<there, row, mailed, used, reused, raced, tokenRace>>

\* ... and a token of the version found after that.
SignToken(c) ==
    /\ Waiting(c, "sign")
    /\ IF there THEN Sign(row.sessionVersion) ELSE UNCHANGED <<issued, superseded>>
    /\ Return(c)
    /\ UNCHANGED <<there, row, mailed, used, reused, raced, tokenRace>>

-----------------------------------------------------------------------------
\* setMode, updateDisplayName, setAppearInSearches, setDiscoveryGame,
\* grantTemporaryDiscoveryAccess: a request with a valid token has the row read.
FindToChange(c) ==
    /\ Waiting(c, "idle")
    /\ \E v \in issued : Valid(v)
    /\ BeginSave(c, "profile", NoLink)
    /\ UNCHANGED <<there, row, mailed, history>>

\* resendConfirmationEmail, unless activated; forgotPassword and the admin's
\* resetUserPasswords; requestAccountDeletion: a new link is drawn.
FindToMail(c, m) ==
    /\ there
    /\ m \notin mailed
    /\ \A d \in Calls : call[d].link # m
    /\ Kind[m] = "activationToken" => ~row.isActivated
    /\ Waiting(c, "idle")
    /\ BeginSave(c, "mail", m)
    /\ UNCHANGED <<there, row, mailed, history>>

\* confirmEmail
FindToActivate(c, m) ==
    /\ there
    /\ row.activationToken = m
    /\ ~row.isActivated
    /\ Waiting(c, "idle")
    /\ BeginSave(c, "activate", m)
    /\ Contest(m)
    /\ tokenRace' = (tokenRace \/ \E d \in Calls : Waiting(d, "save") /\ call[d].change = "activate")
    /\ UNCHANGED <<there, row, mailed, issued, superseded, used, reused>>

\* resetPassword, up to the hash of the password.
FindToReset(c, m) ==
    /\ there
    /\ row.resetToken = m
    /\ Waiting(c, "idle")
    /\ BeginSave(c, "reset", m)
    /\ Contest(m)
    /\ UNCHANGED <<there, row, mailed, issued, superseded, used, reused, tokenRace>>

\* Variant with a bug: the reset link is kept.
ChangedKeepingLink(was, change, m) ==
    CASE change = "profile"  -> was
      [] change = "mail"     -> [was EXCEPT ![Kind[m]] = m]
      [] change = "activate" -> [was EXCEPT !.isActivated = TRUE, !.activationToken = NoLink]
      [] change = "reset"    -> was

\* The entity with the change made; other columns of the profile are left out.
Changed(was, change, m) ==
    CASE change = "profile"  -> was
      [] change = "mail"     -> [was EXCEPT ![Kind[m]] = m]
      [] change = "activate" -> [was EXCEPT !.isActivated = TRUE, !.activationToken = NoLink]
      [] change = "reset"    -> [was EXCEPT !.resetToken = NoLink]

\* The columns that have changed since they were read and are written back.
SetBack(was, new) == {f \in DOMAIN row : row[f] \notin {was[f], new[f]}}

\* The entity is saved, a new link mailed, a temporary token signed.
Save(c) ==
    LET was == call[c].was
        new == Changed(was, call[c].change, call[c].link) IN
    /\ Waiting(c, "save")
    /\ there' = TRUE
    /\ row' = new
    /\ tokenRace' = \/ tokenRace
                    \/ {"isActivated", "sessionVersion"} \cap SetBack(was, new) # {}
                    \/ ~there /\ \E d \in Calls : Waiting(d, "sign")
    /\ raced' = raced \cup {m \in Links : new[Kind[m]] = m
                                         /\ (~there \/ Kind[m] \in SetBack(was, new))}
    /\ mailed' = IF call[c].change = "mail" THEN mailed \cup {call[c].link} ELSE mailed
    /\ IF call[c].change \in {"activate", "reset"} THEN Use(call[c].link) ELSE UNCHANGED <<used, reused>>
    /\ IF call[c].change = "activate" THEN Sign(was.sessionVersion)
                                      ELSE UNCHANGED <<issued, superseded>>
    /\ Return(c)

-----------------------------------------------------------------------------
\* confirmDelete, up to the end of closeAllRoomsForUser ...
FindToDelete(c, m) ==
    /\ there
    /\ row.deleteToken = m
    /\ Begin(c, "remove", m)
    /\ Contest(m)
    /\ UNCHANGED <<there, row, mailed, issued, superseded, used, reused, tokenRace>>

\* ... then the row goes, if it is still there.
Remove(c) ==
    /\ Waiting(c, "remove")
    /\ there' = FALSE
    /\ IF there THEN Use(call[c].link) ELSE UNCHANGED <<used, reused>>
    /\ Return(c)
    /\ UNCHANGED <<row, mailed, issued, superseded, raced, tokenRace>>

\* banUsers, unbanUsers
SetBlocked(b) ==
    /\ there
    /\ row' = [row EXCEPT !.isBlocked = b]
    /\ UNCHANGED <<there, call, mailed, history>>

\* A call that ends before its time: the worker dies or the database fails.
Abort(c) ==
    /\ ~Waiting(c, "idle")
    /\ Return(c)
    /\ UNCHANGED <<there, row, mailed, history>>

-----------------------------------------------------------------------------
Start(c) ==
    \/ FindToLogin(c)
    \/ FindToChange(c)
    \/ \E m \in Links : FindToMail(c, m) \/ FindToActivate(c, m) \/ FindToReset(c, m)
                         \/ FindToDelete(c, m)

Continue(c) ==
    \/ Increment(c) \/ SignToken(c)
    \/ Save(c)
    \/ Remove(c)
    \/ Abort(c)

Next ==
    \/ \E c \in Calls : Start(c) \/ Continue(c)
    \/ \E b \in BOOLEAN : SetBlocked(b)

Spec == Init /\ [][Next]_vars

-----------------------------------------------------------------------------
(* Properties *)

\* "Issue JWT token and invalidate previous sessions for this user":
\* auth.service.ts:743.  A token is refused as soon as another is signed, but
\* for two logins or two activations that overlap, a save that sets the
\* session version or the activation back, and one that brings a deleted row
\* back between the increment and the token of a login.
OneValidToken == \A v \in superseded : Valid(v) => tokenRace

\* "Single-use": PRIVACY_POLICY.md:35.  A link works once, but for two calls
\* that find it before either has saved, and a save that brings it back.
LinkOnce == reused \subseteq raced

=============================================================================
