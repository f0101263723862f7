------------------------------ MODULE Passkeys ------------------------------
(***************************************************************************)
(* The passkeys of one account: the WebAuthn challenge kept in Redis while *)
(* a passkey is registered or logs in, and the rows of credentials.        *)
(*                                                                         *)
(* A ceremony takes two requests.  The first one stores a challenge under  *)
(* the user's one key; the second one verifies the authenticator's answer  *)
(* against it, clears the key and writes the credential.  Every statement  *)
(* awaits, requests run on any worker, and Redis may fail: CacheService    *)
(* logs it and goes on.  save() of a credential inserts the row again when *)
(* it has been deleted.                                                    *)
(*                                                                         *)
(* An authenticator may answer with any counter: those that do not count   *)
(* send 0, those that were copied count apart.  The account is activated   *)
(* and not banned, and has a password, since registration asks for one:    *)
(* deleteCredential never refuses the last passkey.  The token of a login  *)
(* is that of Accounts.                                                    *)
(***************************************************************************)
EXTENDS FiniteSets, Naturals, Sequences

CONSTANTS
    Keys,           \* bound: the credentials that authenticators create
    Limit,          \* passkeys an account may have (5)
    MaxCeremonies,  \* bound: challenges made
    MaxCounter,     \* bound: an authenticator's counter
    MaxInserts,     \* bound: rows inserted
    Calls,          \* bound: calls under way at a time
    NoRow,          \* the credential has no row
    NoKey           \* the ceremony has no answer yet

ASSUME PasskeysAssumption ==
    /\ Limit \in Nat \ {0} /\ MaxCeremonies \in Nat /\ MaxCounter \in Nat
    /\ MaxInserts \in Nat
    /\ NoKey \notin Keys /\ IsFiniteSet(Keys)

Ceremonies == 1..MaxCeremonies

VARIABLES
    challenge,  \* the challenge under challenge:<user>, 0 for none
    ceremony,   \* the ceremonies begun so far, ceremony[n] for the challenge n
    rows,       \* rows[k]: the row of the credential k
    inserted,   \* rows inserted so far
    call,       \* call[c]: how far the call c is
    verified,   \* history: challenges an answer was verified against
    twice,      \* history: ... more than once
    shared,     \* history: challenges two calls held at a time, or a DEL left
    removed,    \* history: credentials that were deleted
    contested   \* history: credentials written or deleted while another call held them

redis == <<challenge, ceremony>>
answers == <<verified, twice, shared>>
table == <<rows, inserted, removed, contested>>
vars == <<redis, call, answers, table>>

-----------------------------------------------------------------------------
\* Rows are numbered in the order of createdAt; unused: lastUsedAt is 90 days back.
Row == [id : 1..MaxInserts, counter : 0..MaxCounter, unused : BOOLEAN]

ASSUME NoRowAssumption == NoRow \notin Row

Ceremony == [kind : {"register", "login"}, allow : SUBSET Keys, key : Keys \cup {NoKey},
             counter : 0..MaxCounter]

\* Where a call waits: for the challenge, the verification, the second delete of the
\* challenge, the lookup of the credential, its write, or its delete.  n is the
\* ceremony it was sent an answer of; was, the row it has read.
Idle == [at |-> "idle"]
Busy == [at : {"get", "verify", "again", "check", "write", "remove"}, n : 0..MaxCeremonies,
         expected : 0..MaxCeremonies, key : Keys, was : Row \cup {NoRow}]

Present == {k \in Keys : rows[k] # NoRow}

TypeOK ==
    /\ Len(ceremony) <= MaxCeremonies
    /\ \A n \in DOMAIN ceremony : ceremony[n] \in Ceremony
    /\ challenge \in 0..Len(ceremony)
    /\ rows \in [Keys -> Row \cup {NoRow}]
    /\ inserted \in 0..MaxInserts
    /\ \A k \in Present : rows[k].id <= inserted
    /\ contested = {} => Cardinality(Present) <= Limit
    /\ call \in [Calls -> {Idle} \cup Busy]
    /\ twice \subseteq verified /\ verified \subseteq DOMAIN ceremony
    /\ shared \subseteq DOMAIN ceremony
    /\ removed \subseteq Keys /\ contested \subseteq Keys

Init ==
    /\ challenge = 0
    /\ ceremony = <<>>
    /\ rows = [k \in Keys |-> NoRow]
    /\ inserted = 0
    /\ call = [c \in Calls |-> Idle]
    /\ verified = {}
    /\ twice = {}
    /\ shared = {}
    /\ removed = {}
    /\ contested = {}

-----------------------------------------------------------------------------
Waiting(c, at) == call[c].at = at
Goto(c, at) == call' = [call EXCEPT ![c].at = at]
Return(c) == call' = [call EXCEPT ![c] = Idle]
Kind(n) == ceremony[n].kind

\* Calls that have k in hand, and that have read the challenge n.
Holders(k) == {d \in Calls : ~Waiting(d, "idle") /\ call[d].key = k}
Readers(n) == {d \in Calls : Waiting(d, "verify") /\ call[d].expected = n}

\* The row of every credential of ks is written or deleted by c.
Contest(c, ks) == contested' = contested \cup {k \in ks : Holders(k) \ {c} # {}}

-----------------------------------------------------------------------------
(* Ceremonies *)

\* storeChallenge: Redis may fail, which leaves the challenge of before.
Store(kind, allow) ==
    /\ Len(ceremony) < MaxCeremonies
    /\ ceremony' = Append(ceremony, [kind |-> kind, allow |-> allow, key |-> NoKey, counter |-> 0])
    /\ challenge' \in {Len(ceremony'), challenge}
    /\ UNCHANGED <<call, answers, table>>

StartPasskeyRegistration == Store("register", {})

\* Only an account with a passkey is given a challenge, for one of these.
StartPasskeyLogin == Present # {} /\ Store("login", Present)

\* The authenticator creates a credential that no ceremony has had, or signs with
\* one of those allowed.
Answer(n, k, counter) ==
    /\ ceremony[n].key = NoKey
    /\ IF Kind(n) = "register"
       THEN counter = 0 /\ \A m \in DOMAIN ceremony : ceremony[m].key # k
       ELSE k \in ceremony[n].allow
    /\ ceremony' = [ceremony EXCEPT ![n].key = k, ![n].counter = counter, ![n].allow = {}]
    /\ UNCHANGED <<challenge, call, answers, table>>

\* The TTL of five minutes.
Expire ==
    /\ challenge # 0
    /\ challenge' = 0
    /\ UNCHANGED <<ceremony, call, answers, table>>

\* No login for 90 days: no call lasts that long, and no challenge.
FallUnused(k) ==
    /\ k \in Present
    /\ challenge = 0 /\ \A c \in Calls : Waiting(c, "idle")
    /\ rows' = [rows EXCEPT ![k].unused = TRUE]
    /\ UNCHANGED <<redis, call, answers, inserted, removed, contested>>

-----------------------------------------------------------------------------
(* finishPasskeyRegistration, finishPasskeyLogin *)

\* A client sends the answer of the ceremony n, perhaps once more.  A login finds
\* the credential and its counter before it asks for the challenge.
Submit(c, n) ==
    LET k == ceremony[n].key IN
    /\ Waiting(c, "idle")
    /\ k # NoKey
    /\ Kind(n) = "login" => k \in Present
    /\ call' = [call EXCEPT ![c] =
          [at |-> "get", n |-> n, expected |-> 0, key |-> k,
           was |-> IF Kind(n) = "login" THEN rows[k] ELSE NoRow]]
    /\ UNCHANGED <<redis, answers, table>>

\* getChallenge: there is none, or Redis fails; or it is there.
GetChallenge(c) ==
    /\ Waiting(c, "get")
    /\ \/ Return(c) /\ UNCHANGED shared
       \/ /\ challenge # 0
          /\ call' = [call EXCEPT ![c].at = "verify", ![c].expected = challenge]
          /\ shared' = IF Readers(challenge) = {} THEN shared ELSE shared \cup {challenge}
    /\ UNCHANGED <<redis, verified, twice, table>>

\* The counter must increase, unless both are 0.
CounterAccepted(new, old) == (new > 0 \/ old > 0) => new > old

\* Variant with a bug: the counter may stay or go back.
AcceptsAnyCounter(c) == call[c].expected = call[c].n

\* The answer is to the challenge that was read, with a counter that increases.
Accepts(c) ==
    /\ call[c].expected = call[c].n
    /\ Kind(call[c].n) = "login" =>
          CounterAccepted(ceremony[call[c].n].counter, call[c].was.counter)

\* An answer to the challenge is verified against it.
Verified(n) ==
    /\ verified' = verified \cup {n}
    /\ twice' = IF n \in verified THEN twice \cup {n} ELSE twice

\* The challenge is done with.
GoOn(c) ==
    call' = [call EXCEPT ![c].at = IF Kind(call[c].n) = "login" THEN "write" ELSE "check",
                         ![c].expected = 0]

\* Variant with a bug: the challenge stays for the next answer.
VerifyAndKeep(c) ==
    /\ Waiting(c, "verify")
    /\ IF Accepts(c)
       THEN /\ Verified(call[c].n)
            /\ GoOn(c)
       ELSE /\ UNCHANGED <<verified, twice>>
            /\ Goto(c, "again") \/ Return(c)
    /\ UNCHANGED <<redis, shared, table>>

\* deleteChallenge deletes whatever challenge there is; Redis may fail.
DeleteChallenge ==
    /\ challenge' \in {0, challenge}
    /\ shared' = IF challenge' = 0 THEN shared ELSE shared \cup {challenge}
    /\ UNCHANGED ceremony

\* The challenge is deleted whether the answer is accepted or not: once more by the
\* "finally" when verify has thrown, as it does unless only the code's own look at
\* the counter refuses.
Verify(c) ==
    /\ Waiting(c, "verify")
    /\ DeleteChallenge
    /\ IF Accepts(c)
       THEN /\ Verified(call[c].n)
            /\ GoOn(c)
       ELSE /\ UNCHANGED <<verified, twice>>
            /\ \/ Goto(c, "again")
               \/ call[c].expected = call[c].n /\ Return(c)
    /\ UNCHANGED table

DeleteAgain(c) ==
    /\ Waiting(c, "again")
    /\ DeleteChallenge
    /\ Return(c)
    /\ UNCHANGED <<verified, twice, table>>

\* finishPasskeyRegistration refuses a credential that has a row.
CheckExisting(c) ==
    /\ Waiting(c, "check")
    /\ IF call[c].key \in Present THEN Return(c) ELSE Goto(c, "write")
    /\ UNCHANGED <<redis, answers, table>>

-----------------------------------------------------------------------------
(* The rows *)

\* The row of k is inserted, those of others unused for 90 days are deleted, and
\* the newest Limit of the rest kept.
Kept(k) == {j \in Present : ~rows[j].unused} \cup {k}
Newer(j, k, kept) == {i \in kept \ {j} : i = k \/ (j # k /\ rows[i].id > rows[j].id)}
NewRow == [id |-> inserted + 1, counter |-> 0, unused |-> FALSE]
Newest(k) == {j \in Kept(k) : Cardinality(Newer(j, k, Kept(k))) < Limit}

\* Variant with a bug: the limit is left out.
InsertBeyondLimit(c) ==
    LET k == call[c].key IN
    /\ Waiting(c, "write") /\ Kind(call[c].n) = "register"
    /\ k \notin Present /\ inserted < MaxInserts
    /\ inserted' = inserted + 1
    /\ rows' = [j \in Keys |-> IF j = k THEN NewRow
                               ELSE IF j \in Kept(k) THEN rows[j] ELSE NoRow]
    /\ removed' = (removed \cup (Present \ Kept(k))) \ {k}
    /\ Contest(c, (Present \ Kept(k)) \cup {k})
    /\ Return(c)
    /\ UNCHANGED <<redis, answers>>

\* The transaction of finishPasskeyRegistration: its inserts and deletes of the same
\* user's rows wait for one another.  The unique key refuses a second row.
Insert(c) ==
    LET k == call[c].key IN
    /\ Waiting(c, "write") /\ Kind(call[c].n) = "register"
    /\ k \notin Present /\ inserted < MaxInserts
    /\ inserted' = inserted + 1
    /\ rows' = [j \in Keys |-> IF j = k THEN NewRow
                               ELSE IF j \in Newest(k) THEN rows[j] ELSE NoRow]
    /\ removed' = removed \cup (Present \ Newest(k))
    /\ Contest(c, (Present \ Newest(k)) \cup {k})
    /\ Return(c)
    /\ UNCHANGED <<redis, answers>>

\* save() of the credential that was found, with the answer's counter and the time:
\* the row is updated, or inserted again when it is gone.
SaveCredential(c) ==
    LET k == call[c].key
        was == call[c].was IN
    /\ Waiting(c, "write") /\ Kind(call[c].n) = "login"
    /\ rows[k] # NoRow => rows[k].id = was.id
    /\ rows' = [rows EXCEPT ![k] = [was EXCEPT !.counter = ceremony[call[c].n].counter,
                                               !.unused = FALSE]]
    /\ Contest(c, {k})
    /\ Return(c)
    /\ UNCHANGED <<redis, answers, inserted, removed>>

\* deleteCredential.
FindToDelete(c, k) ==
    /\ Waiting(c, "idle")
    /\ k \in Present
    /\ call' = [call EXCEPT ![c] = [at |-> "remove", n |-> 0, expected |-> 0, key |-> k, was |-> rows[k]]]
    /\ UNCHANGED <<redis, answers, table>>

\* The row is deleted by its id.
DeleteCredential(c) ==
    LET k == call[c].key IN
    /\ Waiting(c, "remove")
    /\ IF rows[k] # NoRow /\ rows[k].id = call[c].was.id
       THEN /\ rows' = [rows EXCEPT ![k] = NoRow]
            /\ removed' = removed \cup {k}
            /\ Contest(c, {k})
       ELSE UNCHANGED <<rows, removed, contested>>
    /\ Return(c)
    /\ UNCHANGED <<redis, answers, inserted>>

\* The worker dies, the database fails or a unique key refuses the insert.
Abort(c) ==
    /\ ~Waiting(c, "idle")
    /\ Return(c)
    /\ UNCHANGED <<redis, answers, table>>

-----------------------------------------------------------------------------
Begin == StartPasskeyRegistration \/ StartPasskeyLogin

Finish(c) ==
    \/ \E n \in DOMAIN ceremony : Submit(c, n)
    \/ GetChallenge(c) \/ Verify(c) \/ DeleteAgain(c)
    \/ CheckExisting(c) \/ Insert(c) \/ SaveCredential(c)

Delete(c) == (\E k \in Keys : FindToDelete(c, k)) \/ DeleteCredential(c)

Next ==
    \/ Begin \/ Expire
    \/ \E n \in DOMAIN ceremony, k \in Keys, i \in 0..MaxCounter : Answer(n, k, i)
    \/ \E k \in Keys : FallUnused(k)
    \/ \E c \in Calls : Finish(c) \/ Delete(c) \/ Abort(c)

Spec == Init /\ [][Next]_vars

-----------------------------------------------------------------------------
(* Properties *)

\* A challenge serves one answer: registration and login each clear it after they
\* verified one, so an answer sent again is refused; but for two requests that read
\* the challenge before either cleared it, and a DEL that Redis failed.
ChallengeUsedOnce == twice \subseteq shared

\* A credential never returns to a state it has left: its counter does not go back
\* and it stays deleted once the user, the clean-up or the limit has deleted it; but
\* for a credential written or deleted while another call had it in hand, and one
\* whose answer was verified twice.
Excused(k) == k \in contested \/ \E n \in twice : ceremony[n].key = k
NeverBack ==
    [][\A k \in Keys : rows'[k] # NoRow /\ ~Excused(k) =>
          /\ k \notin removed
          /\ rows[k] # NoRow => rows'[k].counter >= rows[k].counter]_vars

=============================================================================
