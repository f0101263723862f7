--------------------------- MODULE Accounts_proofs ---------------------------
(***************************************************************************)
(* Proofs about Accounts, for any number of links, calls and logins.       *)
(***************************************************************************)
EXTENDS Accounts, TLAPS

USE AccountsAssumption

-----------------------------------------------------------------------------
(* The invariants *)

\* A column names a link of its kind that was mailed.
Columns(r) == \A k \in Kinds : r[k] # NoLink => r[k] \in mailed /\ Kind[r[k]] = k

\* What a call is about to save has such columns; the link it has in hand is of the
\* kind it asks for, or a new one.
HandOK(h) ==
    /\ h.at = "save" =>
          /\ Columns(h.was)
          /\ h.change = "profile" => h.link = NoLink
          /\ h.change = "mail" => h.link \in Links \ mailed
          /\ h.change = "activate" => h.link \in mailed /\ Kind[h.link] = "activationToken"
          /\ h.change = "reset" => h.link \in mailed /\ Kind[h.link] = "resetToken"
    /\ h.at = "remove" => h.link \in mailed /\ Kind[h.link] = "deleteToken"
    /\ h.at \in {"idle", "increment", "sign"} => h.link = NoLink

LinksInv ==
    /\ Columns(row)
    /\ \A c \in Calls : HandOK(call[c])

\* A link that was not contested is in the hands of one call.
HolderInv ==
    \A m \in Links \ raced : \A c, d \in Calls : call[c].link = m /\ call[d].link = m => c = d

\* Once it has been used nobody holds it, and the row does not name it.
SpentInv ==
    \A m \in used \ raced :
        /\ there => row[Kind[m]] # m
        /\ \A c \in Calls : call[c].link # m

\* Without a race the row's session version is the last that was given out, the next
\* token is for a later one than all there are, and an account is activated once.
Activates(c) == Waiting(c, "save") /\ call[c].change = "activate"
VersionInv ==
    /\ \A v \in issued : v <= row.sessionVersion
    /\ \A v \in superseded : v < row.sessionVersion
    /\ there => \A c \in Calls : Waiting(c, "sign") => \A v \in issued : v < row.sessionVersion
    /\ \A c, d \in Calls : Waiting(c, "sign") /\ Waiting(d, "sign") => c = d
ActivationInv ==
    /\ ~row.isActivated =>
          issued = {} /\ \A c \in Calls : call[c].at \notin {"increment", "sign"}
    /\ \A c \in Calls : Waiting(c, "save") /\ call[c].was.isActivated => row.isActivated
    /\ \A c \in Calls : Activates(c) => ~row.isActivated
    /\ \A c, d \in Calls : Activates(c) /\ Activates(d) => c = d
NoRaceInv == ~tokenRace => VersionInv /\ ActivationInv

-----------------------------------------------------------------------------
(* The operators of the model *)

\* The columns of a row.
LEMMA RowFields ==
    ASSUME NEW r \in Row
    PROVE  /\ DOMAIN r = Kinds \cup {"isActivated", "isBlocked", "sessionVersion"}
           /\ \A k \in Kinds : r[k] \in Links \cup {NoLink}
           /\ r.isActivated \in BOOLEAN /\ r.isBlocked \in BOOLEAN
           /\ r.sessionVersion \in 0..MaxVersion
  BY DEF Row, Kinds

\* A new link goes to the column of its kind, and to no other.
LEMMA WithLink ==
    ASSUME NEW r \in Row, NEW m \in Links
    PROVE  LET s == [r EXCEPT ![Kind[m]] = m] IN
           /\ s \in Row
           /\ s.isActivated = r.isActivated /\ s.sessionVersion = r.sessionVersion
           /\ \A k \in Kinds : s[k] = IF k = Kind[m] THEN m ELSE r[k]
<1>1. [r EXCEPT ![Kind[m]] = m] \in Row
  <2>1. CASE Kind[m] = "resetToken"
    <3>1. [r EXCEPT !["resetToken"] = m] \in Row
      BY DEF Row
    <3> QED
      BY <2>1, <3>1
  <2>2. CASE Kind[m] = "deleteToken"
    <3>1. [r EXCEPT !["deleteToken"] = m] \in Row
      BY DEF Row
    <3> QED
      BY <2>2, <3>1
  <2>3. CASE Kind[m] = "activationToken"
    <3>1. [r EXCEPT !["activationToken"] = m] \in Row
      BY DEF Row
    <3> QED
      BY <2>3, <3>1
  <2> QED
    BY <2>1, <2>2, <2>3 DEF Kinds
<1> QED
  BY <1>1, RowFields DEF Kinds

\* What a save makes of the entity: its columns are those that were read, but for the
\* link of a mail, which is named, and the link that is used, which is not.
LEMMA ChangedRow ==
    ASSUME NEW was \in Row, NEW change \in Changes, NEW m \in Links \cup {NoLink},
           change = "mail" => m \in Links
    PROVE  LET new == Changed(was, change, m) IN
           /\ new \in Row
           /\ new.sessionVersion = was.sessionVersion
           /\ new.isActivated = (was.isActivated \/ change = "activate")
           /\ \A k \in Kinds :
                 new[k] = IF change = "mail" /\ k = Kind[m] THEN m
                          ELSE IF change = "activate" /\ k = "activationToken" THEN NoLink
                          ELSE IF change = "reset" /\ k = "resetToken" THEN NoLink
                          ELSE was[k]
<1> DEFINE new == Changed(was, change, m)
<1>1. CASE change = "profile"
  BY <1>1, RowFields DEF Changed
<1>2. CASE change = "mail"
  <2>1. new = [was EXCEPT ![Kind[m]] = m]
    BY <1>2 DEF Changed
  <2> QED
    BY <1>2, <2>1, WithLink, RowFields
<1>3. CASE change = "activate"
  <2>1. new = [was EXCEPT !.isActivated = TRUE, !.activationToken = NoLink]
    BY <1>3 DEF Changed
  <2>2. new \in Row
    BY <2>1 DEF Row
  <2>3. \A k \in Kinds : new[k] = IF k = "activationToken" THEN NoLink ELSE was[k]
    BY <2>1, RowFields DEF Kinds
  <2>4. new.isActivated = TRUE /\ new.sessionVersion = was.sessionVersion
    BY <2>1, RowFields
  <2> QED
    BY <1>3, <2>2, <2>3, <2>4
<1>4. CASE change = "reset"
  <2>1. new = [was EXCEPT !.resetToken = NoLink]
    BY <1>4 DEF Changed
  <2>2. new \in Row
    BY <2>1 DEF Row
  <2>3. \A k \in Kinds : new[k] = IF k = "resetToken" THEN NoLink ELSE was[k]
    BY <2>1, RowFields DEF Kinds
  <2>4. new.isActivated = was.isActivated /\ new.sessionVersion = was.sessionVersion
    BY <2>1, RowFields
  <2> QED
    BY <1>4, <2>2, <2>3, <2>4, RowFields
<1> QED
  BY <1>1, <1>2, <1>3, <1>4 DEF Changes

-----------------------------------------------------------------------------
(* What the steps do to the calls *)

LEMMA CallShape ==
    ASSUME TypeOK, NEW c \in Calls
    PROVE  /\ call[c].at \in {"idle", "increment", "sign", "remove", "save"}
           /\ call[c].at = "save" => call[c] \in Saver
           /\ call[c].at # "save" => call[c] \in Call
           /\ call[c].link \in Links \cup {NoLink}
<1>1. call[c] \in Call \/ call[c] \in Saver
  BY DEF TypeOK
<1> QED
  BY <1>1 DEF Call, Saver

\* A call has moved to where r says, and no other has.
MovesTo(c, r) ==
    /\ r \in Call \cup Saver
    /\ call'[c] = r
    /\ \A d \in Calls \ {c} : call'[d] = call[d]
    /\ call' \in [Calls -> Call \cup Saver]

LEMMA Returning ==
    ASSUME TypeOK, NEW c \in Calls, Return(c)
    PROVE  MovesTo(c, Idle)
<1>1. Idle \in Call
  BY DEF Idle, Call
<1> QED
  BY <1>1 DEF Return, TypeOK, MovesTo

LEMMA Beginning ==
    ASSUME TypeOK, NEW c \in Calls, NEW at \in {"increment", "remove"},
           NEW m \in Links \cup {NoLink}, Begin(c, at, m)
    PROVE  MovesTo(c, [at |-> at, link |-> m]) /\ Waiting(c, "idle")
<1>1. [at |-> at, link |-> m] \in Call
  BY DEF Call
<1> QED
  BY <1>1 DEF Begin, TypeOK, MovesTo

LEMMA BeginningSave ==
    ASSUME TypeOK, NEW c \in Calls, NEW change \in Changes, NEW m \in Links \cup {NoLink},
           BeginSave(c, change, m)
    PROVE  MovesTo(c, [at |-> "save", link |-> m, change |-> change, was |-> row])
<1>1. [at |-> "save", link |-> m, change |-> change, was |-> row] \in Saver
  BY DEF Saver, TypeOK
<1> QED
  BY <1>1 DEF BeginSave, TypeOK, MovesTo

LEMMA GoingToSign ==
    ASSUME TypeOK, NEW c \in Calls, Waiting(c, "increment"), Goto(c, "sign")
    PROVE  MovesTo(c, [at |-> "sign", link |-> call[c].link])
<1>1. call[c] \in Call
  BY CallShape DEF Waiting
<1>2. [call[c] EXCEPT !.at = "sign"] = [at |-> "sign", link |-> call[c].link]
  BY <1>1 DEF Call
<1>3. [at |-> "sign", link |-> call[c].link] \in Call
  BY <1>1 DEF Call
<1> QED
  BY <1>2, <1>3 DEF Goto, TypeOK, MovesTo

\* Every step is one of these.
LEMMA StepKinds ==
    ASSUME [Next]_vars
    PROVE  \/ UNCHANGED vars
           \/ \E b \in BOOLEAN : SetBlocked(b)
           \/ \E c \in Calls : FindToLogin(c) \/ FindToChange(c) \/ Increment(c) \/ SignToken(c)
           \/ \E c \in Calls, m \in Links : FindToMail(c, m)
           \/ \E c \in Calls, m \in Links : FindToActivate(c, m)
           \/ \E c \in Calls, m \in Links : FindToReset(c, m)
           \/ \E c \in Calls, m \in Links : FindToDelete(c, m)
           \/ \E c \in Calls : Save(c)
           \/ \E c \in Calls : Remove(c) \/ Abort(c)
  BY DEF Next, Start, Continue

\* The call of a step, and where it has moved.
LEMMA CallsMove ==
    ASSUME TypeOK, NEW c \in Calls
    PROVE  /\ FindToLogin(c) => MovesTo(c, [at |-> "increment", link |-> NoLink])
           /\ FindToChange(c) =>
                MovesTo(c, [at |-> "save", link |-> NoLink, change |-> "profile", was |-> row])
           /\ Increment(c) => MovesTo(c, [at |-> "sign", link |-> call[c].link])
           /\ SignToken(c) \/ Save(c) \/ Remove(c) \/ Abort(c) => MovesTo(c, Idle)
           /\ \A m \in Links :
                /\ FindToMail(c, m) =>
                     MovesTo(c, [at |-> "save", link |-> m, change |-> "mail", was |-> row])
                /\ FindToActivate(c, m) =>
                     MovesTo(c, [at |-> "save", link |-> m, change |-> "activate", was |-> row])
                /\ FindToReset(c, m) =>
                     MovesTo(c, [at |-> "save", link |-> m, change |-> "reset", was |-> row])
                /\ FindToDelete(c, m) => MovesTo(c, [at |-> "remove", link |-> m])
<1>1. FindToLogin(c) => MovesTo(c, [at |-> "increment", link |-> NoLink])
  BY Beginning DEF FindToLogin
<1>2. FindToChange(c) =>
        MovesTo(c, [at |-> "save", link |-> NoLink, change |-> "profile", was |-> row])
  BY BeginningSave DEF FindToChange, Changes
<1>3. Increment(c) => MovesTo(c, [at |-> "sign", link |-> call[c].link])
  BY GoingToSign DEF Increment
<1>4. SignToken(c) \/ Save(c) \/ Remove(c) \/ Abort(c) => MovesTo(c, Idle)
  BY Returning DEF SignToken, Save, Remove, Abort
<1>5. ASSUME NEW m \in Links
      PROVE  /\ FindToMail(c, m) =>
                  MovesTo(c, [at |-> "save", link |-> m, change |-> "mail", was |-> row])
             /\ FindToActivate(c, m) =>
                  MovesTo(c, [at |-> "save", link |-> m, change |-> "activate", was |-> row])
             /\ FindToReset(c, m) =>
                  MovesTo(c, [at |-> "save", link |-> m, change |-> "reset", was |-> row])
  BY BeginningSave DEF FindToMail, FindToActivate, FindToReset, Changes
<1>6. ASSUME NEW m \in Links
      PROVE  FindToDelete(c, m) => MovesTo(c, [at |-> "remove", link |-> m])
  BY Beginning DEF FindToDelete
<1> QED
  BY <1>1, <1>2, <1>3, <1>4, <1>5, <1>6

\* The link of the call that moves is l, the other links stay in the same hands.
LinkGoesTo(c, l) == \A d \in Calls : call'[d].link = IF d = c THEN l ELSE call[d].link

LEMMA LinkMoves ==
    ASSUME TypeOK, NEW c \in Calls
    PROVE  /\ \/ FindToLogin(c) \/ FindToChange(c) \/ SignToken(c) \/ Save(c)
              \/ Remove(c) \/ Abort(c)
              => LinkGoesTo(c, NoLink)
           /\ Increment(c) => LinkGoesTo(c, call[c].link)
           /\ \A m \in Links :
                FindToMail(c, m) \/ FindToActivate(c, m) \/ FindToReset(c, m) \/ FindToDelete(c, m)
                => LinkGoesTo(c, m)
<1>1. ASSUME NEW r, MovesTo(c, r) PROVE LinkGoesTo(c, r.link)
  BY <1>1 DEF MovesTo, LinkGoesTo
<1>2. FindToLogin(c) => LinkGoesTo(c, NoLink)
  <2> DEFINE r == [at |-> "increment", link |-> NoLink]
  <2>1. FindToLogin(c) => MovesTo(c, r)
    BY CallsMove
  <2>2. r.link = NoLink
    OBVIOUS
  <2> HIDE DEF r
  <2> QED
    BY <1>1, <2>1, <2>2
<1>3. FindToChange(c) => LinkGoesTo(c, NoLink)
  <2> DEFINE r == [at |-> "save", link |-> NoLink, change |-> "profile", was |-> row]
  <2>1. FindToChange(c) => MovesTo(c, r)
    BY CallsMove
  <2>2. r.link = NoLink
    OBVIOUS
  <2> HIDE DEF r
  <2> QED
    BY <1>1, <2>1, <2>2
<1>4. SignToken(c) \/ Save(c) \/ Remove(c) \/ Abort(c) => LinkGoesTo(c, NoLink)
  <2>1. Idle.link = NoLink
    BY DEF Idle
  <2> QED
    BY <1>1, <2>1, CallsMove
<1>5. Increment(c) => LinkGoesTo(c, call[c].link)
  <2> DEFINE r == [at |-> "sign", link |-> call[c].link]
  <2>1. Increment(c) => MovesTo(c, r)
    BY CallsMove
  <2>2. r.link = call[c].link
    OBVIOUS
  <2> HIDE DEF r
  <2> QED
    BY <1>1, <2>1, <2>2
<1>6. ASSUME NEW m \in Links
      PROVE  FindToMail(c, m) \/ FindToActivate(c, m) \/ FindToReset(c, m) => LinkGoesTo(c, m)
  <2> DEFINE r(change) == [at |-> "save", link |-> m, change |-> change, was |-> row]
  <2>1. /\ FindToMail(c, m) => MovesTo(c, r("mail"))
        /\ FindToActivate(c, m) => MovesTo(c, r("activate"))
        /\ FindToReset(c, m) => MovesTo(c, r("reset"))
    BY CallsMove
  <2>2. r("mail").link = m /\ r("activate").link = m /\ r("reset").link = m
    OBVIOUS
  <2> HIDE DEF r
  <2> QED
    BY <1>1, <2>1, <2>2
<1>7. ASSUME NEW m \in Links PROVE FindToDelete(c, m) => LinkGoesTo(c, m)
  <2> DEFINE r == [at |-> "remove", link |-> m]
  <2>1. FindToDelete(c, m) => MovesTo(c, r)
    BY CallsMove
  <2>2. r.link = m
    OBVIOUS
  <2> HIDE DEF r
  <2> QED
    BY <1>1, <2>1, <2>2
<1> QED
  BY <1>2, <1>3, <1>4, <1>5, <1>6, <1>7

-----------------------------------------------------------------------------
(* Types and links *)

LEMMA InitInv == Init => TypeOK /\ LinksInv /\ HolderInv /\ SpentInv /\ NoRaceInv
<1> SUFFICES ASSUME Init PROVE TypeOK /\ LinksInv /\ HolderInv /\ SpentInv /\ NoRaceInv
    OBVIOUS
<1>1. row \in Row /\ Idle \in Call
  BY DEF Init, Row, Call, Idle
<1>2. TypeOK
  BY <1>1 DEF Init, TypeOK
<1>3. \A c \in Calls : call[c] = Idle /\ call[c].at = "idle" /\ call[c].link = NoLink
  BY DEF Init, Idle
<1>4. Columns(row)
  BY DEF Init, Columns, Kinds
<1>5. LinksInv /\ HolderInv /\ SpentInv
  BY <1>3, <1>4 DEF LinksInv, HandOK, HolderInv, SpentInv, Init
<1>6. NoRaceInv
  BY <1>3 DEF NoRaceInv, VersionInv, ActivationInv, Activates, Waiting, Init
<1> QED
  BY <1>2, <1>5, <1>6

\* Links are mailed, used and contested for good.
LEMMA HistoryGrows ==
    ASSUME [Next]_vars
    PROVE  mailed \subseteq mailed' /\ used \subseteq used' /\ raced \subseteq raced'
<1>1. UNCHANGED vars => UNCHANGED <<mailed, used, raced>>
  BY DEF vars, history
<1>2. \A b \in BOOLEAN : SetBlocked(b) => UNCHANGED <<mailed, used, raced>>
  BY DEF SetBlocked, history
<1>3. \A m \in Links : Contest(m) => raced \subseteq raced'
  BY DEF Contest
<1>4. \A m : Use(m) => used \subseteq used'
  BY DEF Use
<1>5. \A c \in Calls : FindToLogin(c) \/ FindToChange(c) \/ Increment(c) \/ SignToken(c) =>
         UNCHANGED <<mailed, used, raced>>
  BY DEF FindToLogin, FindToChange, Increment, SignToken, history
<1>6. \A c \in Calls, m \in Links :
         FindToMail(c, m) \/ FindToActivate(c, m) \/ FindToReset(c, m) \/ FindToDelete(c, m) =>
         UNCHANGED <<mailed, used>> /\ raced \subseteq raced'
  BY <1>3 DEF FindToMail, FindToActivate, FindToReset, FindToDelete, history
<1>7. \A c \in Calls : Save(c) =>
         mailed \subseteq mailed' /\ used \subseteq used' /\ raced \subseteq raced'
  BY <1>4 DEF Save
<1>8. \A c \in Calls : Remove(c) \/ Abort(c) => UNCHANGED <<mailed, raced>> /\ used \subseteq used'
  BY <1>4 DEF Remove, Abort, history
<1> QED
  BY <1>1, <1>2, <1>5, <1>6, <1>7, <1>8, StepKinds

\* The call that saves.
LEMMA SaverShape ==
    ASSUME TypeOK, LinksInv, NEW c \in Calls, Waiting(c, "save")
    PROVE  /\ call[c].was \in Row /\ call[c].change \in Changes
           /\ call[c].link \in Links \cup {NoLink} /\ HandOK(call[c])
           /\ call[c].change # "profile" => call[c].link \in Links
           /\ Changed(call[c].was, call[c].change, call[c].link) \in Row
<1>1. call[c] \in Saver
  BY CallShape DEF Waiting
<1>2. /\ call[c].was \in Row /\ call[c].change \in Changes
      /\ call[c].link \in Links \cup {NoLink} /\ HandOK(call[c])
  BY <1>1 DEF Saver, LinksInv
<1>3. call[c].change # "profile" => call[c].link \in Links
  BY <1>2 DEF HandOK, Waiting, Changes, TypeOK
<1> QED
  BY <1>2, <1>3, ChangedRow

LEMMA TypeStep == TypeOK /\ LinksInv /\ [Next]_vars => TypeOK'
<1> SUFFICES ASSUME TypeOK, LinksInv, [Next]_vars PROVE TypeOK'
    OBVIOUS
<1>1. CASE UNCHANGED vars
  BY <1>1 DEF vars, history, TypeOK
<1>2. \A m \in mailed : Contest(m) => raced' \subseteq mailed
  BY DEF Contest, TypeOK
<1>3. \A m \in mailed : Use(m) => used' \subseteq mailed /\ reused' \subseteq used'
  BY DEF Use, TypeOK
<1>4. row.sessionVersion \in 0..MaxVersion /\ \A k \in Kinds : row[k] \in Links => row[k] \in mailed
  BY RowFields DEF TypeOK, LinksInv, Columns
<1>5. ASSUME NEW v \in 0..MaxVersion, Sign(v)
      PROVE  issued' \subseteq 0..MaxVersion /\ superseded' \subseteq issued'
  BY <1>5 DEF Sign, TypeOK
<1>6. ASSUME NEW b \in BOOLEAN, SetBlocked(b) PROVE TypeOK'
  <2>1. [row EXCEPT !.isBlocked = b] \in Row
    BY DEF TypeOK, Row
  <2> QED
    BY <1>6, <2>1 DEF SetBlocked, TypeOK, history
<1>7. ASSUME NEW c \in Calls, FindToLogin(c) \/ FindToChange(c) PROVE TypeOK'
  <2>1. call' \in [Calls -> Call \cup Saver]
    BY <1>7, CallsMove DEF MovesTo
  <2> QED
    BY <1>7, <2>1 DEF FindToLogin, FindToChange, TypeOK, history
<1>8. ASSUME NEW c \in Calls, Increment(c) PROVE TypeOK'
  <2>1. call' \in [Calls -> Call \cup Saver]
    BY <1>8, CallsMove DEF MovesTo
  <2>2. row.sessionVersion + 1 \in 0..MaxVersion
    BY <1>4, <1>8 DEF Increment
  <2>3. [row EXCEPT !.sessionVersion = row.sessionVersion + 1] \in Row
    BY <2>2 DEF TypeOK, Row
  <2>4. row' \in Row
    BY <1>8, <2>3 DEF Increment, TypeOK
  <2> QED
    BY <1>8, <2>1, <2>4 DEF Increment, TypeOK
<1>9. ASSUME NEW c \in Calls, SignToken(c) PROVE TypeOK'
  <2>1. call' \in [Calls -> Call \cup Saver]
    BY <1>9, CallsMove DEF MovesTo
  <2>2. issued' \subseteq 0..MaxVersion /\ superseded' \subseteq issued'
    BY <1>4, <1>5, <1>9 DEF SignToken, TypeOK
  <2> QED
    BY <1>9, <2>1, <2>2 DEF SignToken, TypeOK
<1>10. ASSUME NEW c \in Calls, NEW m \in Links, FindToMail(c, m) PROVE TypeOK'
  <2>1. call' \in [Calls -> Call \cup Saver]
    BY <1>10, CallsMove DEF MovesTo
  <2> QED
    BY <1>10, <2>1 DEF FindToMail, TypeOK, history
<1>11. ASSUME NEW c \in Calls, NEW m \in Links,
              FindToActivate(c, m) \/ FindToReset(c, m) \/ FindToDelete(c, m)
       PROVE TypeOK'
  <2>1. call' \in [Calls -> Call \cup Saver]
    BY <1>11, CallsMove DEF MovesTo
  <2>2. m \in mailed
    BY <1>4, <1>11, RowFields DEF FindToActivate, FindToReset, FindToDelete, Kinds, TypeOK
  <2>3. Contest(m)
    BY <1>11 DEF FindToActivate, FindToReset, FindToDelete
  <2>4. raced' \subseteq mailed /\ tokenRace' \in BOOLEAN
    BY <1>2, <1>11, <2>2, <2>3 DEF FindToActivate, FindToReset, FindToDelete, TypeOK
  <2> QED
    BY <1>11, <2>1, <2>4 DEF FindToActivate, FindToReset, FindToDelete, TypeOK
<1>12. ASSUME NEW c \in Calls, Save(c) PROVE TypeOK'
  <2> DEFINE was == call[c].was
             change == call[c].change
             m == call[c].link
             new == Changed(was, change, m)
  <2>1. Waiting(c, "save") /\ row' = new /\ there' = TRUE
    BY <1>12 DEF Save
  <2>2. /\ was \in Row /\ change \in Changes /\ m \in Links \cup {NoLink} /\ HandOK(call[c])
        /\ change # "profile" => m \in Links
        /\ new \in Row
    BY <2>1, SaverShape
  <2>3. call' \in [Calls -> Call \cup Saver]
    BY <1>12, CallsMove DEF MovesTo
  <2>4. mailed' = IF change = "mail" THEN mailed \cup {m} ELSE mailed
    BY <1>12 DEF Save
  <2>5. mailed' \subseteq Links /\ mailed \subseteq mailed'
    BY <2>2, <2>4 DEF TypeOK
  <2>6. used' \subseteq mailed' /\ reused' \subseteq used'
    <3>1. CASE change \in {"activate", "reset"}
      <4>1. m \in mailed
        BY <2>1, <2>2, <3>1 DEF HandOK, Waiting
      <4>2. Use(m)
        BY <1>12, <3>1 DEF Save
      <4> QED
        BY <1>3, <2>5, <4>1, <4>2
    <3>2. CASE change \notin {"activate", "reset"}
      BY <1>12, <2>5, <3>2 DEF Save, TypeOK
    <3> QED
      BY <3>1, <3>2
  <2>7. issued' \subseteq 0..MaxVersion /\ superseded' \subseteq issued'
    <3>1. was.sessionVersion \in 0..MaxVersion
      BY <2>2, RowFields
    <3> QED
      BY <1>5, <1>12, <3>1 DEF Save, TypeOK
  <2>8. raced' \subseteq mailed'
    <3>1. \A l \in Links : new[Kind[l]] = l => l \in mailed'
      <4> SUFFICES ASSUME NEW l \in Links, new[Kind[l]] = l PROVE l \in mailed'
          OBVIOUS
      <4>1. Kind[l] \in Kinds /\ l # NoLink
        OBVIOUS
      <4>2. (new[Kind[l]] = m /\ change = "mail") \/ new[Kind[l]] = NoLink
              \/ new[Kind[l]] = was[Kind[l]]
        BY <2>2, <4>1, ChangedRow
      <4>3. was[Kind[l]] # NoLink => was[Kind[l]] \in mailed
        BY <2>1, <2>2, <4>1 DEF HandOK, Columns, Waiting
      <4> QED
        BY <2>4, <2>5, <4>1, <4>2, <4>3
    <3>2. raced' \subseteq raced \cup {l \in Links : new[Kind[l]] = l}
      BY <1>12 DEF Save
    <3> QED
      BY <2>5, <3>1, <3>2 DEF TypeOK
  <2>9. tokenRace' \in BOOLEAN
    BY <1>12 DEF Save, TypeOK
  <2> QED
    BY <2>1, <2>2, <2>3, <2>5, <2>6, <2>7, <2>8, <2>9 DEF TypeOK
<1>13. ASSUME NEW c \in Calls, Remove(c) \/ Abort(c) PROVE TypeOK'
  <2>1. call' \in [Calls -> Call \cup Saver]
    BY <1>13, CallsMove DEF MovesTo
  <2>2. used' \subseteq mailed /\ reused' \subseteq used'
    <3>1. Remove(c) => call[c].link \in mailed
      BY DEF Remove, LinksInv, HandOK, Waiting
    <3> QED
      BY <1>3, <1>13, <3>1 DEF Remove, Abort, TypeOK, history
  <2> QED
    BY <1>13, <2>1, <2>2 DEF Remove, Abort, TypeOK, history
<1> QED
  BY <1>1, <1>6, <1>7, <1>8, <1>9, <1>10, <1>11, <1>12, <1>13, StepKinds

\* The hands of the calls stay in order when one of them moves and nothing is mailed.
LEMMA HandsKept ==
    ASSUME TypeOK, LinksInv, mailed' = mailed, NEW c \in Calls,
           HandOK(call'[c]), \A d \in Calls \ {c} : call'[d] = call[d]
    PROVE  \A d \in Calls : HandOK(call[d])'
<1>1. \A d \in Calls : HandOK(call'[d])
  BY DEF LinksInv
<1> QED
  BY <1>1 DEF HandOK, Columns

LEMMA LinksStep == TypeOK /\ LinksInv /\ HolderInv /\ [Next]_vars => LinksInv'
<1> SUFFICES ASSUME TypeOK, LinksInv, HolderInv, [Next]_vars PROVE LinksInv'
    OBVIOUS
<1>1. Columns(row) /\ row \in Row
  BY DEF LinksInv, TypeOK
<1>2. CASE UNCHANGED vars
  BY <1>2 DEF vars, LinksInv, HandOK, Columns
<1>3. ASSUME UNCHANGED <<row, mailed>>, NEW c \in Calls, NEW r, MovesTo(c, r), HandOK(r)
      PROVE  LinksInv'
  <2>1. Columns(row)'
    BY <1>1, <1>3 DEF Columns
  <2> QED
    BY <1>3, <2>1, HandsKept DEF MovesTo, LinksInv
<1>4. ASSUME NEW b \in BOOLEAN, SetBlocked(b) PROVE LinksInv'
  <2>1. row' = [row EXCEPT !.isBlocked = b] /\ UNCHANGED <<call, mailed>>
    BY <1>4 DEF SetBlocked
  <2>2. \A k \in Kinds : row'[k] = row[k]
    BY <1>1, <2>1, RowFields DEF Kinds
  <2> QED
    BY <2>1, <2>2 DEF LinksInv, Columns, HandOK
<1>5. ASSUME NEW c \in Calls, FindToLogin(c) \/ FindToChange(c) \/ SignToken(c) \/ Remove(c) \/ Abort(c)
      PROVE  LinksInv'
  <2>1. UNCHANGED <<row, mailed>>
    BY <1>5 DEF FindToLogin, FindToChange, SignToken, Remove, Abort
  <2>2. CASE FindToLogin(c)
    <3>1. HandOK([at |-> "increment", link |-> NoLink])
      BY DEF HandOK
    <3> QED
      BY <1>3, <2>1, <2>2, <3>1, CallsMove
  <2>3. CASE FindToChange(c)
    <3> DEFINE r == [at |-> "save", link |-> NoLink, change |-> "profile", was |-> row]
    <3>1. HandOK(r)
      BY <1>1 DEF HandOK
    <3>2. MovesTo(c, r)
      BY <2>3, CallsMove
    <3> QED
      BY <1>3, <2>1, <3>1, <3>2
  <2>4. CASE SignToken(c) \/ Remove(c) \/ Abort(c)
    <3>1. HandOK(Idle)
      BY DEF HandOK, Idle
    <3> QED
      BY <1>3, <2>1, <2>4, <3>1, CallsMove
  <2> QED
    BY <1>5, <2>2, <2>3, <2>4
<1>6. ASSUME NEW c \in Calls, Increment(c) PROVE LinksInv'
  <2>1. mailed' = mailed
    BY <1>6 DEF Increment
  <2>2. \A k \in Kinds : row'[k] = row[k]
    BY <1>1, <1>6, RowFields DEF Increment, Kinds
  <2>3. Columns(row)'
    BY <1>1, <2>1, <2>2 DEF Columns
  <2>4. call[c].link = NoLink
    BY <1>6 DEF Increment, Waiting, LinksInv, HandOK
  <2>5. HandOK([at |-> "sign", link |-> call[c].link])
    BY <2>4 DEF HandOK
  <2>6. MovesTo(c, [at |-> "sign", link |-> call[c].link])
    BY <1>6, CallsMove
  <2> QED
    BY <2>1, <2>3, <2>5, <2>6, HandsKept DEF MovesTo, LinksInv
<1>7. ASSUME NEW c \in Calls, NEW m \in Links,
             FindToMail(c, m) \/ FindToActivate(c, m) \/ FindToReset(c, m) \/ FindToDelete(c, m)
      PROVE  LinksInv'
  <2>1. UNCHANGED <<row, mailed>>
    BY <1>7 DEF FindToMail, FindToActivate, FindToReset, FindToDelete
  <2>2. \A k \in Kinds : row[k] = m => m \in mailed /\ Kind[m] = k
    BY <1>1 DEF Columns
  <2>3. CASE FindToMail(c, m)
    <3> DEFINE r == [at |-> "save", link |-> m, change |-> "mail", was |-> row]
    <3>1. HandOK(r)
      BY <1>1, <2>3 DEF HandOK, FindToMail
    <3>2. MovesTo(c, r)
      BY <2>3, CallsMove
    <3> QED
      BY <1>3, <2>1, <3>1, <3>2
  <2>4. CASE FindToActivate(c, m)
    <3> DEFINE r == [at |-> "save", link |-> m, change |-> "activate", was |-> row]
    <3>1. row["activationToken"] = m
      BY <1>1, <2>4 DEF FindToActivate
    <3>2. HandOK(r)
      BY <1>1, <2>2, <3>1 DEF HandOK, Kinds
    <3>3. MovesTo(c, r)
      BY <2>4, CallsMove
    <3> QED
      BY <1>3, <2>1, <3>2, <3>3
  <2>5. CASE FindToReset(c, m)
    <3> DEFINE r == [at |-> "save", link |-> m, change |-> "reset", was |-> row]
    <3>1. row["resetToken"] = m
      BY <1>1, <2>5 DEF FindToReset
    <3>2. HandOK(r)
      BY <1>1, <2>2, <3>1 DEF HandOK, Kinds
    <3>3. MovesTo(c, r)
      BY <2>5, CallsMove
    <3> QED
      BY <1>3, <2>1, <3>2, <3>3
  <2>6. CASE FindToDelete(c, m)
    <3>1. row["deleteToken"] = m
      BY <1>1, <2>6 DEF FindToDelete
    <3>2. HandOK([at |-> "remove", link |-> m])
      BY <2>2, <3>1 DEF HandOK, Kinds
    <3> QED
      BY <1>3, <2>1, <2>6, <3>2, CallsMove
  <2> QED
    BY <1>7, <2>3, <2>4, <2>5, <2>6
<1>8. ASSUME NEW c \in Calls, Save(c) PROVE LinksInv'
  <2> DEFINE was == call[c].was
             change == call[c].change
             m == call[c].link
             new == Changed(was, change, m)
  <2>1. Waiting(c, "save") /\ row' = new
    BY <1>8 DEF Save
  <2>2. /\ was \in Row /\ change \in Changes /\ m \in Links \cup {NoLink} /\ HandOK(call[c])
        /\ change # "profile" => m \in Links
    BY <2>1, SaverShape
  <2>3. mailed' = IF change = "mail" THEN mailed \cup {m} ELSE mailed
    BY <1>8 DEF Save
  <2>4. ASSUME NEW k \in Kinds, new[k] # NoLink PROVE new[k] \in mailed' /\ Kind[new[k]] = k
    <3>1. (new[k] = m /\ change = "mail" /\ k = Kind[m]) \/ new[k] = was[k]
      BY <2>2, <2>4, ChangedRow
    <3>2. was[k] # NoLink => was[k] \in mailed /\ Kind[was[k]] = k
      BY <2>1, <2>2 DEF HandOK, Columns, Waiting
    <3> QED
      BY <2>3, <2>4, <3>1, <3>2
  <2>5. Columns(row)'
    BY <2>1, <2>4 DEF Columns
  <2>6. MovesTo(c, Idle)
    BY <1>8, CallsMove
  <2>7. ASSUME NEW d \in Calls PROVE HandOK(call[d])'
    <3>1. CASE d = c
      BY <2>6, <3>1 DEF MovesTo, HandOK, Idle
    <3>2. CASE d # c
      <4>1. call'[d] = call[d] /\ HandOK(call[d])
        BY <2>6, <3>2 DEF MovesTo, LinksInv
      <4>2. call[d].at = "save" /\ call[d].change = "mail" => call[d].link \in Links \ mailed'
        <5>1. SUFFICES ASSUME change = "mail", call[d].at = "save", call[d].change = "mail"
                       PROVE  call[d].link # m
          BY <2>3, <4>1 DEF HandOK
        <5>2. m \in Links \ raced
          BY <2>1, <2>2, <5>1 DEF HandOK, Waiting, TypeOK
        <5> QED
          BY <3>2, <5>2 DEF HolderInv
      <4>3. mailed \subseteq mailed'
        BY <2>3
      <4> QED
        BY <4>1, <4>2, <4>3 DEF HandOK, Columns
    <3> QED
      BY <3>1, <3>2
  <2> QED
    BY <2>5, <2>7 DEF LinksInv
<1> QED
  BY <1>2, <1>4, <1>5, <1>6, <1>7, <1>8, StepKinds

\* A link gets into a second pair of hands by a contest only.
LEMMA HolderStep == TypeOK /\ LinksInv /\ HolderInv /\ [Next]_vars => HolderInv'
<1> SUFFICES ASSUME TypeOK, LinksInv, HolderInv, [Next]_vars PROVE HolderInv'
    OBVIOUS
<1>1. raced \subseteq raced'
  BY HistoryGrows
<1>2. CASE UNCHANGED call
  BY <1>1, <1>2 DEF HolderInv
<1>3. ASSUME NEW c \in Calls, NEW l \in {NoLink, call[c].link}, LinkGoesTo(c, l)
      PROVE  HolderInv'
  BY <1>1, <1>3 DEF HolderInv, LinkGoesTo
<1>4. ASSUME NEW c \in Calls, NEW m \in Links, LinkGoesTo(c, m),
             m \in raced' \/ \A d \in Calls : call[d].link # m
      PROVE  HolderInv'
  BY <1>1, <1>4 DEF HolderInv, LinkGoesTo
<1>5. UNCHANGED vars \/ (\E b \in BOOLEAN : SetBlocked(b)) => UNCHANGED call
  BY DEF vars, SetBlocked
<1>6. ASSUME NEW c \in Calls,
             FindToLogin(c) \/ FindToChange(c) \/ Increment(c) \/ SignToken(c) \/ Save(c)
                \/ Remove(c) \/ Abort(c)
      PROVE  HolderInv'
  BY <1>3, <1>6, LinkMoves
<1>7. ASSUME NEW c \in Calls, NEW m \in Links,
             FindToMail(c, m) \/ FindToActivate(c, m) \/ FindToReset(c, m) \/ FindToDelete(c, m)
      PROVE  HolderInv'
  <2>1. m \in raced' \/ \A d \in Calls : call[d].link # m
    BY <1>7 DEF FindToMail, FindToActivate, FindToReset, FindToDelete, Contest
  <2>2. LinkGoesTo(c, m)
    BY <1>7, LinkMoves
  <2> QED
    BY <1>4, <2>1, <2>2
<1> QED
  BY <1>2, <1>5, <1>6, <1>7, StepKinds

\* A link that is spent comes back by a contested save only, and is used for the first
\* time by the one who holds it.
LEMMA SpentStep ==
    TypeOK /\ LinksInv /\ HolderInv /\ SpentInv /\ [Next]_vars => SpentInv'
<1> SUFFICES ASSUME TypeOK, LinksInv, HolderInv, SpentInv, [Next]_vars,
                    NEW m \in used' \ raced'
             PROVE  /\ there' => row'[Kind[m]] # m
                    /\ \A d \in Calls : call'[d].link # m
    BY DEF SpentInv
<1> DEFINE Goal == /\ there' => row'[Kind[m]] # m
                   /\ \A d \in Calls : call'[d].link # m
<1>1. raced \subseteq raced' /\ m \notin raced
  BY HistoryGrows
<1>2. m \in Links /\ Kind[m] \in Kinds /\ m # NoLink
  <2>1. m \in mailed'
    BY TypeStep DEF TypeOK
  <2> QED
    BY <2>1, TypeStep DEF TypeOK
<1>3. ASSUME m \in used
      PROVE  (there => row[Kind[m]] # m) /\ \A d \in Calls : call[d].link # m
  BY <1>1, <1>3 DEF SpentInv
<1>4. CASE UNCHANGED vars
  BY <1>3, <1>4 DEF vars, history
<1>5. ASSUME NEW b \in BOOLEAN, SetBlocked(b) PROVE Goal
  <2>1. row'[Kind[m]] = row[Kind[m]]
    BY <1>2, <1>5, RowFields DEF SetBlocked, TypeOK, Kinds
  <2> QED
    BY <1>3, <1>5, <2>1 DEF SetBlocked, history
<1>6. ASSUME NEW c \in Calls, FindToLogin(c) \/ FindToChange(c) \/ Increment(c) \/ SignToken(c)
      PROVE  Goal
  <2>1. there' = there /\ used' = used /\ row'[Kind[m]] = row[Kind[m]]
    BY <1>2, <1>6, RowFields
       DEF FindToLogin, FindToChange, Increment, SignToken, TypeOK, Kinds, history
  <2>2. \A d \in Calls : call'[d].link \in {NoLink, call[d].link}
    BY <1>6, LinkMoves DEF LinkGoesTo
  <2> QED
    BY <1>2, <1>3, <2>1, <2>2
<1>7. ASSUME NEW c \in Calls, NEW l \in Links,
             FindToMail(c, l) \/ FindToActivate(c, l) \/ FindToReset(c, l) \/ FindToDelete(c, l)
      PROVE  Goal
  <2>1. UNCHANGED <<there, row, used>> /\ there
    BY <1>7 DEF FindToMail, FindToActivate, FindToReset, FindToDelete, history
  <2>2. l # m
    <3>1. ASSUME FindToMail(c, l) PROVE l # m
      BY <2>1, <3>1 DEF FindToMail, TypeOK
    <3>2. ASSUME FindToActivate(c, l) \/ FindToReset(c, l) \/ FindToDelete(c, l) PROVE l # m
      <4>1. \E k \in Kinds : row[k] = l
        BY <3>2 DEF FindToActivate, FindToReset, FindToDelete, Kinds
      <4>2. row[Kind[l]] = l
        BY <4>1 DEF LinksInv, Columns
      <4> QED
        BY <1>3, <2>1, <4>2
    <3> QED
      BY <1>7, <3>1, <3>2
  <2>3. \A d \in Calls : call'[d].link \in {l, call[d].link}
    BY <1>7, LinkMoves DEF LinkGoesTo
  <2> QED
    BY <1>3, <2>1, <2>2, <2>3
<1>8. ASSUME NEW c \in Calls, Save(c) PROVE Goal
  <2> DEFINE was == call[c].was
             change == call[c].change
             l == call[c].link
             new == Changed(was, change, l)
  <2>1. Waiting(c, "save") /\ row' = new
    BY <1>8 DEF Save
  <2>2. /\ was \in Row /\ change \in Changes /\ l \in Links \cup {NoLink} /\ HandOK(call[c])
        /\ change # "profile" => l \in Links
    BY <2>1, SaverShape
  <2>3. \A d \in Calls : call'[d].link = IF d = c THEN NoLink ELSE call[d].link
    BY <1>8, LinkMoves DEF LinkGoesTo
  <2>4. m \in used \/ (m = l /\ change \in {"activate", "reset"})
    BY <1>8 DEF Save, Use
  <2>5. \A d \in Calls \ {c} : call[d].link # m
    BY <1>1, <1>2, <1>3, <2>4 DEF HolderInv
  <2>6. new[Kind[m]] = m => there /\ Kind[m] \notin SetBack(was, new)
    BY <1>2, <1>8 DEF Save
  <2>7. new[Kind[m]] = (IF change = "mail" /\ Kind[m] = Kind[l] THEN l
                       ELSE IF change = "activate" /\ Kind[m] = "activationToken" THEN NoLink
                       ELSE IF change = "reset" /\ Kind[m] = "resetToken" THEN NoLink
                       ELSE was[Kind[m]])
    BY <1>2, <2>2, ChangedRow
  <2>8. new[Kind[m]] # m
    <3>1. CASE m \in used
      <4>1. SUFFICES ASSUME new[Kind[m]] = m PROVE FALSE
        OBVIOUS
      <4>2. there /\ row[Kind[m]] # m /\ Kind[m] \in DOMAIN row
        BY <1>2, <1>3, <2>6, <3>1, <4>1, RowFields DEF TypeOK
      <4>3. row[Kind[m]] = was[Kind[m]]
        BY <2>6, <4>1, <4>2 DEF SetBack
      <4>4. m = l
        BY <2>7, <4>1, <4>2, <4>3, <1>2
      <4> QED
        BY <1>3, <3>1, <4>4
    <3>2. CASE m = l /\ change \in {"activate", "reset"}
      <4>1. Kind[m] = IF change = "activate" THEN "activationToken" ELSE "resetToken"
        BY <2>1, <2>2, <3>2 DEF HandOK, Waiting
      <4> QED
        BY <1>2, <2>7, <3>2, <4>1
    <3> QED
      BY <2>4, <3>1, <3>2
  <2> QED
    BY <1>2, <2>1, <2>3, <2>5, <2>8
<1>9. ASSUME NEW c \in Calls, Remove(c) \/ Abort(c) PROVE Goal
  <2>1. \A d \in Calls : call'[d].link = IF d = c THEN NoLink ELSE call[d].link
    BY <1>9, LinkMoves DEF LinkGoesTo
  <2>2. CASE m \in used
    <3>1. row' = row /\ (there' => there)
      BY <1>9 DEF Remove, Abort
    <3> QED
      BY <1>2, <1>3, <2>1, <2>2, <3>1
  <2>3. CASE m \notin used
    <3>1. m = call[c].link /\ there' = FALSE
      BY <1>9, <2>3 DEF Remove, Abort, Use, history
    <3>2. \A d \in Calls \ {c} : call[d].link # m
      BY <1>1, <1>2, <3>1 DEF HolderInv
    <3> QED
      BY <1>2, <2>1, <3>1, <3>2
  <2> QED
    BY <2>2, <2>3
<1> QED
  BY <1>4, <1>5, <1>6, <1>7, <1>8, <1>9, StepKinds

\* Whoever uses a link again has raced for it.
LEMMA ReuseStep ==
    TypeOK /\ LinksInv /\ SpentInv /\ LinkOnce /\ [Next]_vars => LinkOnce'
<1> SUFFICES ASSUME TypeOK, LinksInv, SpentInv, LinkOnce, [Next]_vars PROVE LinkOnce'
    OBVIOUS
<1>1. raced \subseteq raced'
  BY HistoryGrows
<1>2. CASE reused' = reused
  BY <1>1, <1>2 DEF LinkOnce
<1>3. ASSUME NEW c \in Calls, Use(call[c].link) PROVE LinkOnce'
  <2>1. call[c].link \in used => call[c].link \in raced
    BY DEF SpentInv
  <2> QED
    BY <1>1, <1>3, <2>1 DEF Use, LinkOnce
<1>4. \A c \in Calls : Save(c) => reused' = reused \/ Use(call[c].link)
  BY DEF Save
<1>5. \A c \in Calls : Remove(c) \/ Abort(c) => reused' = reused \/ Use(call[c].link)
  BY DEF Remove, Abort, history
<1>6. \/ reused' = reused
      \/ \E c \in Calls : Save(c) \/ Remove(c) \/ Abort(c)
  <2>1. UNCHANGED vars \/ (\E b \in BOOLEAN : SetBlocked(b)) => reused' = reused
    BY DEF vars, history, SetBlocked
  <2>2. \A c \in Calls : FindToLogin(c) \/ FindToChange(c) \/ Increment(c) \/ SignToken(c) =>
           reused' = reused
    BY DEF FindToLogin, FindToChange, Increment, SignToken, history
  <2>3. \A c \in Calls, m \in Links :
           FindToMail(c, m) \/ FindToActivate(c, m) \/ FindToReset(c, m) \/ FindToDelete(c, m) =>
           reused' = reused
    BY DEF FindToMail, FindToActivate, FindToReset, FindToDelete, history
  <2> QED
    BY <2>1, <2>2, <2>3, StepKinds
<1> QED
  BY <1>2, <1>3, <1>4, <1>5, <1>6

-----------------------------------------------------------------------------
(* Tokens *)

\* Where the call that moves goes, and what it is to save.
GoesTo(c, at) == \A d \in Calls : IF d = c THEN call'[d].at = at ELSE call'[d] = call[d]
GoesToSave(c, change) ==
    /\ GoesTo(c, "save")
    /\ call'[c].change = change
    /\ call'[c].was = row

LEMMA PlaceMoves ==
    ASSUME TypeOK, NEW c \in Calls
    PROVE  /\ FindToLogin(c) => GoesTo(c, "increment")
           /\ Increment(c) => GoesTo(c, "sign")
           /\ SignToken(c) \/ Save(c) \/ Remove(c) \/ Abort(c) => GoesTo(c, "idle")
           /\ FindToChange(c) => GoesToSave(c, "profile")
           /\ \A m \in Links :
                /\ FindToMail(c, m) => GoesToSave(c, "mail")
                /\ FindToActivate(c, m) => GoesToSave(c, "activate")
                /\ FindToReset(c, m) => GoesToSave(c, "reset")
                /\ FindToDelete(c, m) => GoesTo(c, "remove")
<1>1. ASSUME NEW r, MovesTo(c, r) PROVE GoesTo(c, r.at)
  BY <1>1 DEF MovesTo, GoesTo
<1>2. ASSUME NEW r, MovesTo(c, r), r.at = "save", r.was = row PROVE GoesToSave(c, r.change)
  BY <1>1, <1>2 DEF MovesTo, GoesToSave
<1>3. ASSUME NEW at, NEW m, MovesTo(c, [at |-> at, link |-> m]) PROVE GoesTo(c, at)
  <2> DEFINE r == [at |-> at, link |-> m]
  <2>1. r.at = at /\ MovesTo(c, r)
    BY <1>3
  <2> HIDE DEF r
  <2> QED
    BY <1>1, <2>1
<1>4. ASSUME NEW m, NEW change,
             MovesTo(c, [at |-> "save", link |-> m, change |-> change, was |-> row])
      PROVE  GoesToSave(c, change)
  <2> DEFINE r == [at |-> "save", link |-> m, change |-> change, was |-> row]
  <2>1. r.at = "save" /\ r.change = change /\ r.was = row /\ MovesTo(c, r)
    BY <1>4
  <2> HIDE DEF r
  <2> QED
    BY <1>2, <2>1
<1>5. Idle.at = "idle"
  BY DEF Idle
<1>6. SignToken(c) \/ Save(c) \/ Remove(c) \/ Abort(c) => GoesTo(c, "idle")
  BY <1>1, <1>5, CallsMove
<1>7. (FindToLogin(c) => GoesTo(c, "increment")) /\ (Increment(c) => GoesTo(c, "sign"))
  BY <1>3, CallsMove
<1>8. FindToChange(c) => GoesToSave(c, "profile")
  BY <1>4, CallsMove
<1>9. ASSUME NEW m \in Links
      PROVE  /\ FindToMail(c, m) => GoesToSave(c, "mail")
             /\ FindToActivate(c, m) => GoesToSave(c, "activate")
             /\ FindToReset(c, m) => GoesToSave(c, "reset")
             /\ FindToDelete(c, m) => GoesTo(c, "remove")
  BY <1>3, <1>4, CallsMove
<1> QED
  BY <1>6, <1>7, <1>8, <1>9

\* A race is never forgotten.
LEMMA RaceStays == TypeOK /\ [Next]_vars /\ tokenRace => tokenRace'
<1> SUFFICES ASSUME TypeOK, [Next]_vars, tokenRace PROVE tokenRace'
    OBVIOUS
<1>1. tokenRace = TRUE
  BY DEF TypeOK
<1>2. UNCHANGED vars \/ (\E b \in BOOLEAN : SetBlocked(b)) => tokenRace'
  BY <1>1 DEF vars, history, SetBlocked
<1>3. \A c \in Calls : FindToLogin(c) \/ FindToChange(c) \/ SignToken(c) => tokenRace'
  BY <1>1 DEF FindToLogin, FindToChange, SignToken, history
<1>4. \A c \in Calls : Increment(c) => tokenRace'
  BY <1>1 DEF Increment
<1>5. \A c \in Calls, m \in Links :
         FindToMail(c, m) \/ FindToReset(c, m) \/ FindToDelete(c, m) => tokenRace'
  BY <1>1 DEF FindToMail, FindToReset, FindToDelete, history
<1>6. \A c \in Calls, m \in Links : FindToActivate(c, m) => tokenRace'
  BY <1>1 DEF FindToActivate
<1>7. \A c \in Calls : Save(c) => tokenRace'
  BY <1>1 DEF Save
<1>8. \A c \in Calls : Remove(c) \/ Abort(c) => tokenRace'
  BY <1>1 DEF Remove, Abort, history
<1> QED
  BY <1>2, <1>3, <1>4, <1>5, <1>6, <1>7, <1>8, StepKinds

\* What a save that races with nothing makes of the columns that say which token is valid.
LEMMA SaveWithoutRace ==
    ASSUME TypeOK, LinksInv, ActivationInv, NEW c \in Calls, Save(c), ~tokenRace'
    PROVE  /\ row'.sessionVersion = row.sessionVersion
           /\ row'.isActivated = (row.isActivated \/ Activates(c))
           /\ ~there => \A d \in Calls : ~Waiting(d, "sign")
<1> DEFINE was == call[c].was
           change == call[c].change
           new == Changed(was, change, call[c].link)
<1>1. Waiting(c, "save") /\ row' = new
  BY DEF Save
<1>2. /\ was \in Row /\ change \in Changes
      /\ new.sessionVersion = was.sessionVersion
      /\ new.isActivated = (was.isActivated \/ change = "activate")
  BY <1>1, SaverShape, ChangedRow
<1>3. /\ {"isActivated", "sessionVersion"} \cap SetBack(was, new) = {}
      /\ ~there => \A d \in Calls : ~Waiting(d, "sign")
  BY DEF Save, TypeOK
<1>4. /\ {"isActivated", "sessionVersion"} \subseteq DOMAIN row
      /\ row.isActivated \in BOOLEAN /\ was.isActivated \in BOOLEAN
  BY <1>2, RowFields DEF TypeOK
<1>5. /\ row["isActivated"] \in {was["isActivated"], new["isActivated"]}
      /\ row["sessionVersion"] \in {was["sessionVersion"], new["sessionVersion"]}
  BY <1>3, <1>4 DEF SetBack
<1>6. CASE change = "activate"
  <2>1. Activates(c)
    BY <1>1, <1>6 DEF Activates
  <2> QED
    BY <1>1, <1>2, <1>3, <1>4, <1>5, <1>6, <2>1
<1>7. CASE change # "activate"
  <2>1. ~Activates(c)
    BY <1>7 DEF Activates
  <2>2. row.isActivated = was.isActivated /\ new.isActivated = was.isActivated
    BY <1>2, <1>4, <1>5, <1>7
  <2> QED
    BY <1>1, <1>2, <1>3, <1>5, <2>1, <2>2
<1> QED
  BY <1>6, <1>7

LEMMA TokenStep == TypeOK /\ LinksInv /\ NoRaceInv /\ [Next]_vars => NoRaceInv'
<1> SUFFICES ASSUME TypeOK, LinksInv, NoRaceInv, [Next]_vars, ~tokenRace'
             PROVE  VersionInv' /\ ActivationInv'
    BY DEF NoRaceInv
<1>1. VersionInv /\ ActivationInv
  BY RaceStays DEF NoRaceInv
<1>2. /\ row.sessionVersion \in Nat /\ row.isActivated \in BOOLEAN
      /\ issued \subseteq Nat /\ superseded \subseteq issued
  BY RowFields DEF TypeOK
<1>3. ASSUME row'.sessionVersion = row.sessionVersion, UNCHANGED <<issued, superseded>>, there' => there,
             NEW c \in Calls, NEW at \in {"idle", "increment", "remove", "save"}, GoesTo(c, at)
      PROVE  VersionInv'
  BY <1>1, <1>3 DEF VersionInv, Waiting, GoesTo
<1>4. ASSUME row'.isActivated = row.isActivated, issued' = issued,
             NEW c \in Calls, NEW at \in {"idle", "increment", "sign", "remove"}, GoesTo(c, at),
             at \in {"increment", "sign"} => row.isActivated
      PROVE  ActivationInv'
  BY <1>1, <1>4 DEF ActivationInv, Activates, Waiting, GoesTo
<1>5. ASSUME UNCHANGED <<row, issued>>, NEW c \in Calls, NEW change, GoesToSave(c, change),
             change = "activate" => ~row.isActivated /\ \A d \in Calls : ~Activates(d)
      PROVE  ActivationInv'
  BY <1>1, <1>5 DEF ActivationInv, Activates, Waiting, GoesTo, GoesToSave
<1>6. ASSUME UNCHANGED <<call, there, issued, superseded>>,
             row'.isActivated = row.isActivated, row'.sessionVersion = row.sessionVersion
      PROVE  VersionInv' /\ ActivationInv'
  BY <1>1, <1>6 DEF VersionInv, ActivationInv, Activates, Waiting
<1>7. CASE UNCHANGED vars
  BY <1>6, <1>7 DEF vars, history
<1>8. ASSUME NEW b \in BOOLEAN, SetBlocked(b) PROVE VersionInv' /\ ActivationInv'
  <2>1. row' = [row EXCEPT !.isBlocked = b] /\ UNCHANGED <<call, there, issued, superseded>>
    BY <1>8 DEF SetBlocked, history
  <2>2. row'.isActivated = row.isActivated /\ row'.sessionVersion = row.sessionVersion
    BY <2>1, RowFields DEF TypeOK
  <2> QED
    BY <1>6, <2>1, <2>2
<1>9. ASSUME NEW c \in Calls, FindToLogin(c) PROVE VersionInv' /\ ActivationInv'
  <2>1. GoesTo(c, "increment") /\ row.isActivated /\ UNCHANGED <<there, row, issued, superseded>>
    BY <1>9, PlaceMoves DEF FindToLogin, history
  <2> QED
    BY <1>3, <1>4, <2>1
<1>10. ASSUME NEW c \in Calls, FindToChange(c) PROVE VersionInv' /\ ActivationInv'
  <2>1. GoesToSave(c, "profile") /\ UNCHANGED <<there, row, issued, superseded>>
    BY <1>10, PlaceMoves DEF FindToChange, history
  <2> QED
    BY <1>3, <1>5, <2>1 DEF GoesToSave
<1>11. ASSUME NEW c \in Calls, Increment(c) PROVE VersionInv' /\ ActivationInv'
  <2>1. /\ GoesTo(c, "sign") /\ Waiting(c, "increment")
        /\ UNCHANGED <<there, issued, superseded>>
        /\ \A d \in Calls : ~Waiting(d, "sign")
    BY <1>11, PlaceMoves DEF Increment, TypeOK
  <2>2. row.isActivated
    BY <1>1, <2>1 DEF ActivationInv, Waiting
  <2>3. /\ row'.isActivated = row.isActivated
        /\ row'.sessionVersion = IF there THEN row.sessionVersion + 1 ELSE row.sessionVersion
    BY <1>11, RowFields DEF Increment, TypeOK
  <2>4. ActivationInv'
    BY <1>4, <2>1, <2>2, <2>3
  <2>5. VersionInv'
    BY <1>1, <1>2, <2>1, <2>3 DEF VersionInv, Waiting, GoesTo
  <2> QED
    BY <2>4, <2>5
<1>12. ASSUME NEW c \in Calls, SignToken(c) PROVE VersionInv' /\ ActivationInv'
  <2>1. GoesTo(c, "idle") /\ Waiting(c, "sign") /\ UNCHANGED <<there, row>>
    BY <1>12, PlaceMoves DEF SignToken
  <2>2. row.isActivated
    BY <1>1, <2>1 DEF ActivationInv, Waiting
  <2>3. ActivationInv'
    BY <1>1, <2>1, <2>2 DEF ActivationInv, Activates, Waiting, GoesTo
  <2>4. CASE there
    <3>1. issued' = issued \cup {row.sessionVersion} /\ superseded' = superseded \cup issued
      BY <1>12, <2>4 DEF SignToken, Sign
    <3>2. \A v \in issued : v < row.sessionVersion
      BY <1>1, <2>1, <2>4 DEF VersionInv
    <3>3. \A d \in Calls : ~Waiting(d, "sign")'
      BY <1>1, <2>1 DEF VersionInv, Waiting, GoesTo
    <3> QED
      BY <1>2, <2>1, <2>3, <3>1, <3>2, <3>3 DEF VersionInv
  <2>5. CASE ~there
    BY <1>3, <1>12, <2>1, <2>3, <2>5 DEF SignToken
  <2> QED
    BY <2>4, <2>5
<1>13. ASSUME NEW c \in Calls, NEW m \in Links, FindToMail(c, m) \/ FindToReset(c, m)
       PROVE  VersionInv' /\ ActivationInv'
  <2>1. /\ GoesToSave(c, "mail") \/ GoesToSave(c, "reset")
        /\ UNCHANGED <<there, row, issued, superseded>>
    BY <1>13, PlaceMoves DEF FindToMail, FindToReset, history
  <2> QED
    BY <1>3, <1>5, <2>1 DEF GoesToSave
<1>14. ASSUME NEW c \in Calls, NEW m \in Links, FindToActivate(c, m)
       PROVE  VersionInv' /\ ActivationInv'
  <2>1. /\ GoesToSave(c, "activate") /\ ~row.isActivated
        /\ UNCHANGED <<there, row, issued, superseded>>
    BY <1>14, PlaceMoves DEF FindToActivate
  <2>2. \A d \in Calls : ~Activates(d)
    BY <1>14 DEF FindToActivate, TypeOK, Activates
  <2> QED
    BY <1>3, <1>5, <2>1, <2>2 DEF GoesToSave
<1>15. ASSUME NEW c \in Calls, NEW m \in Links, FindToDelete(c, m)
       PROVE  VersionInv' /\ ActivationInv'
  <2>1. GoesTo(c, "remove") /\ UNCHANGED <<there, row, issued, superseded>>
    BY <1>15, PlaceMoves DEF FindToDelete
  <2> QED
    BY <1>3, <1>4, <2>1
<1>16. ASSUME NEW c \in Calls, Save(c) PROVE VersionInv' /\ ActivationInv'
  <2>1. GoesTo(c, "idle") /\ Waiting(c, "save") /\ there' = TRUE
    BY <1>16, PlaceMoves DEF Save
  <2>2. /\ row'.sessionVersion = row.sessionVersion
        /\ row'.isActivated = (row.isActivated \/ Activates(c))
        /\ ~there => \A d \in Calls : ~Waiting(d, "sign")
    BY <1>1, <1>16, SaveWithoutRace
  <2>3. CASE Activates(c)
    <3>1. /\ issued = {} /\ superseded = {}
          /\ \A d \in Calls : ~Waiting(d, "sign")
      BY <1>1, <1>2, <2>3 DEF ActivationInv, Waiting
    <3>2. issued' = {call[c].was.sessionVersion} /\ superseded' = {}
      BY <1>16, <2>3, <3>1 DEF Save, Sign, Activates
    <3>3. row' = Changed(call[c].was, call[c].change, call[c].link)
      BY <1>16 DEF Save
    <3>4. call[c].was.sessionVersion = row.sessionVersion
      BY <2>1, <2>2, <3>3, SaverShape, ChangedRow
    <3>5. VersionInv'
      BY <1>2, <2>1, <2>2, <3>1, <3>2, <3>4 DEF VersionInv, Waiting, GoesTo
    <3>6. ActivationInv'
      BY <1>1, <2>1, <2>2, <2>3 DEF ActivationInv, Activates, Waiting, GoesTo
    <3> QED
      BY <3>5, <3>6
  <2>4. CASE ~Activates(c)
    <3>1. row'.isActivated = row.isActivated /\ UNCHANGED <<issued, superseded>>
      BY <1>2, <1>16, <2>1, <2>2, <2>4 DEF Save, Activates
    <3>2. ActivationInv'
      BY <1>4, <2>1, <3>1
    <3>3. VersionInv'
      BY <1>1, <2>1, <2>2, <3>1 DEF VersionInv, Waiting, GoesTo
    <3> QED
      BY <3>2, <3>3
  <2> QED
    BY <2>3, <2>4
<1>17. ASSUME NEW c \in Calls, Remove(c) \/ Abort(c) PROVE VersionInv' /\ ActivationInv'
  <2>1. GoesTo(c, "idle") /\ UNCHANGED <<row, issued, superseded>> /\ (there' => there)
    <3>1. GoesTo(c, "idle")
      BY <1>17, PlaceMoves
    <3> QED
      BY <1>17, <3>1 DEF Remove, Abort, history, TypeOK
  <2> QED
    BY <1>3, <1>4, <2>1
<1> QED
  BY <1>7, <1>8, <1>9, <1>10, <1>11, <1>12, <1>13, <1>14, <1>15, <1>16, <1>17, StepKinds

-----------------------------------------------------------------------------
(* The theorems *)

Inv == TypeOK /\ LinksInv /\ HolderInv /\ SpentInv /\ LinkOnce /\ NoRaceInv

LEMMA Invariance == Spec => []Inv
<1>1. Init => Inv
  BY InitInv DEF Inv, LinkOnce, Init
<1>2. Inv /\ [Next]_vars => Inv'
  BY TypeStep, LinksStep, HolderStep, SpentStep, ReuseStep, TokenStep DEF Inv
<1> QED
  BY <1>1, <1>2, PTL DEF Spec

\* The row, the calls and the histories keep their types, whatever the calls find when
\* they come back from a mail, a hash or a query.
THEOREM TypeCorrect == Spec => []TypeOK
<1>1. Inv => TypeOK
  BY DEF Inv
<1> QED
  BY <1>1, Invariance, PTL

\* A link of a mail works once, but for two calls that found it at a time and a save that
\* brought it back: confirmEmail, resetPassword, confirmDelete.
THEOREM LinkUsedOnce == Spec => []LinkOnce
<1>1. Inv => LinkOnce
  BY DEF Inv
<1> QED
  BY <1>1, Invariance, PTL

\* A token is refused as soon as another is signed, unless logins or activations have
\* overlapped or a save has set back or brought back what says which token is valid:
\* login, finishPasskeyLogin, confirmEmail, JwtStrategy.validate.
THEOREM OneToken == Spec => []OneValidToken
<1>1. Inv => OneValidToken
  <2> SUFFICES ASSUME Inv, ~tokenRace, NEW v \in superseded PROVE ~Valid(v)
      BY DEF OneValidToken
  <2>1. v < row.sessionVersion /\ v \in Nat /\ row.sessionVersion \in Nat
    <3>1. v < row.sessionVersion
      BY DEF Inv, NoRaceInv, VersionInv
    <3>2. row \in Row /\ v \in 0..MaxVersion
      BY DEF Inv, TypeOK
    <3>3. row.sessionVersion \in 0..MaxVersion
      BY <3>2, RowFields
    <3> QED
      BY <3>1, <3>2, <3>3
  <2> QED
    BY <2>1 DEF Valid
<1> QED
  BY <1>1, Invariance, PTL

=============================================================================
