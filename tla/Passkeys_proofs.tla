--------------------------- MODULE Passkeys_proofs ---------------------------
(***************************************************************************)
(* Proofs about Passkeys, for any number of credentials, calls, ceremonies *)
(* and inserted rows, any limit and any counters.                          *)
(***************************************************************************)
EXTENDS Passkeys, FiniteSetTheorems, TLAPS

USE PasskeysAssumption, NoRowAssumption

-----------------------------------------------------------------------------
(* The invariants *)

\* A call that has a row in hand, and one that has the answer of a registration.
HoldsRow(c) ==
    \/ Waiting(c, "remove")
    \/ call[c].at \in {"get", "verify", "again", "write"} /\ Kind(call[c].n) = "login"
Registers(c) == call[c].at \in {"check", "write"} /\ Kind(call[c].n) = "register"

\* The rows and the calls have their types; so has all the rest.
TypeInv ==
    /\ ceremony \in Seq(Ceremony) /\ Len(ceremony) <= MaxCeremonies
    /\ challenge \in 0..Len(ceremony)
    /\ rows \in [Keys -> Row \cup {NoRow}]
    /\ inserted \in 0..MaxInserts
    /\ \A k \in Present : rows[k].id <= inserted
    /\ call \in [Calls -> {Idle} \cup Busy]
    /\ twice \subseteq verified /\ verified \subseteq 1..Len(ceremony)
    /\ shared \subseteq 1..Len(ceremony)
    /\ removed \subseteq Keys /\ contested \subseteq Keys

\* A call has an answer to a ceremony in hand, whose key is its own; one that had to find
\* a row has one; one that goes on has been verified.
CallOK(c) ==
    /\ call[c].at \notin {"idle", "remove"} =>
          call[c].n \in 1..Len(ceremony) /\ ceremony[call[c].n].key = call[c].key
    /\ Waiting(c, "check") => Registers(c)
    /\ Waiting(c, "verify") => call[c].expected \in 1..Len(ceremony)
    /\ call[c].at \in {"check", "write"} => call[c].n \in verified
    /\ HoldsRow(c) => /\ call[c].was \in Row /\ call[c].was.id <= inserted
                      /\ call[c].key \in Present \cup removed
    /\ Waiting(c, "write") /\ HoldsRow(c) =>
          CounterAccepted(ceremony[call[c].n].counter, call[c].was.counter)
CallsInv == \A c \in Calls : CallOK(c)

\* A challenge has one reader until an answer is verified against it, then none.
ReadersInv ==
    \A n \in (1..Len(ceremony)) \ shared :
        /\ \A c, d \in Readers(n) : c = d
        /\ n \in verified => challenge # n /\ Readers(n) = {} /\ n \notin twice

\* Nobody else has written the row of an uncontested credential since a call has read it.
HeldInv ==
    \A c \in Calls : HoldsRow(c) /\ call[c].key \notin contested =>
        LET row == rows[call[c].key] IN
        row # NoRow /\ row.id = call[c].was.id /\ row.counter = call[c].was.counter

\* A credential has one registration.
RegisterInv ==
    \A m, n \in 1..Len(ceremony) :
        Kind(m) = "register" /\ Kind(n) = "register" /\ ceremony[m].key = ceremony[n].key
            => m = n \/ ceremony[m].key = NoKey

\* Verified once, it is inserted once.
IsRegistered(k) == \E n \in verified : Kind(n) = "register" /\ ceremony[n].key = k
Twice(k) == \E n \in twice : ceremony[n].key = k
InsertInv ==
    \A k \in Keys : ~Twice(k) =>
        /\ \A c, d \in Calls :
              Registers(c) /\ Registers(d) /\ call[c].key = k /\ call[d].key = k => c = d
        /\ k \in Present \cup removed => 
              /\ IsRegistered(k)
              /\ \A c \in Calls : Registers(c) => call[c].key # k

\* What was deleted is not there.
RemovedInv == \A k \in Present \cap removed : Excused(k)

\* The limit holds, and the rows can be told apart by age.
LimitInv ==
    contested = {} => /\ Cardinality(Present) <= Limit
                      /\ \A j, k \in Present : rows[j].id = rows[k].id => j = k

-----------------------------------------------------------------------------
(* What the steps do to calls and ceremonies *)

LEMMA Shapes ==
    ASSUME TypeInv, NEW c \in Calls
    PROVE  /\ call[c].at \in {"idle", "get", "verify", "again", "check", "write", "remove"}
           /\ call[c].at = "idle" => call[c] = Idle
           /\ call[c].at # "idle" => call[c] \in Busy
<1>1. call[c] = Idle \/ call[c] \in Busy
  BY DEF TypeInv
<1> QED
  BY <1>1 DEF Idle, Busy

\* Ceremonies are begun one after the other, and answered once.
LEMMA CeremoniesGrow ==
    ASSUME TypeInv, [Next]_vars
    PROVE  /\ ceremony' \in Seq(Ceremony)
           /\ Len(ceremony) <= Len(ceremony') /\ Len(ceremony') <= MaxCeremonies
           /\ \A n \in 1..Len(ceremony) :
                 /\ Kind(n)' = Kind(n)
                 /\ ceremony[n].key # NoKey => ceremony'[n] = ceremony[n]
<1>1. CASE UNCHANGED ceremony
  BY <1>1 DEF TypeInv, Kind
<1>2. ASSUME NEW kind \in {"register", "login"}, NEW allow \in SUBSET Keys, Store(kind, allow)
      PROVE  /\ ceremony' \in Seq(Ceremony)
             /\ Len(ceremony') = Len(ceremony) + 1
             /\ \A n \in 1..Len(ceremony) : ceremony'[n] = ceremony[n]
  <2>1. [kind |-> kind, allow |-> allow, key |-> NoKey, counter |-> 0] \in Ceremony
    BY DEF Ceremony
  <2> QED
    BY <1>2, <2>1 DEF Store, TypeInv
<1>3. ASSUME NEW n \in DOMAIN ceremony, NEW k \in Keys, NEW i \in 0..MaxCounter, Answer(n, k, i)
      PROVE  /\ ceremony' \in Seq(Ceremony)
             /\ Len(ceremony') = Len(ceremony)
             /\ \A m \in 1..Len(ceremony) :
                   /\ Kind(m)' = Kind(m)
                   /\ ceremony[m].key # NoKey => ceremony'[m] = ceremony[m]
  <2> DEFINE r == [ceremony[n] EXCEPT !.key = k, !.counter = i, !.allow = {}]
  <2>1. n \in 1..Len(ceremony) /\ ceremony[n] \in Ceremony
    BY DEF TypeInv
  <2>2. r \in Ceremony /\ r.kind = ceremony[n].kind
    BY <2>1 DEF Ceremony
  <2>3. ceremony' = [ceremony EXCEPT ![n] = r]
    BY <1>3 DEF Answer
  <2> HIDE DEF r
  <2>4. ceremony[n].key = NoKey
    BY <1>3 DEF Answer
  <2> QED
    BY <2>1, <2>2, <2>3, <2>4 DEF TypeInv, Kind
<1>4. CASE Begin
  <2>1. PICK kind \in {"register", "login"}, allow \in SUBSET Keys : Store(kind, allow)
    BY <1>4 DEF Begin, StartPasskeyRegistration, StartPasskeyLogin, Present
  <2>2. Len(ceremony') = Len(ceremony) + 1 /\ ceremony' \in Seq(Ceremony)
    BY <1>2, <2>1
  <2>3. \A n \in 1..Len(ceremony) : ceremony'[n] = ceremony[n]
    BY <1>2, <2>1
  <2>4. Len(ceremony) \in Nat /\ Len(ceremony) < MaxCeremonies
    BY <2>1 DEF Store, TypeInv
  <2> QED
    BY <2>2, <2>3, <2>4 DEF Kind
<1>5. \/ UNCHANGED ceremony \/ Begin
      \/ \E n \in DOMAIN ceremony, k \in Keys, i \in 0..MaxCounter : Answer(n, k, i)
  BY DEF Next, vars, redis, Expire, FallUnused, Finish, Delete, Submit, GetChallenge,
         Verify, DeleteChallenge, DeleteAgain, CheckExisting, Insert, SaveCredential,
         FindToDelete, DeleteCredential, Abort
<1>6. Len(ceremony) \in Nat /\ Len(ceremony) <= MaxCeremonies
  BY DEF TypeInv
<1>7. ASSUME NEW n \in DOMAIN ceremony, NEW k \in Keys, NEW i \in 0..MaxCounter, Answer(n, k, i)
      PROVE  /\ ceremony' \in Seq(Ceremony)
             /\ Len(ceremony) <= Len(ceremony') /\ Len(ceremony') <= MaxCeremonies
             /\ \A m \in 1..Len(ceremony) :
                   /\ Kind(m)' = Kind(m)
                   /\ ceremony[m].key # NoKey => ceremony'[m] = ceremony[m]
  BY <1>3, <1>6, <1>7
<1> QED
  BY <1>1, <1>4, <1>5, <1>7


\* What the environment does.
Outside ==
    /\ Begin \/ Expire \/ (\E n \in DOMAIN ceremony, k \in Keys, i \in 0..MaxCounter : Answer(n, k, i))
       \/ UNCHANGED vars
    /\ UNCHANGED <<call, answers, table>>

LEMMA StepKinds ==
    ASSUME [Next]_vars
    PROVE  \/ Outside
           \/ \E k \in Keys : FallUnused(k)
           \/ \E c \in Calls : Finish(c) \/ Delete(c) \/ Abort(c)
<1>1. Begin => UNCHANGED <<call, answers, table>>
  BY DEF Begin, StartPasskeyRegistration, StartPasskeyLogin, Store
<1>2. Expire => UNCHANGED <<call, answers, table>>
  BY DEF Expire
<1>3. ASSUME NEW n, NEW k, NEW i, Answer(n, k, i) PROVE UNCHANGED <<call, answers, table>>
  BY <1>3 DEF Answer
<1>4. UNCHANGED vars => UNCHANGED <<call, answers, table>>
  BY DEF vars
<1> QED
  BY <1>1, <1>2, <1>3, <1>4 DEF Next, Outside

\* A call changes its own state, and no ceremony.
LEMMA CallStep ==
    ASSUME TypeInv, NEW c \in Calls, Finish(c) \/ Delete(c) \/ Abort(c)
    PROVE  /\ call' = [call EXCEPT ![c] = call'[c]]
           /\ \A d \in Calls \ {c} : call'[d] = call[d]
           /\ call'[c] \in Busy \cup {Idle}
           /\ UNCHANGED ceremony
<1>1. call[c] \in Busy \/ Waiting(c, "idle")
  BY Shapes DEF Waiting
<1>2. Return(c) => call'[c] = Idle
  BY DEF Return, TypeInv
<1>3. ASSUME Goto(c, "again") \/ Goto(c, "check") \/ Goto(c, "write"), ~Waiting(c, "idle")
      PROVE  call'[c] \in Busy
  BY <1>1, <1>3 DEF Goto, TypeInv, Busy
<1>4. challenge \in 0..MaxCeremonies
  BY DEF TypeInv
<1>5. ASSUME GetChallenge(c) PROVE call'[c] \in Busy \cup {Idle}
  <2>1. call[c] \in Busy
    BY <1>1, <1>5 DEF GetChallenge, Waiting
  <2>2. [call[c] EXCEPT !.at = "verify", !.expected = challenge] \in Busy
    BY <1>4, <2>1 DEF Busy
  <2>3. CASE Return(c)
    BY <1>2, <2>3
  <2>4. CASE ~Return(c)
    <3>1. call' = [call EXCEPT ![c].at = "verify", ![c].expected = challenge]
      BY <1>5, <2>4 DEF GetChallenge
    <3> QED
      BY <2>2, <3>1 DEF TypeInv
  <2> QED
    BY <2>3, <2>4
<1>6. ASSUME Verify(c) PROVE call'[c] \in Busy \cup {Idle}
  <2>1. call[c] \in Busy
    BY <1>1, <1>6 DEF Verify, Waiting
  <2>2. 0 \in 0..MaxCeremonies
    OBVIOUS
  <2>3. CASE GoOn(c)
    <3>1. ASSUME NEW at \in {"write", "check"},
                 call' = [call EXCEPT ![c].at = at, ![c].expected = 0]
          PROVE  call'[c] \in Busy
      BY <2>1, <2>2, <3>1 DEF TypeInv, Busy
    <3> QED
      BY <2>3, <3>1 DEF GoOn
  <2>4. CASE ~GoOn(c)
    BY <1>2, <1>3, <1>6, <2>4 DEF Verify, Waiting
  <2> QED
    BY <2>3, <2>4
<1>7. ASSUME NEW n \in DOMAIN ceremony, Submit(c, n) PROVE call'[c] \in Busy
  <2>1. n \in 0..MaxCeremonies /\ ceremony[n] \in Ceremony /\ ceremony[n].key \in Keys
    <3>1. n \in 1..Len(ceremony) /\ Len(ceremony) \in Nat /\ Len(ceremony) <= MaxCeremonies
      BY DEF TypeInv
    <3>2. ceremony[n] \in Ceremony
      BY <3>1 DEF TypeInv
    <3> QED
      BY <1>7, <3>1, <3>2 DEF Submit, Ceremony
  <2>2. rows[ceremony[n].key] \in Row \cup {NoRow}
    BY <2>1 DEF TypeInv
  <2> QED
    BY <1>7, <2>1, <2>2 DEF Submit, TypeInv, Busy
<1>8. ASSUME NEW k \in Keys, FindToDelete(c, k) PROVE call'[c] \in Busy
  BY <1>8 DEF FindToDelete, TypeInv, Busy
<1>9. call'[c] \in Busy \cup {Idle}
  BY <1>2, <1>3, <1>5, <1>6, <1>7, <1>8
     DEF Finish, Delete, Abort, DeleteAgain, CheckExisting, Insert, SaveCredential,
         DeleteCredential, Waiting
<1>10. call' = [call EXCEPT ![c] = call'[c]]
  BY DEF Finish, Delete, Abort, Submit, GetChallenge, Verify, DeleteAgain, CheckExisting,
         Insert, SaveCredential, FindToDelete, DeleteCredential, Return, Goto, GoOn, TypeInv
<1>11. UNCHANGED ceremony
  BY DEF Finish, Delete, Abort, Submit, GetChallenge, Verify, DeleteAgain, CheckExisting,
         Insert, SaveCredential, FindToDelete, DeleteCredential, DeleteChallenge, redis
<1> QED
  BY <1>9, <1>10, <1>11 DEF TypeInv


-----------------------------------------------------------------------------
(* Types *)

LEMMA InitInv ==
    Init => /\ TypeInv /\ CallsInv /\ ReadersInv /\ HeldInv /\ RegisterInv /\ InsertInv
            /\ RemovedInv /\ LimitInv
<1> SUFFICES ASSUME Init
             PROVE  /\ TypeInv /\ CallsInv /\ ReadersInv /\ HeldInv /\ RegisterInv /\ InsertInv
                    /\ RemovedInv /\ LimitInv
    OBVIOUS
<1>1. Len(ceremony) = 0 /\ ceremony \in Seq(Ceremony) /\ 1..0 = {}
  BY DEF Init
<1>2. Present = {}
  BY DEF Init, Present
<1>3. \A c \in Calls : call[c] = Idle /\ call[c].at = "idle" /\ ~Registers(c) /\ ~HoldsRow(c)
  BY DEF Init, Idle, Registers, HoldsRow, Waiting
<1>4. TypeInv
  BY <1>1, <1>2 DEF Init, TypeInv
<1>5. CallsInv
  BY <1>3 DEF CallsInv, CallOK, Waiting
<1>6. HeldInv /\ ReadersInv /\ RegisterInv
  BY <1>1, <1>3 DEF HeldInv, ReadersInv, RegisterInv
<1>7. InsertInv /\ RemovedInv
  BY <1>2, <1>3 DEF InsertInv, RemovedInv, Init
<1>8. LimitInv
  BY <1>2, FS_EmptySet DEF LimitInv
<1> QED
  BY <1>4, <1>5, <1>6, <1>7, <1>8

\* The calls that do not write rows.
RowsStay == UNCHANGED table

LEMMA Writers ==
    ASSUME NEW c \in Calls, Finish(c) \/ Delete(c) \/ Abort(c)
    PROVE  RowsStay \/ Insert(c) \/ SaveCredential(c) \/ DeleteCredential(c)
  BY DEF RowsStay, Finish, Delete, Abort, Submit, GetChallenge, Verify, DeleteAgain,
         CheckExisting, FindToDelete

LEMMA Checkers ==
    ASSUME NEW c \in Calls, Finish(c) \/ Delete(c) \/ Abort(c)
    PROVE  UNCHANGED <<redis, answers>> \/ GetChallenge(c) \/ Verify(c) \/ DeleteAgain(c)
  BY DEF Finish, Delete, Abort, Submit, CheckExisting, Insert, SaveCredential,
         DeleteCredential, FindToDelete

\* Rows are written with their types, and no row is without an id that was given.
RowsOK ==
    /\ rows \in [Keys -> Row \cup {NoRow}]
    /\ inserted \in 0..MaxInserts
    /\ \A k \in Present : rows[k].id <= inserted
    /\ removed \subseteq Keys /\ contested \subseteq Keys

LEMMA RowsStep == TypeInv /\ CallsInv /\ [Next]_vars => RowsOK'
<1> SUFFICES ASSUME TypeInv, CallsInv, [Next]_vars PROVE RowsOK'
    OBVIOUS
<1>1. RowsOK
  BY DEF TypeInv, RowsOK
<1>2. CASE UNCHANGED table
  BY <1>1, <1>2 DEF RowsOK, table, Present
<1>3. ASSUME NEW k \in Keys, FallUnused(k) PROVE RowsOK'
  <2>1. rows[k] \in Row
    BY <1>1, <1>3 DEF FallUnused, Present, RowsOK
  <2>2. [rows[k] EXCEPT !.unused = TRUE] \in Row /\ [rows[k] EXCEPT !.unused = TRUE].id = rows[k].id
    BY <2>1 DEF Row
  <2>3. rows' = [rows EXCEPT ![k] = [rows[k] EXCEPT !.unused = TRUE]]
    BY <1>3 DEF FallUnused
  <2> QED
    BY <1>1, <1>3, <2>1, <2>2, <2>3 DEF RowsOK, Present, FallUnused
<1>4. ASSUME NEW c \in Calls, Insert(c) PROVE RowsOK'
  <2>1. NewRow \in Row /\ NewRow.id = inserted + 1
    BY <1>1, <1>4 DEF Insert, NewRow, Row, RowsOK
  <2>2. rows' \in [Keys -> Row \cup {NoRow}]
    BY <1>1, <1>4, <2>1 DEF Insert, RowsOK
  <2>3. inserted' = inserted + 1 /\ inserted' \in 0..MaxInserts
    BY <1>1, <1>4 DEF Insert, RowsOK
  <2>4. \A k \in Keys : rows'[k] # NoRow => rows'[k].id <= inserted'
    BY <1>1, <1>4, <2>1, <2>3 DEF Insert, RowsOK, Present, Row
  <2>5. call[c].key \in Keys
    BY <1>4, Shapes DEF Insert, Waiting, Busy
  <2>6. contested' \subseteq Keys /\ removed' \subseteq Keys
    BY <1>1, <1>4, <2>5 DEF Insert, Contest, RowsOK, Present
  <2> QED
    BY <2>2, <2>3, <2>4, <2>6 DEF RowsOK, Present
<1>5. ASSUME NEW c \in Calls, SaveCredential(c) PROVE RowsOK'
  <2> DEFINE k == call[c].key
             row == [call[c].was EXCEPT !.counter = ceremony[call[c].n].counter, !.unused = FALSE]
  <2>1. call[c] \in Busy /\ HoldsRow(c)
    BY <1>5, Shapes DEF SaveCredential, Waiting, HoldsRow
  <2>2. k \in Keys /\ call[c].was \in Row /\ call[c].was.id <= inserted
    BY <2>1 DEF CallsInv, CallOK, Busy
  <2>3. ceremony[call[c].n] \in Ceremony
    <3>1. call[c].n \in 1..Len(ceremony)
      BY <1>5 DEF SaveCredential, Waiting, CallsInv, CallOK
    <3> QED
      BY <3>1 DEF TypeInv
  <2>4. row \in Row /\ row.id = call[c].was.id
    BY <2>2, <2>3 DEF Row, Ceremony
  <2>5. rows' = [rows EXCEPT ![k] = row] /\ inserted' = inserted
    BY <1>5 DEF SaveCredential
  <2> HIDE DEF row, k
  <2>6. rows' \in [Keys -> Row \cup {NoRow}]
    BY <1>1, <2>2, <2>4, <2>5 DEF RowsOK
  <2>7. \A j \in Keys : rows'[j] # NoRow => rows'[j].id <= inserted'
    BY <1>1, <2>2, <2>4, <2>5 DEF RowsOK, Present
  <2>8. contested' \subseteq Keys /\ removed' \subseteq Keys
    BY <1>1, <1>5, <2>2 DEF SaveCredential, Contest, RowsOK, k
  <2> QED
    BY <1>1, <2>5, <2>6, <2>7, <2>8 DEF RowsOK, Present
<1>6. ASSUME NEW c \in Calls, DeleteCredential(c) PROVE RowsOK'
  <2>1. call[c].key \in Keys
    BY <1>6, Shapes DEF DeleteCredential, Waiting, Busy
  <2> QED
    BY <1>1, <1>6, <2>1 DEF DeleteCredential, Contest, RowsOK, Present
<1> QED
  BY <1>2, <1>3, <1>4, <1>5, <1>6, StepKinds, Writers DEF Outside, RowsStay

\* The challenges that serve as history have been made.
LEMMA AnswersStep ==
    ASSUME TypeInv, CallsInv, [Next]_vars
    PROVE  /\ challenge' \in 0..Len(ceremony')
           /\ (twice \subseteq verified /\ verified \subseteq 1..Len(ceremony))'
           /\ shared' \subseteq 1..Len(ceremony')
           /\ verified \subseteq verified' /\ twice \subseteq twice' /\ shared \subseteq shared'
<1> DEFINE Goal == /\ challenge' \in 0..Len(ceremony')
                   /\ (twice \subseteq verified /\ verified \subseteq 1..Len(ceremony))'
                   /\ shared' \subseteq 1..Len(ceremony')
                   /\ verified \subseteq verified' /\ twice \subseteq twice' /\ shared \subseteq shared'
<1>1. /\ Len(ceremony) \in Nat /\ Len(ceremony') \in Nat /\ Len(ceremony) <= Len(ceremony')
      /\ 1..Len(ceremony) \subseteq 1..Len(ceremony')
      /\ 0..Len(ceremony) \subseteq 0..Len(ceremony')
  BY CeremoniesGrow DEF TypeInv
<1>2. ASSUME UNCHANGED answers, challenge' \in {0, challenge, Len(ceremony')} PROVE Goal
  BY <1>1, <1>2 DEF answers, TypeInv
<1>3. ASSUME DeleteChallenge
      PROVE  /\ challenge' \in 0..Len(ceremony')
             /\ shared' \subseteq 1..Len(ceremony')
             /\ shared \subseteq shared'
  BY <1>1, <1>3 DEF DeleteChallenge, TypeInv
<1>4. CASE Outside
  <2>1. Begin => challenge' \in {0, challenge, Len(ceremony')}
    BY DEF Begin, StartPasskeyRegistration, StartPasskeyLogin, Store
  <2>2. Expire \/ UNCHANGED vars => challenge' \in {0, challenge, Len(ceremony')}
    BY DEF Expire, vars, redis
  <2>3. \A n, k, i : Answer(n, k, i) => challenge' = challenge
    BY DEF Answer
  <2> QED
    BY <1>2, <1>4, <2>1, <2>2, <2>3 DEF Outside
<1>5. ASSUME NEW k \in Keys, FallUnused(k) PROVE Goal
  BY <1>2, <1>5 DEF FallUnused, redis
<1>6. ASSUME NEW c \in Calls, GetChallenge(c) PROVE Goal
  BY <1>1, <1>6 DEF GetChallenge, redis, TypeInv
<1>7. ASSUME NEW c \in Calls, Verify(c) PROVE Goal
  <2>1. call[c].n \in 1..Len(ceremony)
    BY <1>7 DEF Verify, Waiting, CallsInv, CallOK
  <2>2. (twice \subseteq verified /\ verified \subseteq 1..Len(ceremony))'
    <3>1. verified' \in {verified, verified \cup {call[c].n}}
      BY <1>7 DEF Verify, Verified
    <3>2. \/ twice' = twice
          \/ twice' = twice \cup {call[c].n} /\ verified' = verified \cup {call[c].n}
      BY <1>7 DEF Verify, Verified
    <3>3. verified \cup {call[c].n} \subseteq 1..Len(ceremony')
      BY <1>1, <2>1 DEF TypeInv
    <3>4. twice \subseteq verified
      BY DEF TypeInv
    <3> QED
      BY <3>1, <3>2, <3>3, <3>4
  <2>3. verified \subseteq verified' /\ twice \subseteq twice'
    BY <1>7 DEF Verify, Verified
  <2> QED
    BY <1>3, <1>7, <2>2, <2>3 DEF Verify
<1>8. ASSUME NEW c \in Calls, DeleteAgain(c) PROVE Goal
  BY <1>1, <1>3, <1>8 DEF DeleteAgain, TypeInv
<1>9. ASSUME UNCHANGED <<redis, answers>> PROVE Goal
  BY <1>2, <1>9 DEF redis
<1> QED
  BY <1>4, <1>5, <1>6, <1>7, <1>8, <1>9, StepKinds, Checkers

LEMMA TypeStep == TypeInv /\ CallsInv /\ [Next]_vars => TypeInv'
<1> SUFFICES ASSUME TypeInv, CallsInv, [Next]_vars PROVE TypeInv'
    OBVIOUS
<1>1. call' \in [Calls -> {Idle} \cup Busy]
  <2>1. UNCHANGED call => call' \in [Calls -> {Idle} \cup Busy]
    BY DEF TypeInv
  <2>2. ASSUME NEW c \in Calls, Finish(c) \/ Delete(c) \/ Abort(c)
        PROVE  call' \in [Calls -> {Idle} \cup Busy]
    BY <2>2, CallStep DEF TypeInv
  <2> QED
    BY <2>1, <2>2, StepKinds DEF Outside, FallUnused
<1>2. RowsOK'
  BY RowsStep
<1> QED
  BY <1>1, <1>2, AnswersStep, CeremoniesGrow DEF TypeInv, RowsOK, Present


-----------------------------------------------------------------------------
(* What the writers do to the rows *)

LEMMA FallUnusedRows ==
    ASSUME TypeInv, NEW k \in Keys, FallUnused(k)
    PROVE  /\ Present' = Present
           /\ \A j \in Present : rows'[j].id = rows[j].id /\ rows'[j].counter = rows[j].counter
<1>1. rows[k] \in Row /\ rows \in [Keys -> Row \cup {NoRow}]
  BY DEF FallUnused, Present, TypeInv
<1>2. [rows[k] EXCEPT !.unused = TRUE] \in Row
  BY <1>1 DEF Row
<1>3. /\ [rows[k] EXCEPT !.unused = TRUE].id = rows[k].id
      /\ [rows[k] EXCEPT !.unused = TRUE].counter = rows[k].counter
  BY <1>1 DEF Row
<1>4. rows' = [rows EXCEPT ![k] = [rows[k] EXCEPT !.unused = TRUE]]
  BY DEF FallUnused
<1> QED
  BY <1>1, <1>2, <1>3, <1>4 DEF Present, FallUnused

LEMMA InsertRows ==
    ASSUME TypeInv, NEW c \in Calls, Insert(c)
    PROVE  LET k == call[c].key IN
           /\ k \in Keys \ Present
           /\ Newest(k) \subseteq Present \cup {k} /\ k \in Newest(k)
           /\ Present' = Newest(k)
           /\ rows'[k] = NewRow
           /\ \A j \in Newest(k) \ {k} : rows'[j] = rows[j]
<1> DEFINE k == call[c].key
<1>1. k \in Keys \ Present
  BY Shapes DEF Insert, Waiting, Busy
<1>2. Newest(k) \subseteq Present \cup {k}
  BY DEF Newest, Kept
<1>3. k \in Newest(k)
  <2>1. Newer(k, k, Kept(k)) = {}
    BY DEF Newer
  <2>2. Cardinality(Newer(k, k, Kept(k))) < Limit
    BY <2>1, FS_EmptySet
  <2> QED
    BY <2>2 DEF Newest, Kept
<1>4. rows' = [j \in Keys |-> IF j = k THEN NewRow ELSE IF j \in Newest(k) THEN rows[j] ELSE NoRow]
  BY DEF Insert
<1>5. NewRow \in Row
  BY DEF Insert, NewRow, Row, TypeInv
<1>6. \A j \in Newest(k) \ {k} : j \in Keys /\ rows[j] # NoRow
  BY <1>2 DEF Present
<1> HIDE DEF k
<1>7. Present' = Newest(k)
  BY <1>1, <1>3, <1>4, <1>5, <1>6 DEF Present
<1> QED
  BY <1>1, <1>2, <1>3, <1>4, <1>6, <1>7 DEF k

LEMMA SaveRows ==
    ASSUME TypeInv, CallsInv, NEW c \in Calls, SaveCredential(c)
    PROVE  LET k == call[c].key IN
           /\ k \in Keys /\ call[c] \in Busy /\ HoldsRow(c)
           /\ Present' = Present \cup {k}
           /\ rows'[k].id = call[c].was.id
           /\ rows'[k].counter = ceremony[call[c].n].counter
           /\ \A j \in Keys \ {k} : rows'[j] = rows[j]
<1> DEFINE k == call[c].key
           row == [call[c].was EXCEPT !.counter = ceremony[call[c].n].counter, !.unused = FALSE]
<1>1. call[c] \in Busy /\ HoldsRow(c)
  BY Shapes DEF SaveCredential, Waiting, HoldsRow
<1>2. k \in Keys /\ call[c].was \in Row
  BY <1>1 DEF CallsInv, CallOK, Busy
<1>3. ceremony[call[c].n] \in Ceremony
  <2>1. call[c].n \in 1..Len(ceremony)
    BY DEF SaveCredential, Waiting, CallsInv, CallOK
  <2> QED
    BY <2>1 DEF TypeInv
<1>4. row \in Row /\ row.id = call[c].was.id /\ row.counter = ceremony[call[c].n].counter
  BY <1>2, <1>3 DEF Row, Ceremony
<1>5. rows' = [rows EXCEPT ![k] = row]
  BY DEF SaveCredential
<1> HIDE DEF row, k
<1>6. /\ Present' = Present \cup {k} /\ rows'[k] = row
      /\ \A j \in Keys \ {k} : rows'[j] = rows[j]
  BY <1>2, <1>4, <1>5 DEF Present, TypeInv
<1> QED
  BY <1>1, <1>2, <1>4, <1>6 DEF k

LEMMA DeleteRows ==
    ASSUME TypeInv, NEW c \in Calls, DeleteCredential(c)
    PROVE  LET k == call[c].key IN
           /\ k \in Keys
           /\ \/ UNCHANGED <<rows, removed, contested>>
              \/ /\ Present' = Present \ {k} /\ removed' = removed \cup {k}
                 /\ Contest(c, {k})
                 /\ \A j \in Keys \ {k} : rows'[j] = rows[j]
  BY Shapes DEF DeleteCredential, Waiting, Busy, Present, TypeInv

\* What was there is there or has been deleted; what is contested stays so.
LEMMA RowsGrow ==
    ASSUME TypeInv, CallsInv, [Next]_vars
    PROVE  /\ inserted <= inserted' /\ contested \subseteq contested'
           /\ Present \cup removed \subseteq (Present \cup removed)'
           /\ removed \subseteq removed'
<1>1. inserted \in Nat
  BY DEF TypeInv
<1>2. CASE UNCHANGED table
  BY <1>1, <1>2 DEF table, Present
<1>3. ASSUME NEW k \in Keys, FallUnused(k)
      PROVE  /\ inserted <= inserted' /\ contested \subseteq contested'
             /\ Present \cup removed \subseteq (Present \cup removed)' /\ removed \subseteq removed'
  <2>1. Present' = Present
    BY <1>3, FallUnusedRows
  <2>2. inserted' = inserted /\ contested' = contested /\ removed' = removed
    BY <1>3 DEF FallUnused
  <2> QED
    BY <1>1, <2>1, <2>2
<1>4. ASSUME NEW c \in Calls, Insert(c)
      PROVE  /\ inserted <= inserted' /\ contested \subseteq contested'
             /\ Present \cup removed \subseteq (Present \cup removed)' /\ removed \subseteq removed'
  BY <1>1, <1>4, InsertRows DEF Insert, Contest
<1>5. ASSUME NEW c \in Calls, SaveCredential(c)
      PROVE  /\ inserted <= inserted' /\ contested \subseteq contested'
             /\ Present \cup removed \subseteq (Present \cup removed)' /\ removed \subseteq removed'
  <2>1. Present' = Present \cup {call[c].key}
    BY <1>5, SaveRows
  <2>2. inserted' = inserted /\ contested \subseteq contested' /\ removed' = removed
    BY <1>5 DEF SaveCredential, Contest
  <2> QED
    BY <1>1, <2>1, <2>2
<1>6. ASSUME NEW c \in Calls, DeleteCredential(c)
      PROVE  /\ inserted <= inserted' /\ contested \subseteq contested'
             /\ Present \cup removed \subseteq (Present \cup removed)' /\ removed \subseteq removed'
  <2>1. inserted' = inserted
    BY <1>6 DEF DeleteCredential
  <2>2. CASE UNCHANGED <<rows, removed, contested>>
    BY <1>1, <2>1, <2>2 DEF Present
  <2>3. CASE ~UNCHANGED <<rows, removed, contested>>
    BY <1>1, <1>6, <2>1, <2>3, DeleteRows DEF Contest
  <2> QED
    BY <2>2, <2>3
<1> QED
  BY <1>2, <1>3, <1>4, <1>5, <1>6, StepKinds, Writers DEF Outside, RowsStay


-----------------------------------------------------------------------------
(* The calls *)

\* A ceremony that a call has in hand has been answered.
LEMMA InHand ==
    ASSUME TypeInv, CallsInv, [Next]_vars, NEW c \in Calls, call[c].at \notin {"idle", "remove"}
    PROVE  /\ call[c].n \in 1..Len(ceremony) /\ call[c].n \in 1..Len(ceremony')
           /\ ceremony[call[c].n] \in Ceremony
           /\ ceremony[call[c].n].key = call[c].key /\ call[c].key \in Keys
           /\ ceremony'[call[c].n] = ceremony[call[c].n]
<1>1. call[c] \in Busy
  BY Shapes
<1>2. call[c].n \in 1..Len(ceremony) /\ ceremony[call[c].n].key = call[c].key
  BY DEF CallsInv, CallOK
<1>3. call[c].key \in Keys
  BY <1>1 DEF Busy
<1>4. ceremony'[call[c].n] = ceremony[call[c].n]
  BY <1>2, <1>3, CeremoniesGrow
<1>5. call[c].n \in 1..Len(ceremony') /\ ceremony[call[c].n] \in Ceremony
  BY <1>2, CeremoniesGrow DEF TypeInv
<1> QED
  BY <1>2, <1>3, <1>4, <1>5

LEMMA OthersOK ==
    ASSUME TypeInv, CallsInv, [Next]_vars, NEW c \in Calls, call'[c] = call[c]
    PROVE  /\ CallOK(c)'
           /\ HoldsRow(c)' <=> HoldsRow(c)
           /\ Registers(c)' <=> Registers(c)
<1>1. CallOK(c)
  BY DEF CallsInv
<1>2. CASE call[c].at \in {"idle", "remove"}
  <2>1. (HoldsRow(c)' <=> HoldsRow(c)) /\ (Registers(c)' <=> Registers(c))
    BY <1>2 DEF HoldsRow, Registers, Waiting
  <2>2. HoldsRow(c) => call[c].was.id \in Nat
    BY <1>1 DEF CallOK, Row
  <2>3. inserted \in Nat /\ inserted' \in Nat
    BY TypeStep DEF TypeInv
  <2> QED
    BY <1>1, <1>2, <2>1, <2>2, <2>3, RowsGrow DEF CallOK, Waiting
<1>3. CASE call[c].at \notin {"idle", "remove"}
  <2>1. /\ call[c].n \in 1..Len(ceremony') /\ ceremony'[call[c].n] = ceremony[call[c].n]
        /\ ceremony[call[c].n].key = call[c].key
    BY <1>3, InHand
  <2>2. (HoldsRow(c)' <=> HoldsRow(c)) /\ (Registers(c)' <=> Registers(c))
    BY <2>1 DEF HoldsRow, Registers, Waiting, Kind
  <2>3. HoldsRow(c) => call[c].was.id \in Nat
    BY <1>1 DEF CallOK, Row
  <2>4. inserted \in Nat /\ inserted' \in Nat
    BY TypeStep DEF TypeInv
  <2>5. Waiting(c, "verify")' => call'[c].expected \in 1..Len(ceremony')
    BY <1>1, CeremoniesGrow DEF CallOK, Waiting, TypeInv
  <2>6. call'[c].at \in {"check", "write"} => call'[c].n \in verified'
    BY <1>1, AnswersStep DEF CallOK
  <2>7. HoldsRow(c)' => /\ call'[c].was \in Row /\ call'[c].was.id <= inserted'
                        /\ call'[c].key \in (Present \cup removed)'
    BY <1>1, <2>2, <2>3, <2>4, RowsGrow DEF CallOK
  <2>8. (Waiting(c, "check") => Registers(c))'
    BY <1>1, <2>2 DEF CallOK, Waiting
  <2>9. (Waiting(c, "write") /\ HoldsRow(c))' =>
           CounterAccepted(ceremony'[call'[c].n].counter, call'[c].was.counter)
    BY <1>1, <2>1, <2>2 DEF CallOK, Waiting
  <2>10. call'[c].n \in 1..Len(ceremony') /\ ceremony'[call'[c].n].key = call'[c].key
    BY <2>1
  <2> QED
    BY <2>2, <2>5, <2>6, <2>7, <2>8, <2>9, <2>10 DEF CallOK
<1> QED
  BY <1>2, <1>3

\* The steps of c that leave it in the middle.
LEMMA Continues ==
    ASSUME TypeInv, NEW c \in Calls, Finish(c) \/ Delete(c) \/ Abort(c), call'[c].at # "idle"
    PROVE  \/ \E n \in DOMAIN ceremony : Submit(c, n)
           \/ GetChallenge(c) /\ call' = [call EXCEPT ![c].at = "verify", ![c].expected = challenge]
              /\ challenge # 0
           \/ Verify(c) /\ Accepts(c) /\ GoOn(c)
           \/ Verify(c) /\ Goto(c, "again")
           \/ CheckExisting(c) /\ Goto(c, "write")
           \/ \E k \in Keys : FindToDelete(c, k)
<1>1. ~Return(c)
  BY DEF Return, TypeInv, Idle
<1> QED
  BY <1>1 DEF Finish, Delete, Abort, GetChallenge, Verify, DeleteAgain, CheckExisting, Insert,
              SaveCredential, DeleteCredential

LEMMA OwnOK ==
    ASSUME TypeInv, CallsInv, [Next]_vars, NEW c \in Calls, Finish(c) \/ Delete(c) \/ Abort(c)
    PROVE  CallOK(c)'
<1>1. CASE call'[c].at = "idle"
  BY <1>1 DEF CallOK, HoldsRow, Waiting
<1>2. ASSUME call'[c].at \notin {"idle", "remove"}, call[c].at \notin {"idle", "remove"},
             call'[c].n = call[c].n, call'[c].key = call[c].key, call'[c].was = call[c].was
      PROVE  /\ call'[c].n \in 1..Len(ceremony) /\ ceremony'[call'[c].n].key = call'[c].key
             /\ HoldsRow(c)' /\ HoldsRow(c) =>
                   /\ call'[c].was \in Row /\ call'[c].was.id <= inserted'
                   /\ call'[c].key \in (Present \cup removed)'
  <2>1. call'[c].n \in 1..Len(ceremony) /\ ceremony'[call'[c].n].key = call'[c].key
    BY <1>2, InHand
  <2>2. HoldsRow(c) => call[c].was \in Row /\ call[c].was.id \in Nat /\ call[c].was.id <= inserted
                       /\ call[c].key \in Present \cup removed
    BY DEF CallsInv, CallOK, Row
  <2>3. inserted \in Nat /\ inserted' \in Nat
    BY TypeStep DEF TypeInv
  <2> QED
    BY <1>2, <2>1, <2>2, <2>3, RowsGrow
<1>3. UNCHANGED ceremony /\ Len(ceremony) \in Nat
  BY CallStep DEF TypeInv
<1>4. ASSUME NEW n \in DOMAIN ceremony, Submit(c, n) PROVE CallOK(c)'
  <2>1. call'[c] = [at |-> "get", n |-> n, expected |-> 0, key |-> ceremony[n].key,
                    was |-> IF Kind(n) = "login" THEN rows[ceremony[n].key] ELSE NoRow]
    BY <1>4 DEF Submit, TypeInv
  <2>2. n \in 1..Len(ceremony) /\ rows' = rows /\ inserted' = inserted
    BY <1>4 DEF Submit, TypeInv, table
  <2>3. HoldsRow(c)' => Kind(n) = "login"
    BY <1>3, <2>1 DEF HoldsRow, Waiting, Kind
  <2>4. Kind(n) = "login" => ceremony[n].key \in Present /\ rows[ceremony[n].key] \in Row
                             /\ rows[ceremony[n].key].id <= inserted
    BY <1>4 DEF Submit, Present, TypeInv
  <2> QED
    BY <1>3, <2>1, <2>2, <2>3, <2>4 DEF CallOK, Waiting, Present
<1>5. ASSUME GetChallenge(c), challenge # 0,
             call' = [call EXCEPT ![c].at = "verify", ![c].expected = challenge]
      PROVE  CallOK(c)'
  <2>1. call[c] \in Busy /\ call[c].at = "get"
    BY <1>5, Shapes DEF GetChallenge, Waiting
  <2>2. /\ call'[c].at = "verify" /\ call'[c].expected = challenge /\ call'[c].n = call[c].n
        /\ call'[c].key = call[c].key /\ call'[c].was = call[c].was
    BY <1>5, <2>1 DEF TypeInv, Busy
  <2>3. HoldsRow(c)' <=> HoldsRow(c)
    BY <1>3, <2>1, <2>2 DEF HoldsRow, Waiting, Kind
  <2>4. challenge \in 1..Len(ceremony)
    BY <1>3, <1>5 DEF TypeInv
  <2> QED
    BY <1>2, <1>3, <2>1, <2>2, <2>3, <2>4 DEF CallOK, Waiting
<1>6. ASSUME Verify(c), Goto(c, "again") PROVE CallOK(c)'
  <2>1. call[c] \in Busy /\ call[c].at = "verify"
    BY <1>6, Shapes DEF Verify, Waiting
  <2>2. /\ call'[c].at = "again" /\ call'[c].n = call[c].n
        /\ call'[c].key = call[c].key /\ call'[c].was = call[c].was
    BY <1>6, <2>1 DEF Goto, TypeInv, Busy
  <2>3. HoldsRow(c)' <=> HoldsRow(c)
    BY <1>3, <2>1, <2>2 DEF HoldsRow, Waiting, Kind
  <2> QED
    BY <1>2, <1>3, <2>1, <2>2, <2>3 DEF CallOK, Waiting
<1>7. ASSUME Verify(c), Accepts(c), GoOn(c) PROVE CallOK(c)'
  <2> DEFINE login == Kind(call[c].n) = "login"
  <2>1. call[c] \in Busy /\ call[c].at = "verify"
    BY <1>7, Shapes DEF Verify, Waiting
  <2>2. /\ call'[c].at = IF login THEN "write" ELSE "check"
        /\ call'[c].n = call[c].n /\ call'[c].key = call[c].key /\ call'[c].was = call[c].was
    BY <1>7, <2>1 DEF GoOn, TypeInv, Busy
  <2>3. HoldsRow(c)' <=> HoldsRow(c)
    BY <1>3, <2>1, <2>2 DEF HoldsRow, Waiting, Kind
  <2>4. call[c].n \in verified'
    BY <1>7 DEF Verify, Verified
  <2>5. ceremony[call[c].n] \in Ceremony
    BY <2>1, InHand
  <2>6. (Waiting(c, "check") => Registers(c))'
    BY <1>3, <2>2, <2>5 DEF Waiting, Registers, Kind, Ceremony
  <2>7. HoldsRow(c) => login
    BY <2>1 DEF HoldsRow, Waiting
  <2>8. login => CounterAccepted(ceremony[call[c].n].counter, call[c].was.counter)
    BY <1>7 DEF Accepts
  <2>9. (Waiting(c, "write") /\ HoldsRow(c))' =>
            CounterAccepted(ceremony'[call'[c].n].counter, call'[c].was.counter)
    BY <1>3, <2>2, <2>3, <2>7, <2>8
  <2> QED
    BY <1>2, <1>3, <2>1, <2>2, <2>3, <2>4, <2>6, <2>9 DEF CallOK, Waiting
<1>8. ASSUME CheckExisting(c), Goto(c, "write") PROVE CallOK(c)'
  <2>1. call[c] \in Busy /\ call[c].at = "check"
    BY <1>8, Shapes DEF CheckExisting, Waiting
  <2>2. /\ call'[c].at = "write" /\ call'[c].n = call[c].n
        /\ call'[c].key = call[c].key /\ call'[c].was = call[c].was
    BY <1>8, <2>1 DEF Goto, TypeInv, Busy
  <2>3. Kind(call[c].n) = "register"
    BY <2>1 DEF CallsInv, CallOK, Waiting, Registers
  <2>4. ~HoldsRow(c)'
    BY <1>3, <2>2, <2>3 DEF HoldsRow, Waiting, Kind
  <2>5. call[c].n \in verified'
    BY <2>1, AnswersStep DEF CallsInv, CallOK
  <2> QED
    BY <1>2, <1>3, <2>1, <2>2, <2>4, <2>5 DEF CallOK, Waiting
<1>9. ASSUME NEW k \in Keys, FindToDelete(c, k) PROVE CallOK(c)'
  <2>1. call'[c] = [at |-> "remove", n |-> 0, expected |-> 0, key |-> k, was |-> rows[k]]
    BY <1>9 DEF FindToDelete, TypeInv
  <2>2. k \in Present /\ rows[k] \in Row /\ rows[k].id <= inserted /\ Present' = Present
    BY <1>9 DEF FindToDelete, Present, TypeInv, table
  <2>3. inserted' = inserted
    BY <1>9 DEF FindToDelete, table
  <2> QED
    BY <2>1, <2>2, <2>3 DEF CallOK, Waiting
<1> QED
  BY <1>1, <1>4, <1>5, <1>6, <1>7, <1>8, <1>9, Continues

LEMMA CallsStep == TypeInv /\ CallsInv /\ [Next]_vars => CallsInv'
<1> SUFFICES ASSUME TypeInv, CallsInv, [Next]_vars, NEW d \in Calls PROVE CallOK(d)'
    BY DEF CallsInv
<1>1. CASE call'[d] = call[d]
  BY <1>1, OthersOK
<1>2. CASE call'[d] # call[d]
  <2>1. PICK c \in Calls : Finish(c) \/ Delete(c) \/ Abort(c)
    BY <1>2, StepKinds DEF Outside, FallUnused
  <2>2. c = d
    BY <1>2, <2>1, CallStep
  <2> QED
    BY <2>1, <2>2, OwnOK
<1> QED
  BY <1>1, <1>2


-----------------------------------------------------------------------------
(* The challenges *)

\* Only a call that gets a challenge becomes its reader.
LEMMA ReadersLeave ==
    ASSUME TypeInv, NEW c \in Calls, Finish(c) \/ Delete(c) \/ Abort(c), ~GetChallenge(c), NEW n
    PROVE  Readers(n)' \subseteq Readers(n) \ {c}
<1>1. call'[c].at # "verify"
  <2>1. CASE call'[c].at = "idle"
    BY <2>1
  <2>2. ASSUME Waiting(c, "verify"), GoOn(c) PROVE call'[c].at # "verify"
    <3>1. call[c] \in Busy
      BY <2>2, Shapes DEF Waiting
    <3> QED
      BY <2>2, <3>1 DEF GoOn, TypeInv, Busy
  <2>3. ASSUME NEW at \in {"again", "write"}, ~Waiting(c, "idle"), Goto(c, at)
        PROVE  call'[c].at # "verify"
    <3>1. call[c] \in Busy
      BY <2>3, Shapes DEF Waiting
    <3> QED
      BY <2>3, <3>1 DEF Goto, TypeInv, Busy
  <2>4. ASSUME NEW m \in DOMAIN ceremony, Submit(c, m) PROVE call'[c].at # "verify"
    BY <2>4 DEF Submit, TypeInv
  <2>5. ASSUME NEW k \in Keys, FindToDelete(c, k) PROVE call'[c].at # "verify"
    BY <2>5 DEF FindToDelete, TypeInv
  <2> QED
    BY <2>1, <2>2, <2>3, <2>4, <2>5, Continues DEF Verify, CheckExisting, Waiting
<1> QED
  BY <1>1, CallStep DEF Readers, Waiting

\* A challenge that is deleted is gone, or noted as shared.
LEMMA Deleted ==
    ASSUME DeleteChallenge, NEW n \in Nat \ {0}, n \notin shared'
    PROVE  challenge' # n
  BY DEF DeleteChallenge

Served(n) ==
    /\ \A c, d \in Readers(n) : c = d
    /\ n \in verified => challenge # n /\ Readers(n) = {} /\ n \notin twice

LEMMA ReadersStep ==
    TypeInv /\ CallsInv /\ ReadersInv /\ [Next]_vars => ReadersInv'
<1> SUFFICES ASSUME TypeInv, CallsInv, ReadersInv, [Next]_vars,
                    NEW n \in (1..Len(ceremony')) \ shared'
             PROVE  Served(n)'
    BY DEF ReadersInv, Served
<1>1. Len(ceremony) \in Nat /\ n \in Nat \ {0} /\ shared \subseteq shared'
  BY AnswersStep, CeremoniesGrow DEF TypeInv
<1>2. n \in 1..Len(ceremony) => Served(n)
  BY <1>1 DEF ReadersInv, Served
<1>3. CASE Outside
  <2>1. UNCHANGED <<call, answers>> /\ Readers(n)' = Readers(n)
    BY <1>3 DEF Outside, Readers, Waiting
  <2>2. CASE n \notin 1..Len(ceremony)
    <3>1. Readers(n) = {}
      BY <2>2 DEF Readers, CallsInv, CallOK
    <3>2. n \notin verified'
      BY <2>1, <2>2 DEF TypeInv, answers
    <3> QED
      BY <2>1, <3>1, <3>2 DEF Served
  <2>3. CASE n \in 1..Len(ceremony)
    <3>1. challenge' = n => challenge = n
      <4>1. Begin => challenge' \in {challenge, Len(ceremony) + 1}
        BY <1>1 DEF Begin, StartPasskeyRegistration, StartPasskeyLogin, Store, TypeInv
      <4>2. Expire \/ UNCHANGED vars => challenge' \in {0, challenge}
        BY DEF Expire, vars, redis
      <4>3. \A m, k, i : Answer(m, k, i) => challenge' = challenge
        BY DEF Answer
      <4> QED
        BY <1>1, <1>3, <2>3, <4>1, <4>2, <4>3 DEF Outside
    <3> QED
      BY <1>2, <2>1, <2>3, <3>1 DEF Served, answers
  <2> QED
    BY <2>2, <2>3
<1>4. ASSUME NEW k \in Keys, FallUnused(k) PROVE Served(n)'
  BY <1>2, <1>4 DEF FallUnused, redis, answers, Served, Readers, Waiting
<1>5. ASSUME NEW c \in Calls, Finish(c) \/ Delete(c) \/ Abort(c) PROVE Served(n)'
  <2>1. Served(n)
    BY <1>2, <1>5, CallStep
  <2>2. CASE GetChallenge(c) /\ ~Return(c)
    <3>1. /\ challenge # 0
          /\ call' = [call EXCEPT ![c].at = "verify", ![c].expected = challenge]
          /\ shared' = IF Readers(challenge) = {} THEN shared ELSE shared \cup {challenge}
          /\ UNCHANGED <<redis, verified, twice>>
      BY <2>2 DEF GetChallenge
    <3>2. call[c] \in Busy
      BY <2>2, Shapes DEF GetChallenge, Waiting
    <3>3. call'[c].at = "verify" /\ call'[c].expected = challenge
      BY <3>1, <3>2 DEF TypeInv, Busy
    <3>4. CASE n # challenge
      <4>1. Readers(n)' \subseteq Readers(n)
        BY <1>5, <3>3, <3>4, CallStep DEF Readers, Waiting
      <4> QED
        BY <2>1, <3>1, <4>1 DEF Served, redis
    <3>5. CASE n = challenge
      <4>1. Readers(n) = {} /\ n \notin verified
        BY <2>1, <3>1, <3>5 DEF Served
      <4>2. Readers(n)' \subseteq {c}
        BY <1>5, <4>1, CallStep DEF Readers, Waiting
      <4> QED
        BY <3>1, <4>1, <4>2 DEF Served
    <3> QED
      BY <3>4, <3>5
  <2>3. CASE GetChallenge(c) /\ Return(c)
    <3>1. Readers(n)' \subseteq Readers(n)
      BY <2>3 DEF Return, Readers, Waiting, Idle, TypeInv
    <3>2. UNCHANGED <<redis, verified, twice>>
      BY <2>3 DEF GetChallenge
    <3> QED
      BY <2>1, <3>1, <3>2 DEF Served, redis
  <2>4. CASE Verify(c)
    <3>1. c \in Readers(call[c].expected) /\ challenge' # n
      BY <1>1, <2>4, Deleted DEF Verify, Readers
    <3>2. Readers(n)' \subseteq Readers(n) \ {c}
      BY <1>5, <2>4, ReadersLeave DEF Verify, GetChallenge, Waiting
    <3>3. CASE n \in verified
      <4>1. Readers(n)' = {} /\ n \notin twice /\ call[c].expected # n
        BY <2>1, <3>1, <3>2, <3>3 DEF Served
      <4>2. n \notin twice'
        BY <2>4, <4>1 DEF Verify, Verified, Accepts
      <4> QED
        BY <3>1, <4>1, <4>2 DEF Served
    <3>4. CASE n \notin verified
      <4>1. n \notin twice'
        BY <2>4, <3>4 DEF Verify, Verified, TypeInv
      <4>2. n \in verified' => call[c].expected = n
        BY <2>4, <3>4 DEF Verify, Verified, Accepts
      <4>3. n \in verified' => Readers(n)' = {}
        BY <2>1, <3>1, <3>2, <4>2 DEF Served
      <4> QED
        BY <2>1, <3>1, <3>2, <4>1, <4>3 DEF Served
    <3> QED
      BY <3>3, <3>4
  <2>5. CASE DeleteAgain(c)
    <3>1. challenge' # n /\ UNCHANGED <<verified, twice>>
      BY <1>1, <2>5, Deleted DEF DeleteAgain
    <3>2. Readers(n)' \subseteq Readers(n) \ {c}
      BY <1>5, <2>5, ReadersLeave DEF DeleteAgain, GetChallenge, Waiting
    <3> QED
      BY <2>1, <3>1, <3>2 DEF Served
  <2>6. CASE UNCHANGED <<redis, answers>> /\ ~GetChallenge(c)
    <3>1. Readers(n)' \subseteq Readers(n) \ {c}
      BY <1>5, <2>6, ReadersLeave
    <3> QED
      BY <2>1, <2>6, <3>1 DEF Served, redis, answers
  <2> QED
    BY <1>5, <2>2, <2>3, <2>4, <2>5, <2>6, Checkers
<1> QED
  BY <1>3, <1>4, <1>5, StepKinds

-----------------------------------------------------------------------------
(* The rows that calls hold *)

\* A call that holds a row goes on with it, or has just read it.
LEMMA OwnHold ==
    ASSUME TypeInv, CallsInv, [Next]_vars, NEW c \in Calls, Finish(c) \/ Delete(c) \/ Abort(c),
           HoldsRow(c)'
    PROVE  /\ UNCHANGED table
           /\ \/ HoldsRow(c) /\ call'[c].key = call[c].key /\ call'[c].was = call[c].was
              \/ call'[c].key \in Present /\ call'[c].was = rows[call'[c].key]
<1> DEFINE Same == call'[c].n = call[c].n /\ call'[c].key = call[c].key /\ call'[c].was = call[c].was
<1>1. call'[c].at # "idle" /\ UNCHANGED ceremony
  BY CallStep DEF HoldsRow, Waiting
<1>2. ASSUME NEW n \in DOMAIN ceremony, Submit(c, n)
      PROVE  UNCHANGED table /\ call'[c].key \in Present /\ call'[c].was = rows[call'[c].key]
  <2>1. call'[c] = [at |-> "get", n |-> n, expected |-> 0, key |-> ceremony[n].key,
                    was |-> IF Kind(n) = "login" THEN rows[ceremony[n].key] ELSE NoRow]
    BY <1>2 DEF Submit, TypeInv
  <2>2. Kind(n) = "login"
    BY <1>1, <2>1 DEF HoldsRow, Waiting, Kind
  <2> QED
    BY <1>2, <2>1, <2>2 DEF Submit
<1>3. ASSUME NEW k \in Keys, FindToDelete(c, k)
      PROVE  UNCHANGED table /\ call'[c].key \in Present /\ call'[c].was = rows[call'[c].key]
  BY <1>3 DEF FindToDelete, TypeInv
<1>4. ASSUME GetChallenge(c),
             call' = [call EXCEPT ![c].at = "verify", ![c].expected = challenge]
      PROVE  UNCHANGED table /\ Same /\ HoldsRow(c)
  <2>1. call[c] \in Busy /\ call[c].at = "get"
    BY <1>4, Shapes DEF GetChallenge, Waiting
  <2>2. Same /\ call'[c].at = "verify"
    BY <1>4, <2>1 DEF TypeInv, Busy
  <2> QED
    BY <1>1, <1>4, <2>1, <2>2 DEF GetChallenge, HoldsRow, Waiting, Kind
<1>5. ASSUME Verify(c), GoOn(c) PROVE UNCHANGED table /\ Same /\ HoldsRow(c)
  <2>1. call[c] \in Busy /\ call[c].at = "verify"
    BY <1>5, Shapes DEF Verify, Waiting
  <2>2. Same /\ call'[c].at \in {"write", "check"}
    BY <1>5, <2>1 DEF GoOn, TypeInv, Busy
  <2> QED
    BY <1>1, <1>5, <2>1, <2>2 DEF Verify, HoldsRow, Waiting, Kind
<1>6. ASSUME Verify(c), Goto(c, "again") PROVE UNCHANGED table /\ Same /\ HoldsRow(c)
  <2>1. call[c] \in Busy /\ call[c].at = "verify"
    BY <1>6, Shapes DEF Verify, Waiting
  <2>2. Same /\ call'[c].at = "again"
    BY <1>6, <2>1 DEF Goto, TypeInv, Busy
  <2> QED
    BY <1>1, <1>6, <2>1, <2>2 DEF Verify, HoldsRow, Waiting, Kind
<1>7. ~(CheckExisting(c) /\ Goto(c, "write"))
  <2> SUFFICES ASSUME CheckExisting(c), Goto(c, "write") PROVE FALSE
      OBVIOUS
  <2>1. call[c] \in Busy /\ call[c].at = "check" /\ Registers(c)
    BY Shapes DEF CheckExisting, Waiting, CallsInv, CallOK
  <2>2. call'[c].n = call[c].n /\ call'[c].at = "write"
    BY <2>1 DEF Goto, TypeInv, Busy
  <2> QED
    BY <1>1, <2>1, <2>2 DEF HoldsRow, Registers, Waiting, Kind
<1> QED
  BY <1>1, <1>2, <1>3, <1>4, <1>5, <1>6, <1>7, Continues

\* The row that another call holds is not written, or its credential is contested.
LEMMA HeldRowStays ==
    ASSUME TypeInv, CallsInv, HeldInv, [Next]_vars, NEW d \in Calls, HoldsRow(d),
           call[d].key \notin contested', call'[d] = call[d],
           NEW c \in Calls \ {d}, Insert(c) \/ SaveCredential(c) \/ DeleteCredential(c)
    PROVE  call[d].key \in Present /\ rows'[call[d].key] = rows[call[d].key]
<1> DEFINE j == call[d].key
<1>1. call[d].at # "idle" /\ d \in Holders(j) \ {c}
  BY DEF HoldsRow, Holders, Waiting
<1>2. call[d] \in Busy /\ j \in Keys
  BY <1>1, Shapes DEF Busy
<1>3. j \notin contested
  BY RowsGrow
<1>4. j \in Present
  BY <1>2, <1>3 DEF HeldInv, Present
<1>5. \A ks : Contest(c, ks) => j \notin ks
  BY <1>1 DEF Contest
<1>6. CASE Insert(c)
  <2>1. j \in Newest(call[c].key) \ {call[c].key}
    BY <1>4, <1>5, <1>6 DEF Insert
  <2> QED
    BY <1>4, <1>6, <2>1, InsertRows
<1>7. CASE SaveCredential(c)
  BY <1>2, <1>4, <1>5, <1>7, SaveRows DEF SaveCredential
<1>8. CASE DeleteCredential(c)
  <2>1. CASE UNCHANGED <<rows, removed, contested>>
    BY <1>4, <2>1
  <2>2. CASE ~UNCHANGED <<rows, removed, contested>>
    BY <1>2, <1>4, <1>5, <1>8, <2>2, DeleteRows
  <2> QED
    BY <2>1, <2>2
<1> QED
  BY <1>6, <1>7, <1>8

LEMMA HeldStep ==
    TypeInv /\ CallsInv /\ HeldInv /\ [Next]_vars => HeldInv'
<1> SUFFICES ASSUME TypeInv, CallsInv, HeldInv, [Next]_vars, NEW d \in Calls, HoldsRow(d)',
                    call'[d].key \notin contested'
             PROVE  LET row == rows'[call'[d].key] IN
                    row # NoRow /\ row.id = call'[d].was.id /\ row.counter = call'[d].was.counter
    BY DEF HeldInv
<1>1. contested \subseteq contested'
  BY RowsGrow
<1>2. CASE call'[d] = call[d]
  <2>1. HoldsRow(d) /\ call[d].key \notin contested
    BY <1>1, <1>2, OthersOK
  <2>2. /\ rows[call[d].key] # NoRow /\ rows[call[d].key].id = call[d].was.id
        /\ rows[call[d].key].counter = call[d].was.counter
    BY <2>1 DEF HeldInv
  <2>3. call[d].key \in Present
    <3>1. call[d] \in Busy
      BY <2>1, Shapes DEF HoldsRow, Waiting
    <3> QED
      BY <2>2, <3>1 DEF Busy, Present
  <2>4. CASE UNCHANGED rows
    BY <1>2, <2>2, <2>4
  <2>5. ASSUME NEW k \in Keys, FallUnused(k)
        PROVE  /\ rows'[call[d].key].id = rows[call[d].key].id
               /\ rows'[call[d].key].counter = rows[call[d].key].counter
               /\ rows'[call[d].key] # NoRow
    BY <2>3, <2>5, FallUnusedRows DEF Present
  <2>6. ASSUME NEW c \in Calls, Insert(c) \/ SaveCredential(c) \/ DeleteCredential(c)
        PROVE  rows'[call[d].key] = rows[call[d].key]
    <3>1. c # d
      <4>1. call'[c].at = "idle"
        BY <2>6 DEF Insert, SaveCredential, DeleteCredential, Return, TypeInv, Idle
      <4>2. call[c].at # "idle"
        BY <2>6 DEF Insert, SaveCredential, DeleteCredential, Waiting
      <4> QED
        BY <1>2, <4>1, <4>2
    <3> QED
      BY <1>2, <2>1, <2>6, <3>1, HeldRowStays
  <2>7. \/ UNCHANGED rows \/ \E k \in Keys : FallUnused(k)
        \/ \E c \in Calls : Insert(c) \/ SaveCredential(c) \/ DeleteCredential(c)
    BY StepKinds, Writers DEF Outside, RowsStay, table
  <2> QED
    BY <1>2, <2>2, <2>4, <2>5, <2>6, <2>7
<1>3. CASE call'[d] # call[d]
  <2>1. PICK c \in Calls : Finish(c) \/ Delete(c) \/ Abort(c)
    BY <1>3, StepKinds DEF Outside, FallUnused
  <2>2. c = d
    BY <1>3, <2>1, CallStep
  <2>3. /\ UNCHANGED table
        /\ \/ HoldsRow(d) /\ call'[d].key = call[d].key /\ call'[d].was = call[d].was
           \/ call'[d].key \in Present /\ call'[d].was = rows[call'[d].key]
    BY <2>1, <2>2, OwnHold
  <2> QED
    BY <1>1, <2>3 DEF HeldInv, Present, table
<1> QED
  BY <1>2, <1>3

-----------------------------------------------------------------------------
(* What registrations insert *)

LEMMA RegisterStep == TypeInv /\ RegisterInv /\ [Next]_vars => RegisterInv'
<1> SUFFICES ASSUME TypeInv, RegisterInv, [Next]_vars PROVE RegisterInv'
    OBVIOUS
<1>1. CASE UNCHANGED ceremony
  BY <1>1 DEF RegisterInv, Kind
<1>2. CASE Begin
  <2>1. PICK kind \in {"register", "login"}, allow \in SUBSET Keys : Store(kind, allow)
    BY <1>2 DEF Begin, StartPasskeyRegistration, StartPasskeyLogin, Present
  <2>2. Len(ceremony) \in Nat /\ Len(ceremony') = Len(ceremony) + 1
    BY <2>1 DEF Store, TypeInv
  <2>3. /\ \A n \in 1..Len(ceremony) : ceremony'[n] = ceremony[n]
        /\ ceremony'[Len(ceremony) + 1].key = NoKey
    BY <2>1 DEF Store, TypeInv
  <2>4. \A n \in 1..Len(ceremony') : n \in 1..Len(ceremony) \/ n = Len(ceremony) + 1
    BY <2>2
  <2>5. ASSUME NEW m \in 1..Len(ceremony'), NEW n \in 1..Len(ceremony'), Kind(m)' = "register",
               Kind(n)' = "register", ceremony'[m].key = ceremony'[n].key
        PROVE  m = n \/ ceremony'[m].key = NoKey
    <3>1. CASE m = Len(ceremony) + 1 \/ n = Len(ceremony) + 1
      BY <2>3, <2>5, <3>1
    <3>2. CASE m \in 1..Len(ceremony) /\ n \in 1..Len(ceremony)
      BY <2>3, <2>5, <3>2 DEF RegisterInv, Kind
    <3> QED
      BY <2>4, <3>1, <3>2
  <2> QED
    BY <2>5 DEF RegisterInv
<1>3. ASSUME NEW n \in DOMAIN ceremony, NEW k \in Keys, NEW i \in 0..MaxCounter, Answer(n, k, i)
      PROVE  RegisterInv'
  <2>1. n \in 1..Len(ceremony) /\ ceremony[n] \in Ceremony
    BY DEF TypeInv
  <2> DEFINE r == [ceremony[n] EXCEPT !.key = k, !.counter = i, !.allow = {}]
  <2>2. /\ r \in Ceremony /\ r.key = k /\ r.kind = ceremony[n].kind
        /\ ceremony' = [ceremony EXCEPT ![n] = r]
    BY <1>3, <2>1 DEF Answer, Ceremony
  <2> HIDE DEF r
  <2>3. /\ Len(ceremony') = Len(ceremony) /\ ceremony'[n].key = k
        /\ ceremony'[n].kind = ceremony[n].kind
        /\ \A m \in 1..Len(ceremony) : m # n => ceremony'[m] = ceremony[m]
    BY <2>1, <2>2 DEF TypeInv
  <2>4. Kind(n) = "register" => \A m \in 1..Len(ceremony) : ceremony[m].key # k
    BY <1>3 DEF Answer, TypeInv
  <2>5. ASSUME NEW m \in 1..Len(ceremony), NEW o \in 1..Len(ceremony), Kind(m)' = "register",
               Kind(o)' = "register", ceremony'[m].key = ceremony'[o].key, m # o
        PROVE  ceremony'[m].key = NoKey
    <3>1. CASE m = n
      BY <2>3, <2>4, <2>5, <3>1 DEF Kind
    <3>2. CASE o = n
      BY <2>3, <2>4, <2>5, <3>2 DEF Kind
    <3>3. CASE m # n /\ o # n
      BY <2>3, <2>5, <3>3 DEF RegisterInv, Kind
    <3> QED
      BY <3>1, <3>2, <3>3
  <2> QED
    BY <2>3, <2>5 DEF RegisterInv
<1>4. \/ UNCHANGED ceremony \/ Begin
      \/ \E n \in DOMAIN ceremony, k \in Keys, i \in 0..MaxCounter : Answer(n, k, i)
  <2>1. Outside => \/ UNCHANGED ceremony \/ Begin
                   \/ \E n \in DOMAIN ceremony, k \in Keys, i \in 0..MaxCounter : Answer(n, k, i)
    BY DEF Outside, Expire, vars, redis
  <2> QED
    BY <2>1, StepKinds, CallStep DEF FallUnused, redis
<1> QED
  BY <1>1, <1>2, <1>3, <1>4

\* What is known of a credential's ceremonies stays known.
LEMMA KnownStays ==
    ASSUME TypeInv, CallsInv, [Next]_vars, NEW k \in Keys
    PROVE  /\ Twice(k) => Twice(k)'
           /\ IsRegistered(k) => IsRegistered(k)'
           /\ Excused(k) => Excused(k)'
<1>1. ASSUME NEW n \in verified, ceremony[n].key = k PROVE ceremony'[n] = ceremony[n]
  <2>1. n \in 1..Len(ceremony) /\ ceremony[n].key # NoKey
    BY <1>1 DEF TypeInv
  <2> QED
    BY <2>1, CeremoniesGrow
<1>2. twice \subseteq verified
  BY DEF TypeInv
<1>3. Twice(k) => Twice(k)'
  BY <1>1, <1>2, AnswersStep DEF Twice
<1>4. IsRegistered(k) => IsRegistered(k)'
  BY <1>1, AnswersStep DEF IsRegistered, Kind
<1> QED
  BY <1>3, <1>4, RowsGrow DEF Excused, Twice

\* A call comes to register when it verifies the answer of a registration.
LEMMA OwnRegisters ==
    ASSUME TypeInv, CallsInv, [Next]_vars, NEW c \in Calls, Finish(c) \/ Delete(c) \/ Abort(c),
           Registers(c)'
    PROVE  /\ call'[c].n = call[c].n /\ call'[c].key = call[c].key
           /\ UNCHANGED table /\ Kind(call[c].n) = "register"
           /\ Registers(c) \/ (Verify(c) /\ Accepts(c))
<1>1. call'[c].at \in {"check", "write"} /\ UNCHANGED ceremony
  BY CallStep DEF Registers
<1>2. \A n \in DOMAIN ceremony : ~Submit(c, n)
  BY <1>1 DEF Submit, TypeInv
<1>3. \A k \in Keys : ~FindToDelete(c, k)
  BY <1>1 DEF FindToDelete, TypeInv
<1>4. ~(GetChallenge(c) /\ call' = [call EXCEPT ![c].at = "verify", ![c].expected = challenge])
  <2> SUFFICES ASSUME GetChallenge(c), call' = [call EXCEPT ![c].at = "verify", ![c].expected = challenge]
               PROVE  call'[c].at = "verify"
      BY <1>1
  <2>1. call[c] \in Busy
    BY Shapes DEF GetChallenge, Waiting
  <2> QED
    BY <2>1 DEF TypeInv, Busy
<1>5. ~(Verify(c) /\ Goto(c, "again"))
  <2> SUFFICES ASSUME Verify(c), Goto(c, "again") PROVE call'[c].at = "again"
      BY <1>1
  <2>1. call[c] \in Busy
    BY Shapes DEF Verify, Waiting
  <2> QED
    BY <2>1 DEF Goto, TypeInv, Busy
<1>6. CASE Verify(c) /\ Accepts(c) /\ GoOn(c)
  <2>1. call[c] \in Busy
    BY <1>6, Shapes DEF Verify, Waiting
  <2>2. call'[c].n = call[c].n /\ call'[c].key = call[c].key
    BY <1>6, <2>1 DEF GoOn, TypeInv, Busy
  <2> QED
    BY <1>1, <1>6, <2>2 DEF Verify, Registers, Kind
<1>7. CASE CheckExisting(c) /\ Goto(c, "write")
  <2>1. call[c] \in Busy /\ Registers(c)
    BY <1>7, Shapes DEF CheckExisting, Waiting, CallsInv, CallOK
  <2>2. call'[c].n = call[c].n /\ call'[c].key = call[c].key
    BY <1>7, <2>1 DEF Goto, TypeInv, Busy
  <2> QED
    BY <1>7, <2>1, <2>2 DEF CheckExisting, Registers
<1> QED
  BY <1>1, <1>2, <1>3, <1>4, <1>5, <1>6, <1>7, Continues

\* A call that registers k has verified the registration of k.
LEMMA RegistersVerified ==
    ASSUME TypeInv, CallsInv, NEW c \in Calls, Registers(c)
    PROVE  /\ call[c].n \in verified /\ Kind(call[c].n) = "register"
           /\ ceremony[call[c].n].key = call[c].key /\ call[c].key \in Keys
           /\ call[c].n \in 1..Len(ceremony)
<1>1. call[c] \in Busy
  BY Shapes DEF Registers
<1> QED
  BY <1>1 DEF Registers, CallsInv, CallOK, Busy

Registering(k) ==
    /\ \A c, d \in Calls :
          Registers(c) /\ Registers(d) /\ call[c].key = k /\ call[d].key = k => c = d
    /\ k \in Present \cup removed =>
          IsRegistered(k) /\ \A c \in Calls : Registers(c) => call[c].key # k

LEMMA InsertStep ==
    TypeInv /\ CallsInv /\ RegisterInv /\ InsertInv /\ [Next]_vars => InsertInv'
<1> SUFFICES ASSUME TypeInv, CallsInv, RegisterInv, InsertInv, [Next]_vars,
                    NEW k \in Keys, ~Twice(k)'
             PROVE  Registering(k)'
    BY DEF InsertInv, Registering
<1>1. Registering(k) /\ (IsRegistered(k) => IsRegistered(k)')
  BY KnownStays DEF InsertInv, Registering
<1>2. ASSUME UNCHANGED call, Present' = Present, removed' = removed PROVE Registering(k)'
  <2>1. \A c \in Calls : Registers(c)' <=> Registers(c)
    BY <1>2, OthersOK
  <2> QED
    BY <1>1, <1>2, <2>1 DEF Registering
<1>3. CASE Outside
  BY <1>2, <1>3 DEF Outside, table, Present
<1>4. ASSUME NEW j \in Keys, FallUnused(j) PROVE Registering(k)'
  BY <1>2, <1>4, FallUnusedRows DEF FallUnused
<1>5. ASSUME NEW c \in Calls, Finish(c) \/ Delete(c) \/ Abort(c) PROVE Registering(k)'
  <2>1. \A d \in Calls \ {c} : call'[d] = call[d] /\ (Registers(d)' <=> Registers(d))
    BY <1>5, CallStep, OthersOK
  <2>2. CASE Registers(c)' /\ ~Registers(c) /\ call[c].key = k
    <3>1. /\ Verify(c) /\ Accepts(c) /\ UNCHANGED table
          /\ call'[c].n = call[c].n /\ call'[c].key = k /\ Kind(call[c].n) = "register"
      BY <1>5, <2>2, OwnRegisters
    <3>2. /\ call[c].n \in 1..Len(ceremony) /\ ceremony[call[c].n].key = k
          /\ ceremony'[call[c].n].key = k
      BY <2>2, <3>1, InHand DEF Verify, Waiting
    <3>3. call[c].n \notin verified
      BY <3>1, <3>2 DEF Verify, Verified, Twice
    <3>4. ~IsRegistered(k)
      <4> SUFFICES ASSUME NEW n \in verified, Kind(n) = "register", ceremony[n].key = k
                   PROVE  FALSE
          BY DEF IsRegistered
      <4>1. n \in 1..Len(ceremony)
        BY DEF TypeInv
      <4>2. n = call[c].n
        BY <3>1, <3>2, <4>1 DEF RegisterInv
      <4> QED
        BY <3>3, <4>2
    <3>5. \A d \in Calls : Registers(d) => call[d].key # k
      BY <3>4, RegistersVerified DEF IsRegistered
    <3>6. k \notin (Present \cup removed)'
      BY <1>1, <3>1, <3>4 DEF Registering, table, Present
    <3> QED
      BY <2>1, <3>5, <3>6 DEF Registering
  <2>3. CASE ~(Registers(c)' /\ ~Registers(c) /\ call[c].key = k)
    <3>1. \A d \in Calls : Registers(d)' /\ call'[d].key = k => Registers(d) /\ call[d].key = k
      BY <1>5, <2>1, <2>3, OwnRegisters
    <3>2. CASE k \in (Present \cup removed)' => k \in Present \cup removed
      BY <1>1, <3>1, <3>2 DEF Registering
    <3>3. CASE k \notin Present \cup removed /\ k \in (Present \cup removed)'
      <4>1. ~RowsStay
        BY <3>3 DEF RowsStay, table, Present
      <4>2. ~SaveCredential(c)
        <5> SUFFICES ASSUME SaveCredential(c) PROVE FALSE
            OBVIOUS
        <5>1. call[c].key \in Present \cup removed /\ Present' = Present \cup {call[c].key}
          BY SaveRows DEF CallsInv, CallOK
        <5> QED
          BY <3>3, <5>1 DEF SaveCredential
      <4>3. ~DeleteCredential(c)
        BY <3>3, DeleteRows DEF DeleteCredential, Present
      <4>4. Insert(c)
        BY <1>5, <4>1, <4>2, <4>3, Writers
      <4>5. call[c].key = k /\ Registers(c)
        BY <3>3, <4>4, InsertRows DEF Insert, Registers, Waiting
      <4>6. IsRegistered(k)
        BY <4>5, RegistersVerified DEF IsRegistered
      <4>7. call'[c] = Idle
        BY <4>4 DEF Insert, Return, TypeInv
      <4>8. ~Registers(c)'
        BY <4>7 DEF Registers, Idle
      <4> QED
        BY <1>1, <3>1, <4>5, <4>6, <4>8 DEF Registering
    <3> QED
      BY <3>2, <3>3
  <2> QED
    BY <2>2, <2>3
<1> QED
  BY <1>3, <1>4, <1>5, StepKinds

LEMMA RemovedStep ==
    TypeInv /\ CallsInv /\ HeldInv /\ InsertInv /\ RemovedInv /\ [Next]_vars => RemovedInv'
<1> SUFFICES ASSUME TypeInv, CallsInv, HeldInv, InsertInv, RemovedInv, [Next]_vars,
                    NEW k \in Keys, k \in (Present \cap removed)', ~Excused(k)'
             PROVE  FALSE
    BY TypeStep DEF RemovedInv, TypeInv
<1>1. ~Excused(k) /\ ~(k \in Present /\ k \in removed) /\ ~Twice(k) /\ k \notin contested
  BY KnownStays DEF RemovedInv, Excused, Twice
<1>2. CASE UNCHANGED table
  BY <1>1, <1>2 DEF table, Present
<1>3. ASSUME NEW j \in Keys, FallUnused(j) PROVE FALSE
  BY <1>1, <1>3, FallUnusedRows DEF FallUnused
<1>4. ASSUME NEW c \in Calls, Insert(c) PROVE FALSE
  <2>1. k \in Newest(call[c].key) /\ k \in removed
    BY <1>4, InsertRows DEF Insert
  <2>2. k = call[c].key
    BY <1>1, <1>4, <2>1, InsertRows
  <2>3. Registers(c)
    BY <1>4 DEF Insert, Registers, Waiting
  <2> QED
    BY <1>1, <2>1, <2>2, <2>3 DEF InsertInv
<1>5. ASSUME NEW c \in Calls, SaveCredential(c) PROVE FALSE
  <2>1. k \in removed /\ k = call[c].key /\ HoldsRow(c)
    BY <1>1, <1>5, SaveRows DEF SaveCredential
  <2> QED
    BY <1>1, <2>1 DEF HeldInv, Present
<1>6. ASSUME NEW c \in Calls, DeleteCredential(c) PROVE FALSE
  BY <1>1, <1>6, DeleteRows DEF Present
<1> QED
  BY <1>2, <1>3, <1>4, <1>5, <1>6, StepKinds, Writers DEF Outside, RowsStay

-----------------------------------------------------------------------------
(* The limit *)

\* Rows whose ids differ are numbered by the rows newer than they: fewer than Limit.
LEMMA NewestBounded ==
    ASSUME TypeInv, NEW k \in Keys \ Present,
           \A i, j \in Present : rows[i].id = rows[j].id => i = j
    PROVE  Cardinality(Newest(k)) <= Limit
<1> DEFINE kept == Kept(k)
           newer(j) == Newer(j, k, kept)
           f == [j \in Newest(k) |-> Cardinality(newer(j))]
<1>1. IsFiniteSet(kept)
  <2>1. kept \in SUBSET Keys
    BY DEF Kept, Present
  <2> QED
    BY <2>1, FS_Subset
<1>2. \A j : IsFiniteSet(newer(j)) /\ Cardinality(newer(j)) \in Nat
  <2> TAKE j
  <2>1. newer(j) \in SUBSET kept
    BY DEF Newer
  <2> HIDE DEF newer, kept
  <2>2. IsFiniteSet(newer(j))
    BY <1>1, <2>1, FS_Subset
  <2> QED
    BY <2>2, FS_CardinalityType
<1>3. \A j \in kept \ {k} : j \in Present /\ rows[j].id \in Nat
  BY DEF Kept, Present, TypeInv, Row
<1>4. ASSUME NEW j \in kept, NEW i \in newer(j) PROVE Cardinality(newer(i)) < Cardinality(newer(j))
  <2>1. newer(i) \subseteq newer(j)
    <3> SUFFICES ASSUME NEW m \in newer(i) PROVE m \in newer(j)
        OBVIOUS
    <3>1. i \in kept \ {j} /\ m \in kept \ {i}
      BY <1>4 DEF Newer
    <3>2. CASE m = k
      BY <1>4, <3>1, <3>2 DEF Newer
    <3>3. CASE m # k
      <4>1. i # k /\ rows[m].id > rows[i].id /\ j # k /\ rows[i].id > rows[j].id
        BY <1>4, <3>3 DEF Newer
      <4>2. rows[m].id > rows[j].id /\ m # j
        <5>1. rows[m].id \in Nat /\ rows[i].id \in Nat /\ rows[j].id \in Nat
          BY <1>3, <3>1, <3>3, <4>1
        <5> QED
          BY <4>1, <5>1
      <4> QED
        BY <3>1, <4>1, <4>2 DEF Newer
    <3> QED
      BY <3>2, <3>3
  <2>2. i \notin newer(i)
    BY DEF Newer
  <2> HIDE DEF newer
  <2>3. /\ Cardinality(newer(i)) <= Cardinality(newer(j))
        /\ Cardinality(newer(i)) # Cardinality(newer(j))
    BY <1>2, <1>4, <2>1, <2>2, FS_Subset
  <2> QED
    BY <1>2, <2>3
<1>5. ASSUME NEW i \in kept, NEW j \in kept, i # j PROVE i \in newer(j) \/ j \in newer(i)
  <2>1. CASE i = k \/ j = k
    BY <1>5, <2>1 DEF Newer
  <2>2. CASE i # k /\ j # k
    <3>1. rows[i].id # rows[j].id /\ rows[i].id \in Nat /\ rows[j].id \in Nat
      BY <1>3, <1>5, <2>2
    <3>2. rows[i].id > rows[j].id \/ rows[j].id > rows[i].id
      BY <3>1
    <3> QED
      BY <1>5, <2>2, <3>2 DEF Newer
  <2> QED
    BY <2>1, <2>2
<1>6. Newest(k) \subseteq kept /\ \A j \in Newest(k) : Cardinality(newer(j)) < Limit
  BY DEF Newest
<1> HIDE DEF newer, kept
<1>7. f \in [Newest(k) -> 0..(Limit - 1)]
  BY <1>2, <1>6
<1>8. \A i, j \in Newest(k) : f[i] = f[j] => i = j
  BY <1>2, <1>4, <1>5, <1>6
<1>9. f \in Injection(Newest(k), 0..(Limit - 1))
  BY <1>7, <1>8 DEF Injection, IsInjective
<1> HIDE DEF f
<1>10. IsFiniteSet(0..(Limit - 1)) /\ Cardinality(0..(Limit - 1)) = Limit
  BY FS_Interval
<1> QED
  BY <1>9, <1>10, FS_Injection

LEMMA LimitStep ==
    TypeInv /\ CallsInv /\ HeldInv /\ LimitInv /\ [Next]_vars => LimitInv'
<1> SUFFICES ASSUME TypeInv, CallsInv, HeldInv, LimitInv, [Next]_vars, contested' = {}
             PROVE  /\ Cardinality(Present') <= Limit
                    /\ \A i, j \in Present' : rows'[i].id = rows'[j].id => i = j
    BY DEF LimitInv
<1>1. contested = {} /\ Cardinality(Present) <= Limit
  BY RowsGrow DEF LimitInv
<1>2. \A i, j \in Present : rows[i].id = rows[j].id => i = j
  BY <1>1 DEF LimitInv
<1>3. IsFiniteSet(Present) /\ Cardinality(Present) \in Nat
  <2>1. Present \in SUBSET Keys
    BY DEF Present
  <2>2. IsFiniteSet(Present)
    BY <2>1, FS_Subset
  <2> QED
    BY <2>2, FS_CardinalityType
<1>4. CASE UNCHANGED table
  BY <1>1, <1>2, <1>4 DEF table, Present
<1>5. ASSUME NEW k \in Keys, FallUnused(k)
      PROVE  /\ Cardinality(Present') <= Limit
             /\ \A i, j \in Present' : rows'[i].id = rows'[j].id => i = j
  BY <1>1, <1>2, <1>5, FallUnusedRows
<1>6. ASSUME NEW c \in Calls, Insert(c)
      PROVE  /\ Cardinality(Present') <= Limit
             /\ \A i, j \in Present' : rows'[i].id = rows'[j].id => i = j
  <2> DEFINE k == call[c].key
  <2>1. /\ k \in Keys \ Present /\ Present' = Newest(k) /\ rows'[k] = NewRow
        /\ Newest(k) \subseteq Present \cup {k}
        /\ \A j \in Newest(k) \ {k} : rows'[j] = rows[j]
    BY <1>6, InsertRows
  <2>2. Cardinality(Newest(k)) <= Limit
    BY <1>2, <2>1, NewestBounded
  <2>3. NewRow.id = inserted + 1 /\ inserted \in Nat
    BY DEF NewRow, TypeInv
  <2>4. \A j \in Present : rows[j].id \in Nat /\ rows[j].id <= inserted
    BY DEF Present, TypeInv, Row
  <2> HIDE DEF k
  <2>5. \A j \in Newest(k) \ {k} : j \in Present /\ rows'[j].id = rows[j].id
    BY <2>1
  <2>6. rows'[k].id = inserted + 1
    BY <2>1, <2>3
  <2>7. ASSUME NEW i \in Newest(k), NEW j \in Newest(k), rows'[i].id = rows'[j].id PROVE i = j
    <3>1. CASE i = k /\ j # k
      BY <2>3, <2>4, <2>5, <2>6, <2>7, <3>1
    <3>2. CASE i # k /\ j = k
      BY <2>3, <2>4, <2>5, <2>6, <2>7, <3>2
    <3>3. CASE i # k /\ j # k
      BY <1>2, <2>5, <2>7, <3>3
    <3> QED
      BY <3>1, <3>2, <3>3
  <2> QED
    BY <2>1, <2>2, <2>7
<1>7. ASSUME NEW c \in Calls, SaveCredential(c)
      PROVE  /\ Cardinality(Present') <= Limit
             /\ \A i, j \in Present' : rows'[i].id = rows'[j].id => i = j
  <2> DEFINE k == call[c].key
  <2>1. /\ k \in Keys /\ HoldsRow(c) /\ Present' = Present \cup {k}
        /\ rows'[k].id = call[c].was.id /\ \A j \in Keys \ {k} : rows'[j] = rows[j]
    BY <1>7, SaveRows
  <2>2. rows[k] # NoRow /\ rows[k].id = call[c].was.id
    BY <1>1, <2>1 DEF HeldInv
  <2> HIDE DEF k
  <2>3. Present' = Present /\ Present \subseteq Keys
    BY <2>1, <2>2 DEF Present
  <2>4. \A j \in Present : rows'[j].id = rows[j].id
    BY <2>1, <2>2, <2>3
  <2> QED
    BY <1>1, <1>2, <2>3, <2>4
<1>8. ASSUME NEW c \in Calls, DeleteCredential(c)
      PROVE  /\ Cardinality(Present') <= Limit
             /\ \A i, j \in Present' : rows'[i].id = rows'[j].id => i = j
  <2> DEFINE k == call[c].key
  <2>1. CASE UNCHANGED <<rows, removed, contested>>
    BY <1>1, <1>2, <2>1 DEF Present
  <2>2. CASE ~UNCHANGED <<rows, removed, contested>>
    <3>1. Present' = Present \ {k} /\ \A j \in Keys \ {k} : rows'[j] = rows[j]
      BY <1>8, <2>2, DeleteRows
    <3>2. Present' \in SUBSET Present /\ \A j \in Present' : rows'[j] = rows[j]
      BY <3>1 DEF Present
    <3>3. Cardinality(Present') <= Cardinality(Present) /\ Cardinality(Present') \in Nat
      <4>1. IsFiniteSet(Present') /\ Cardinality(Present') <= Cardinality(Present)
        BY <1>3, <3>2, FS_Subset
      <4> QED
        BY <4>1, FS_CardinalityType
    <3> QED
      BY <1>1, <1>2, <1>3, <3>2, <3>3
  <2> QED
    BY <2>1, <2>2
<1> QED
  BY <1>4, <1>5, <1>6, <1>7, <1>8, StepKinds, Writers DEF Outside, RowsStay

-----------------------------------------------------------------------------
(* Theorems *)

Inv == /\ TypeInv /\ CallsInv /\ ReadersInv /\ HeldInv /\ RegisterInv /\ InsertInv
       /\ RemovedInv /\ LimitInv

\* Every reachable state has its types, its calls go on with answered ceremonies and
\* the rows they read, and credentials are registered once.
THEOREM PasskeysInvariant == Spec => []Inv
<1>1. Init => Inv
  BY InitInv DEF Inv
<1>2. Inv /\ [Next]_vars => Inv'
  BY TypeStep, CallsStep, ReadersStep, HeldStep, RegisterStep, InsertStep, RemovedStep, LimitStep
     DEF Inv
<1> QED
  BY <1>1, <1>2, PTL DEF Spec

\* Types, and the limit of passkeys of finishPasskeyRegistration: an account never has
\* more, unless a credential is written while another call has it in hand.
THEOREM TypeCorrect == Spec => []TypeOK
<1>1. Inv => TypeOK
  BY DEF Inv, TypeInv, LimitInv, TypeOK
<1> QED
  BY <1>1, PasskeysInvariant, PTL

\* A challenge serves one answer, however many calls and workers there are, unless two
\* read it at a time or Redis fails to delete it (deleteChallenge after each finish).
THEOREM ChallengeServesOnce == Spec => []ChallengeUsedOnce
<1>1. Inv => ChallengeUsedOnce
  BY DEF Inv, TypeInv, ReadersInv, ChallengeUsedOnce
<1> QED
  BY <1>1, PasskeysInvariant, PTL

\* A credential's counter does not go back and a deleted one does not return, for any
\* number of calls, but for those written while another call had them in hand.
THEOREM NothingGoesBack == Spec => NeverBack
<1>1. ASSUME Inv, [Next]_vars, NEW k \in Keys, rows'[k] # NoRow, ~Excused(k)
      PROVE  /\ k \notin removed
             /\ rows[k] # NoRow => rows'[k].counter >= rows[k].counter
  <2> USE <1>1 DEF Inv
  <2>1. k \notin contested /\ ~Twice(k)
    BY DEF Excused, Twice
  <2>2. k \in Present => k \notin removed /\ rows[k].counter \in Nat
    BY DEF RemovedInv, Present, TypeInv, Row
  <2>3. CASE UNCHANGED table
    BY <2>2, <2>3 DEF table, Present
  <2>4. ASSUME NEW j \in Keys, FallUnused(j)
        PROVE  k \in Present /\ rows'[k].counter = rows[k].counter
    <3>1. k \in Present
      BY <2>4, FallUnusedRows DEF Present
    <3> QED
      BY <2>4, <3>1, FallUnusedRows
  <2>5. ASSUME NEW c \in Calls, Insert(c)
        PROVE  \/ k \notin removed /\ rows[k] = NoRow
               \/ k \in Present /\ rows'[k] = rows[k]
    <3>1. CASE k = call[c].key
      <4>1. Registers(c)
        BY <2>5 DEF Insert, Registers, Waiting
      <4>2. k \notin Present \cup removed
        BY <2>1, <3>1, <4>1 DEF InsertInv
      <4> QED
        BY <4>2 DEF Present
    <3>2. CASE k # call[c].key
      <4>1. k \in Newest(call[c].key)
        BY <2>5, InsertRows DEF Present
      <4> QED
        BY <2>5, <3>2, <4>1, InsertRows
    <3> QED
      BY <3>1, <3>2
  <2>6. ASSUME NEW c \in Calls, SaveCredential(c)
        PROVE  k \in Present /\ rows'[k].counter >= rows[k].counter
    <3>1. CASE k = call[c].key
      <4>1. HoldsRow(c) /\ rows'[k].counter = ceremony[call[c].n].counter
        BY <2>6, <3>1, SaveRows
      <4>2. k \in Present /\ rows[k].counter = call[c].was.counter
        BY <2>1, <3>1, <4>1 DEF HeldInv, Present
      <4>3. CounterAccepted(ceremony[call[c].n].counter, call[c].was.counter)
        BY <2>6, <4>1 DEF SaveCredential, CallsInv, CallOK
      <4>4. ceremony[call[c].n].counter \in Nat
        <5>1. call[c].n \in 1..Len(ceremony)
          BY <2>6 DEF SaveCredential, Waiting, CallsInv, CallOK
        <5>2. ceremony[call[c].n] \in Ceremony
          BY <5>1 DEF TypeInv
        <5> QED
          BY <5>2 DEF Ceremony
      <4> QED
        BY <2>2, <4>1, <4>2, <4>3, <4>4 DEF CounterAccepted
    <3>2. CASE k # call[c].key
      BY <2>2, <2>6, <3>2, SaveRows DEF Present
    <3> QED
      BY <3>1, <3>2
  <2>7. ASSUME NEW c \in Calls, DeleteCredential(c) PROVE k \in Present /\ rows'[k] = rows[k]
    <3>1. k # call[c].key \/ UNCHANGED rows
      BY <2>7, DeleteRows DEF Present
    <3> QED
      BY <2>7, <3>1, DeleteRows DEF Present
  <2>8. \/ UNCHANGED table \/ \E j \in Keys : FallUnused(j)
        \/ \E c \in Calls : Insert(c) \/ SaveCredential(c) \/ DeleteCredential(c)
    BY StepKinds, Writers DEF Outside, RowsStay
  <2>9. CASE k \notin Present
    BY <2>3, <2>4, <2>5, <2>6, <2>7, <2>8, <2>9 DEF Present, table
  <2>10. CASE k \in Present
    BY <2>2, <2>3, <2>4, <2>5, <2>6, <2>7, <2>8, <2>10 DEF table
  <2> QED
    BY <2>9, <2>10
<1>2. Inv /\ [Next]_vars =>
          [\A k \in Keys : rows'[k] # NoRow /\ ~Excused(k) =>
              /\ k \notin removed
              /\ rows[k] # NoRow => rows'[k].counter >= rows[k].counter]_vars
  BY <1>1
<1> QED
  BY <1>2, PasskeysInvariant, PTL DEF Spec, NeverBack

=============================================================================
