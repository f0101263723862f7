------------------------ MODULE Subscriptions_proofs ------------------------
(***************************************************************************)
(* Proofs about Subscriptions, for any purchases in either store, any      *)
(* number of calls, of notifications and of billing periods.               *)
(***************************************************************************)
EXTENDS Subscriptions, TLAPS

USE SubscriptionsAssumption, NoRowAssumption

-----------------------------------------------------------------------------
(* The shapes of a call *)

Verifying == {"look", "insert", "update", "unlock"}
Arriving == {"record", "find"}
Handled == {"fetch", "write", "flag"}

\* A record a call may be, with a note that has been sent.
Shape(r) ==
    \/ r = Idle
    \/ r \in Verification
    \/ r \in Webhook \cup Handling /\ r.note \in 1..Len(sent)

LEMMA Shapes ==
    ASSUME TypeOK, NEW c \in Calls
    PROVE  /\ call[c].at \in {"idle"} \cup Verifying \cup Arriving \cup Handled
           /\ call[c].at = "idle" => call[c] = Idle
           /\ call[c].at \in Verifying => call[c] \in Verification
           /\ call[c].at \in Arriving => call[c] \in Webhook /\ call[c].note \in 1..Len(sent)
           /\ call[c].at \in Handled => call[c] \in Handling /\ call[c].note \in 1..Len(sent)
           /\ "note" \in DOMAIN call[c] <=> call[c].at \in Arriving \cup Handled
           /\ Shape(call[c])
<1>1. call[c] \in {Idle} \cup Verification \cup Webhook \cup Handling
  BY DEF TypeOK
<1>2. "note" \in DOMAIN call[c] => call[c].note <= Len(sent)
  BY DEF TypeOK
<1>3. Len(sent) \in Nat /\ Len(sent) <= MaxNotes
  BY DEF TypeOK
<1>4. CASE call[c] = Idle
  BY <1>4 DEF Idle, Verifying, Arriving, Handled, Shape
<1>5. CASE call[c] \in Verification
  <2>1. "note" \notin DOMAIN call[c]
    BY <1>5 DEF Verification
  <2> QED
    BY <1>5, <2>1 DEF Verification, Verifying, Arriving, Handled, Shape
<1>6. CASE call[c] \in Webhook
  <2>1. "note" \in DOMAIN call[c]
    BY <1>6 DEF Webhook
  <2>2. call[c].note \in 1..Len(sent)
    BY <1>2, <1>3, <1>6, <2>1 DEF Webhook, Notes
  <2> QED
    BY <1>6, <2>1, <2>2 DEF Webhook, Verifying, Arriving, Handled, Shape
<1>7. CASE call[c] \in Handling
  <2>1. "note" \in DOMAIN call[c]
    BY <1>7 DEF Handling
  <2>2. call[c].note \in 1..Len(sent)
    BY <1>2, <1>3, <1>7, <2>1 DEF Handling, Notes
  <2> QED
    BY <1>7, <2>1, <2>2 DEF Handling, Verifying, Arriving, Handled, Shape
<1> QED
  BY <1>1, <1>4, <1>5, <1>6, <1>7

\* One call takes a shape, the others keep theirs.
LEMMA CallsTyped ==
    ASSUME TypeOK, NEW c \in Calls, NEW r, Shape(r), call' = [call EXCEPT ![c] = r],
           sent' = sent
    PROVE  /\ call' \in [Calls -> {Idle} \cup Verification \cup Webhook \cup Handling]
           /\ \A d \in Calls : "note" \in DOMAIN call'[d] => call'[d].note <= Len(sent')
<1>1. r \in {Idle} \cup Verification \cup Webhook \cup Handling
  BY DEF Shape
<1>2. Len(sent) \in Nat
  BY DEF TypeOK
<1>3. "note" \in DOMAIN r => r.note <= Len(sent)
  <2>1. CASE r = Idle
    BY <2>1 DEF Idle
  <2>2. CASE r \in Verification
    BY <2>2 DEF Verification
  <2>3. CASE r.note \in 1..Len(sent)
    BY <1>2, <2>3
  <2> QED
    BY <2>1, <2>2, <2>3 DEF Shape
<1> QED
  BY <1>1, <1>3 DEF TypeOK

\* A call that moves on keeps what it holds.
LEMMA Moves ==
    ASSUME TypeOK, NEW c \in Calls, NEW at, Goto(c, at),
           \/ call[c].at \in Verifying /\ at \in Verifying
           \/ call[c].at \in Arriving /\ at \in Arriving
           \/ call[c].at \in Handled /\ at \in Handled
    PROVE  \E r : /\ call' = [call EXCEPT ![c] = r]
                  /\ Shape(r)
                  /\ r.at = at
                  /\ at \in Verifying => r.purchase = call[c].purchase /\ r.end = call[c].end
                  /\ at \in Arriving \cup Handled => r.note = call[c].note
                  /\ at \in Handled => r.was = call[c].was /\ r.end = call[c].end
<1> DEFINE r == [call[c] EXCEPT !.at = at]
           Moved(q) == /\ Shape(q)
                       /\ q.at = at
                       /\ at \in Verifying => q.purchase = call[c].purchase /\ q.end = call[c].end
                       /\ at \in Arriving \cup Handled => q.note = call[c].note
                       /\ at \in Handled => q.was = call[c].was /\ q.end = call[c].end
<1>1. call' = [call EXCEPT ![c] = r]
  BY DEF Goto, TypeOK
<1>2. ASSUME call[c].at \in Verifying PROVE Moved(r)
  <2>1. call[c] \in Verification /\ at \in Verifying
    BY <1>2, Shapes DEF Verifying, Arriving, Handled
  <2> QED
    BY <2>1 DEF Verification, Verifying, Arriving, Handled, Shape
<1>3. ASSUME call[c].at \in Arriving PROVE Moved(r)
  <2>1. call[c] \in Webhook /\ call[c].note \in 1..Len(sent) /\ at \in Arriving
    BY <1>3, Shapes DEF Verifying, Arriving, Handled
  <2> QED
    BY <2>1 DEF Webhook, Verifying, Arriving, Handled, Shape
<1>4. ASSUME call[c].at \in Handled PROVE Moved(r)
  <2>1. call[c] \in Handling /\ call[c].note \in 1..Len(sent) /\ at \in Handled
    BY <1>4, Shapes DEF Verifying, Arriving, Handled
  <2> QED
    BY <2>1 DEF Handling, Verifying, Arriving, Handled, Shape
<1>5. Moved(r)
  BY <1>2, <1>3, <1>4
<1> HIDE DEF r
<1> QED
  BY <1>1, <1>5

-----------------------------------------------------------------------------
(* What a sale does *)

\* The store gives p a standing it can have after a sale, and perhaps sends a note.
SaleOf(p) ==
    \E s \in Product :
        /\ store' = [store EXCEPT ![p] = s]
        /\ s.standing # "unsold"
        /\ ~(Android(p) /\ Sold(p, {"revoked"}))
        /\ \/ store[p].standing = "unsold"
           \/ store[p].end <= s.end
           \/ Android(p) /\ s.standing = "revoked"
        /\ \/ sent' = sent /\ pending' = pending
           \/ \E n \in Note : /\ Len(sent) < MaxNotes
                             /\ sent' = Append(sent, n)
                             /\ pending' = pending \cup {Len(sent) + 1}
        /\ UNCHANGED <<now, recorded, row, flag, call, history>>

LEMMA Published ==
    ASSUME NEW p \in Purchases, NEW s \in Product, NEW type \in Types, Publish(p, s, type),
           s.standing # "unsold", ~(Android(p) /\ Sold(p, {"revoked"})),
           store[p].end <= s.end \/ (Android(p) /\ s.standing = "revoked")
    PROVE  SaleOf(p)
<1> DEFINE n == [purchase |-> p, type |-> type, end |-> s.end]
<1>1. n \in Note
  BY DEF Note, Product
<1>2. /\ Len(sent) < MaxNotes
      /\ sent' = Append(sent, n)
      /\ pending' = pending \cup {Len(sent) + 1}
      /\ store' = [store EXCEPT ![p] = s]
      /\ UNCHANGED <<now, recorded, row, flag, call, history>>
  BY DEF Publish
<1> HIDE DEF n
<1> QED
  BY <1>1, <1>2 DEF SaleOf

LEMMA Sales ==
    ASSUME TypeOK, NEW p \in Purchases, Sale(p)
    PROVE  SaleOf(p)
<1> now \in 0..MaxTime /\ store[p] \in Product /\ store[p].end \in Time
  BY DEF TypeOK, Product
<1>1. CASE Sell(p)
  <2> DEFINE s == [standing |-> "paid", end |-> now + 1, auto |-> TRUE]
  <2>1. s \in Product /\ s.standing = "paid"
    BY DEF Product, Standing, Time
  <2>2. store[p].standing = "unsold" /\ ~Sold(p, {"revoked"})
    BY <1>1 DEF Sell, Sold
  <2>3. /\ store' = [store EXCEPT ![p] = s]
        /\ UNCHANGED <<now, sent, pending, recorded, row, flag, call, history>>
    BY <1>1 DEF Sell
  <2> HIDE DEF s
  <2> QED
    BY <2>1, <2>2, <2>3 DEF SaleOf
<1>2. CASE Renew(p)
  <2> DEFINE s == [standing |-> "paid", end |-> store[p].end + 1, auto |-> TRUE]
  <2>1. s \in Product /\ store[p].end <= s.end /\ s.standing = "paid"
    BY <1>2 DEF Renew, Product, Standing, Time
  <2>2. Publish(p, s, "renewed") /\ Sold(p, {"paid", "unpaid"})
    BY <1>2 DEF Renew
  <2> HIDE DEF s
  <2> QED
    BY <2>1, <2>2, Published DEF Sold, Types
<1>3. CASE CancelAutoRenewal(p)
  <2> DEFINE s == [store[p] EXCEPT !.auto = FALSE]
  <2>1. s \in Product
    BY Zenon DEF Product
  <2>0. store[p].end <= s.end /\ s.standing = store[p].standing
    BY DEF Product, Time
  <2> HIDE DEF s
  <2>2. Publish(p, s, "autoOff") /\ Sold(p, {"paid", "unpaid"})
    BY <1>3 DEF CancelAutoRenewal, s
  <2> QED
    BY <2>0, <2>1, <2>2, Published DEF Sold, Types
<1>4. CASE RestartAutoRenewal(p)
  <2> DEFINE s == [store[p] EXCEPT !.auto = TRUE]
             type == IF Android(p) THEN "renewed" ELSE "autoOn"
  <2>1. s \in Product
    BY Zenon DEF Product
  <2>0. store[p].end <= s.end /\ s.standing = store[p].standing
    BY DEF Product, Time
  <2>2. type \in Types
    BY DEF Types
  <2> HIDE DEF s, type
  <2>3. Publish(p, s, type) /\ Sold(p, {"paid", "unpaid"})
    BY <1>4 DEF RestartAutoRenewal, s, type
  <2> QED
    BY <2>0, <2>1, <2>2, <2>3, Published DEF Sold
<1>5. CASE MissPayment(p)
  <2> DEFINE s == [store[p] EXCEPT !.standing = "unpaid"]
  <2>1. s \in Product /\ store[p].end <= s.end /\ s.standing = "unpaid"
    BY DEF Product, Standing, Time
  <2> HIDE DEF s
  <2>2. PICK type \in {"grace", "hold"} : Publish(p, s, type)
    BY <1>5 DEF MissPayment, s
  <2>3. Sold(p, {"paid"})
    BY <1>5 DEF MissPayment
  <2> QED
    BY <2>1, <2>2, <2>3, Published DEF Sold, Types
<1>6. CASE Expire(p)
  <2> DEFINE s == [store[p] EXCEPT !.standing = "expired"]
  <2>1. s \in Product /\ store[p].end <= s.end /\ s.standing = "expired"
    BY DEF Product, Standing, Time
  <2> HIDE DEF s
  <2>2. Publish(p, s, "expired") /\ Sold(p, {"paid", "unpaid"})
    BY <1>6 DEF Expire, s
  <2> QED
    BY <2>1, <2>2, Published DEF Sold, Types
<1>7. CASE Revoke(p)
  <2> DEFINE end == IF Android(p) /\ now < store[p].end THEN now ELSE store[p].end
             s == [standing |-> "revoked", auto |-> store[p].auto, end |-> end]
  <2>1. end \in Time /\ (store[p].end <= end \/ Android(p))
    BY DEF Time
  <2>2. s \in Product
    BY <2>1 DEF Product, Standing
  <2>3. Publish(p, s, "revoked") /\ Sold(p, {"paid", "unpaid"})
    BY <1>7 DEF Revoke
  <2> HIDE DEF end
  <2> QED
    BY <2>1, <2>2, <2>3, Published DEF Sold, Types
<1>8. CASE ReverseRefund(p)
  <2> DEFINE s == [store[p] EXCEPT !.standing = "paid"]
  <2>1. s \in Product /\ store[p].end <= s.end /\ s.standing = "paid"
    BY DEF Product, Standing, Time
  <2> HIDE DEF s
  <2>2. Publish(p, s, "refundReversed") /\ ~Android(p)
    BY <1>8 DEF ReverseRefund, s
  <2> QED
    BY <2>1, <2>2, Published DEF Types
<1> QED
  BY <1>1, <1>2, <1>3, <1>4, <1>5, <1>6, <1>7, <1>8 DEF Sale

LEMMA Appending ==
    ASSUME NEW S, NEW seq \in Seq(S), NEW e \in S
    PROVE  /\ Append(seq, e) \in Seq(S) /\ Len(seq) \in Nat
           /\ Len(Append(seq, e)) = Len(seq) + 1
           /\ \A i \in 1..Len(seq) : Append(seq, e)[i] = seq[i]
  OBVIOUS

LEMMA OneMore ==
    ASSUME NEW k \in Nat, NEW S \in SUBSET (1..k)
    PROVE  S \cup {k + 1} \subseteq 1..(k + 1)
  OBVIOUS

\* Notes that have been sent stay as they are.
LEMMA NotesStay ==
    ASSUME TypeOK, NEW p \in Purchases, SaleOf(p)
    PROVE  /\ Len(sent) \in Nat /\ Len(sent') \in Nat /\ Len(sent) <= Len(sent')
           /\ \A n \in 1..Len(sent) : n \in 1..Len(sent') /\ sent'[n] = sent[n]
<1>1. sent \in Seq(Note) /\ (sent' = sent \/ \E n \in Note : sent' = Append(sent, n))
  BY DEF SaleOf, TypeOK
<1> QED
  BY <1>1, Appending

LEMMA SaleTyped ==
    ASSUME TypeOK, NEW p \in Purchases, SaleOf(p)
    PROVE  TypeOK'
<1>1. Len(sent) <= Len(sent') /\ Len(sent) \in Nat /\ Len(sent') \in Nat
  BY NotesStay
<1>2. PICK s \in Product :
        /\ store' = [store EXCEPT ![p] = s]
        /\ \/ sent' = sent /\ pending' = pending
           \/ \E n \in Note : /\ Len(sent) < MaxNotes
                             /\ sent' = Append(sent, n)
                             /\ pending' = pending \cup {Len(sent) + 1}
  BY DEF SaleOf
<1>3. store' \in [Purchases -> Product]
  BY <1>2 DEF TypeOK
<1>4. sent' \in Seq(Note) /\ Len(sent') <= MaxNotes /\ pending' \subseteq 1..Len(sent')
  <2>1. CASE sent' = sent /\ pending' = pending
    BY <2>1 DEF TypeOK
  <2>2. ASSUME NEW n \in Note, Len(sent) < MaxNotes, sent' = Append(sent, n),
               pending' = pending \cup {Len(sent) + 1}
        PROVE  sent' \in Seq(Note) /\ Len(sent') <= MaxNotes /\ pending' \subseteq 1..Len(sent')
    <3>1. sent \in Seq(Note) /\ Len(sent) <= MaxNotes /\ pending \subseteq 1..Len(sent)
      BY DEF TypeOK
    <3>2. sent' \in Seq(Note) /\ Len(sent') = Len(sent) + 1
      BY <2>2, <3>1, Appending
    <3>3. Len(sent) < MaxNotes /\ pending' = pending \cup {Len(sent) + 1}
      BY <2>2
    <3>4. pending' \subseteq 1..Len(sent')
      BY <1>1, <3>1, <3>2, <3>3, OneMore
    <3> QED
      BY <1>1, <3>2, <3>3, <3>4
  <2> QED
    BY <1>2, <2>1, <2>2
<1>5. UNCHANGED <<now, recorded, row, flag, call, strayed, backdated>>
  BY DEF SaleOf, history
<1>6. recorded' \subseteq 1..Len(sent')
  BY <1>1, <1>5 DEF TypeOK
<1>7. \A c \in Calls : "note" \in DOMAIN call'[c] => call'[c].note <= Len(sent')
  <2> SUFFICES ASSUME NEW c \in Calls, "note" \in DOMAIN call[c]
               PROVE  call[c].note <= Len(sent')
    BY <1>5
  <2>1. call[c].note \in 1..Len(sent)
    BY Shapes DEF Verifying, Arriving, Handled
  <2> QED
    BY <1>1, <2>1
<1> QED
  BY <1>3, <1>4, <1>5, <1>6, <1>7 DEF TypeOK

-----------------------------------------------------------------------------
(* What a call does *)

\* Nothing but the call c moves, with the notes as they are.
Frame(c, r) ==
    /\ call' = [call EXCEPT ![c] = r]
    /\ Shape(r)
    /\ UNCHANGED <<now, store, sent>>
    /\ pending' \subseteq pending

Ends(c) ==
    /\ Frame(c, Idle)
    /\ flag' \in BOOLEAN
    /\ UNCHANGED <<recorded, row, history>>

Verifies(c) ==
    \E p \in Purchases, end \in Time :
        /\ Frame(c, [at |-> "look", purchase |-> p, end |-> end])
        /\ backdated' \in BOOLEAN
        /\ ~backdated' => ~backdated /\ ~Contest(c, p) /\ ~Dated(p, end)
        /\ UNCHANGED <<recorded, row, flag, strayed>>

Looks(c) ==
    \E r :
        /\ Waiting(c, "look")
        /\ Frame(c, r)
        /\ r.at \in {"insert", "update"}
        /\ r.purchase = call[c].purchase /\ r.end = call[c].end
        /\ UNCHANGED <<recorded, row, flag, history>>

Receipt(c) ==
    \E r :
        /\ call[c].at \in {"insert", "update"}
        /\ Frame(c, r)
        /\ r.at = "unlock"
        /\ row' = [purchase |-> call[c].purchase, status |-> "active", end |-> call[c].end]
        /\ strayed' \in BOOLEAN
        /\ ~strayed' => ~strayed /\ ~Strays(call[c].purchase)
        /\ UNCHANGED <<recorded, flag, backdated>>

Arrives(c) ==
    \E n \in 1..Len(sent) :
        /\ ~Android(sent[n].purchase)
        /\ Frame(c, [at |-> "record", note |-> n])
        /\ UNCHANGED <<recorded, row, flag, history>>

Records(c) ==
    \E r :
        /\ Waiting(c, "record")
        /\ Frame(c, r)
        /\ r.at = "find" /\ r.note = call[c].note
        /\ call[c].note \notin recorded
        /\ recorded' = recorded \cup {call[c].note}
        /\ UNCHANGED <<row, flag, history>>

Handles(c) ==
    \E n \in 1..Len(sent) : \E r :
        /\ \/ Waiting(c, "idle") /\ Android(sent[n].purchase)
           \/ Waiting(c, "find") /\ n = call[c].note
        /\ Found(sent[n].purchase)
        /\ Frame(c, r)
        /\ r.at \in {"fetch", "write"}
        /\ r.at = "write" => sent[n].type # "renewed"
        /\ r.note = n /\ r.was = row.status /\ r.end = sent[n].end
        /\ backdated' \in BOOLEAN
        /\ ~backdated' =>
             /\ ~backdated
             /\ sent[n].type = "refundReversed" =>
                  ~Contest(c, sent[n].purchase) /\ ~Dated(sent[n].purchase, sent[n].end)
        /\ UNCHANGED <<recorded, row, flag, strayed>>

Fetches(c) ==
    \E r :
        /\ Waiting(c, "fetch")
        /\ Frame(c, r)
        /\ r.at = "write" /\ r.note = call[c].note /\ r.was = call[c].was
        /\ backdated' \in BOOLEAN
        /\ ~backdated' =>
             /\ ~backdated
             /\ ~Contest(c, sent[r.note].purchase)
             /\ ~Dated(sent[r.note].purchase, r.end)
        /\ UNCHANGED <<recorded, row, flag, strayed>>

Writes(c) ==
    \E r :
        /\ Waiting(c, "write")
        /\ Frame(c, r)
        /\ r = Idle \/ (r.at = "flag" /\ r.note = call[c].note)
        /\ row' = With(row, Columns(sent[call[c].note].type, call[c].was, call[c].end))
        /\ UNCHANGED <<recorded, flag, history>>

Steps(c) ==
    \/ Ends(c) \/ Verifies(c) \/ Looks(c) \/ Receipt(c)
    \/ Arrives(c) \/ Records(c) \/ Handles(c) \/ Fetches(c) \/ Writes(c)

LEMMA NoteTyped ==
    ASSUME TypeOK, NEW n \in 1..Len(sent)
    PROVE  /\ sent[n] \in Note /\ n \in Notes
           /\ sent[n].purchase \in Purchases /\ sent[n].type \in Types /\ sent[n].end \in Time
<1>1. sent[n] \in Note /\ n \in Notes
  BY DEF TypeOK, Notes
<1> QED
  BY <1>1 DEF Note

LEMMA Returned ==
    ASSUME TypeOK, NEW c \in Calls, Return(c), pending' \subseteq pending,
           UNCHANGED <<now, store, sent, recorded, row, history>>, flag' \in BOOLEAN
    PROVE  Steps(c)
<1>1. Frame(c, Idle)
  BY DEF Frame, Return, Shape
<1> QED
  BY <1>1 DEF Steps, Ends

\* A handler begins or ends at once.
LEMMA HandleSteps ==
    ASSUME TypeOK, NEW c \in Calls, NEW n \in 1..Len(sent), Handle(c, n),
           \/ Waiting(c, "idle") /\ Android(sent[n].purchase)
           \/ Waiting(c, "find") /\ n = call[c].note,
           UNCHANGED <<now, store, sent, recorded, row, flag, strayed>>
    PROVE  Steps(c)
<1> DEFINE p == sent[n].purchase
           type == sent[n].type
           at == IF type = "renewed" THEN "fetch" ELSE "write"
           r == [at |-> at, note |-> n, was |-> row.status, end |-> sent[n].end]
<1>1. CASE Found(p) /\ (type = "refundReversed" => now < sent[n].end)
  <2>1. row \in Row
    BY <1>1 DEF Found, TypeOK
  <2>2. row.status \in Status /\ sent[n].end \in Time /\ n \in Notes
    BY <2>1, NoteTyped DEF Row
  <2>3. r \in Handling /\ at \in {"fetch", "write"} /\ (at = "write" => type # "renewed")
    BY <2>2 DEF Handling
  <2>4. /\ call' = [call EXCEPT ![c] = r]
        /\ pending' = pending
    BY <1>1 DEF Handle
  <2>5. backdated' = \/ backdated
                     \/ type = "refundReversed" /\ (Contest(c, p) \/ Dated(p, sent[n].end))
    BY <1>1 DEF Handle
  <2>6. r.at = at /\ r.note = n /\ r.was = row.status /\ r.end = sent[n].end
    OBVIOUS
  <2>7. backdated \in BOOLEAN
    BY DEF TypeOK
  <2>8. /\ backdated' \in BOOLEAN
        /\ ~backdated' => /\ ~backdated
                          /\ type = "refundReversed" => ~Contest(c, p) /\ ~Dated(p, sent[n].end)
    BY <2>5, <2>7
  <2> HIDE DEF r, at
  <2>9. Frame(c, r)
    BY <2>3, <2>4, <2>6 DEF Frame, Shape
  <2> QED
    BY <1>1, <2>3, <2>6, <2>8, <2>9 DEF Steps, Handles
<1>2. CASE ~(Found(p) /\ (type = "refundReversed" => now < sent[n].end))
  <2>1. Acknowledge(n) /\ Return(c) /\ UNCHANGED backdated
    BY <1>2 DEF Handle
  <2>2. flag' \in BOOLEAN
    BY DEF TypeOK
  <2> QED
    BY <2>1, <2>2, Returned DEF Acknowledge, history
<1> QED
  BY <1>1, <1>2

LEMMA VerifiedSteps ==
    ASSUME TypeOK, NEW c \in Calls, NEW p \in Purchases, NEW end \in Time, Verified(c, p, end)
    PROVE  Steps(c)
<1> DEFINE r == [at |-> "look", purchase |-> p, end |-> end]
<1>1. r \in Verification
  BY DEF Verification
<1>2. Frame(c, r)
  BY <1>1 DEF Verified, outside, Frame, Shape
<1>3. /\ backdated' \in BOOLEAN
      /\ ~backdated' => ~backdated /\ ~Contest(c, p) /\ ~Dated(p, end)
  BY DEF Verified, TypeOK
<1>4. UNCHANGED <<recorded, row, flag, strayed>>
  BY DEF Verified
<1> QED
  BY <1>2, <1>3, <1>4 DEF Steps, Verifies

LEMMA StartSteps ==
    ASSUME TypeOK, NEW c \in Calls, Start(c)
    PROVE  Steps(c)
<1>1. \A p \in Purchases : store[p].end \in Time
  BY DEF TypeOK, Product
<1>2. ASSUME NEW p \in Purchases, AskGoogle(c, p) \/ AskApple(c, p)
      PROVE  Steps(c)
  BY <1>1, <1>2, VerifiedSteps DEF AskGoogle, AskApple
<1>3. ASSUME NEW p \in Purchases, NEW end \in Time, ReadTransaction(c, p, end)
      PROVE  Steps(c)
  BY <1>3, VerifiedSteps DEF ReadTransaction
<1>4. ASSUME NEW n \in pending, TakeMessage(c, n)
      PROVE  Steps(c)
  <2>1. n \in 1..Len(sent)
    BY DEF TypeOK
  <2> QED
    BY <1>4, <2>1, HandleSteps DEF TakeMessage, outside
<1>5. ASSUME NEW n \in pending, TakeWebhook(c, n)
      PROVE  Steps(c)
  <2>1. n \in 1..Len(sent)
    BY DEF TypeOK
  <2>2. CASE n \in recorded
    <3>1. call[c] = Idle
      BY <1>5, Shapes DEF TakeWebhook, Waiting, Verifying, Arriving, Handled
    <3>2. Frame(c, Idle)
      BY <1>5, <2>2, <3>1 DEF TakeWebhook, Acknowledge, Frame, Shape, outside, TypeOK
    <3>3. flag' \in BOOLEAN
      BY <1>5 DEF TakeWebhook, TypeOK
    <3> QED
      BY <1>5, <3>2, <3>3 DEF Steps, Ends, TakeWebhook
  <2>3. CASE n \notin recorded
    <3> DEFINE r == [at |-> "record", note |-> n]
    <3>1. r \in Webhook
      BY <2>1, NoteTyped DEF Webhook
    <3>2. call' = [call EXCEPT ![c] = r]
      BY <1>5, <2>3 DEF TakeWebhook
    <3>3. Frame(c, r)
      BY <1>5, <2>1, <2>3, <3>1, <3>2 DEF TakeWebhook, Frame, Shape, outside
    <3> QED
      BY <1>5, <2>1, <3>3 DEF Steps, Arrives, TakeWebhook
  <2> QED
    BY <2>2, <2>3
<1> QED
  BY <1>2, <1>3, <1>4, <1>5 DEF Start

LEMMA ContinueSteps ==
    ASSUME TypeOK, NEW c \in Calls, Continue(c)
    PROVE  Steps(c)
<1> USE DEF Waiting
<1>1. CASE LookUp(c)
  <2>1. PICK at \in {"insert", "update"} : Goto(c, at)
    BY <1>1 DEF LookUp
  <2>2. call[c].at \in Verifying /\ at \in Verifying
    BY <1>1 DEF LookUp, Verifying
  <2>3. PICK r : /\ call' = [call EXCEPT ![c] = r] /\ Shape(r) /\ r.at = at
                 /\ r.purchase = call[c].purchase /\ r.end = call[c].end
    BY <2>1, <2>2, Moves
  <2>4. Frame(c, r)
    BY <1>1, <2>3 DEF LookUp, Frame, outside
  <2> QED
    BY <1>1, <2>3, <2>4 DEF Steps, Looks, LookUp
<1>2. CASE WriteReceipt(c)
  <2>1. CASE Waiting(c, "insert") /\ row # NoRow
    <3>1. flag' \in BOOLEAN
      BY <1>2 DEF WriteReceipt, TypeOK
    <3> QED
      BY <1>2, <2>1, <3>1, Returned DEF WriteReceipt, outside, history
  <2>2. CASE ~(Waiting(c, "insert") /\ row # NoRow)
    <3>1. call[c].at \in Verifying /\ "unlock" \in Verifying
      BY <1>2 DEF WriteReceipt, Verifying
    <3>2. Goto(c, "unlock")
      BY <1>2, <2>2 DEF WriteReceipt
    <3>3. PICK r : call' = [call EXCEPT ![c] = r] /\ Shape(r) /\ r.at = "unlock"
      BY <3>1, <3>2, Moves
    <3>4. Frame(c, r)
      BY <1>2, <3>3 DEF WriteReceipt, Frame, outside
    <3>5. /\ strayed' \in BOOLEAN
          /\ ~strayed' => ~strayed /\ ~Strays(call[c].purchase)
      BY <1>2, <2>2 DEF WriteReceipt, TypeOK
    <3>6. row' = [purchase |-> call[c].purchase, status |-> "active", end |-> call[c].end]
      BY <1>2, <2>2 DEF WriteReceipt
    <3>7. call[c].at \in {"insert", "update"} /\ UNCHANGED <<recorded, flag, backdated>>
      BY <1>2 DEF WriteReceipt
    <3> QED
      BY <3>3, <3>4, <3>5, <3>6, <3>7 DEF Steps, Receipt
  <2> QED
    BY <2>1, <2>2
<1>3. CASE Unlock(c)
  <2>1. flag' \in BOOLEAN
    BY <1>3 DEF Unlock
  <2> QED
    BY <1>3, <2>1, Returned DEF Unlock, outside
<1>4. CASE Record(c)
  <2>1. call[c].at \in Arriving /\ "find" \in Arriving
    BY <1>4 DEF Record, Arriving
  <2>2. CASE call[c].note \in recorded
    <3>1. flag' \in BOOLEAN /\ UNCHANGED recorded
      BY <1>4, <2>2 DEF Record, TypeOK
    <3> QED
      BY <1>4, <2>2, <3>1, Returned DEF Record, Acknowledge, outside
  <2>3. CASE call[c].note \notin recorded
    <3>1. Goto(c, "find") /\ pending' = pending
      BY <1>4, <2>3 DEF Record
    <3>2. PICK r : call' = [call EXCEPT ![c] = r] /\ Shape(r)
                   /\ r.at = "find" /\ r.note = call[c].note
      BY <2>1, <3>1, Moves
    <3>3. Frame(c, r)
      BY <1>4, <3>1, <3>2 DEF Record, Frame, outside
    <3> QED
      BY <1>4, <2>3, <3>2, <3>3 DEF Steps, Records, Record
  <2> QED
    BY <2>2, <2>3
<1>5. CASE Process(c)
  <2>1. call[c].note \in 1..Len(sent)
    BY <1>5, Shapes DEF Process, Arriving
  <2> QED
    BY <1>5, <2>1, HandleSteps DEF Process, outside
<1>6. CASE Fetch(c)
  <2> DEFINE r == [at |-> "write", note |-> call[c].note, was |-> call[c].was,
                   end |-> store[sent[call[c].note].purchase].end]
  <2>1. call[c] \in Handling /\ call[c].note \in 1..Len(sent)
    BY <1>6, Shapes DEF Fetch, Handled
  <2>2. store[sent[call[c].note].purchase].end \in Time
    BY <2>1, NoteTyped DEF TypeOK, Product
  <2>3. r \in Handling
    BY <2>1, <2>2 DEF Handling
  <2>4. /\ call' = [call EXCEPT ![c] = r]
        /\ Waiting(c, "fetch")
        /\ backdated' = (backdated \/ Contest(c, sent[call[c].note].purchase))
        /\ UNCHANGED <<now, store, sent, pending, recorded, row, flag, strayed>>
    BY <1>6 DEF Fetch, outside
  <2>5. /\ r.at = "write" /\ r.note = call[c].note /\ r.was = call[c].was
        /\ r.end = store[sent[call[c].note].purchase].end
    OBVIOUS
  <2> HIDE DEF r
  <2>6. Frame(c, r)
    BY <2>1, <2>3, <2>4, <2>5 DEF Frame, Shape
  <2>7. /\ backdated' \in BOOLEAN
        /\ ~backdated' => ~backdated /\ ~Contest(c, sent[r.note].purchase)
    BY <2>4, <2>5 DEF TypeOK
  <2>8. ~Dated(sent[r.note].purchase, r.end)
    BY <2>5 DEF Dated
  <2> QED
    BY <2>4, <2>5, <2>6, <2>7, <2>8 DEF Steps, Fetches
<1>7. CASE FallBack(c)
  <2>1. call[c].at \in Handled /\ "write" \in Handled /\ Goto(c, "write")
    BY <1>7 DEF FallBack, Handled
  <2>2. PICK r : /\ call' = [call EXCEPT ![c] = r] /\ Shape(r) /\ r.at = "write"
                 /\ r.note = call[c].note /\ r.was = call[c].was /\ r.end = call[c].end
    BY <2>1, Moves
  <2>3. Frame(c, r)
    BY <1>7, <2>2 DEF FallBack, Frame, outside
  <2>4. /\ backdated' \in BOOLEAN
        /\ ~backdated' => /\ ~backdated
                          /\ ~Contest(c, sent[r.note].purchase)
                          /\ ~Dated(sent[r.note].purchase, r.end)
    BY <1>7, <2>2 DEF FallBack, TypeOK
  <2> QED
    BY <1>7, <2>2, <2>3, <2>4 DEF Steps, Fetches, FallBack
<1>8. CASE Write(c)
  <2>1. call[c].at \in Handled /\ "flag" \in Handled
    BY <1>8 DEF Write, Handled
  <2>2. /\ Waiting(c, "write")
        /\ row' = With(row, Columns(sent[call[c].note].type, call[c].was, call[c].end))
        /\ UNCHANGED <<recorded, flag, history>>
    BY <1>8 DEF Write
  <2>3. (Goto(c, "flag") /\ UNCHANGED pending) \/ (Return(c) /\ Acknowledge(call[c].note))
    BY <1>8 DEF Write
  <2>4. \E r : Frame(c, r) /\ (r = Idle \/ (r.at = "flag" /\ r.note = call[c].note))
    <3>1. UNCHANGED <<now, store, sent>>
      BY <1>8 DEF Write, outside
    <3>2. CASE Goto(c, "flag") /\ UNCHANGED pending
      <4>1. PICK r : call' = [call EXCEPT ![c] = r] /\ Shape(r)
                     /\ r.at = "flag" /\ r.note = call[c].note
        BY <2>1, <3>2, Moves
      <4> QED
        BY <3>1, <3>2, <4>1 DEF Frame
    <3>3. CASE Return(c) /\ Acknowledge(call[c].note)
      BY <3>1, <3>3 DEF Frame, Return, Acknowledge, Shape
    <3> QED
      BY <2>3, <3>2, <3>3
  <2> QED
    BY <2>2, <2>4 DEF Steps, Writes
<1>9. CASE SetFlag(c)
  <2>1. flag' \in BOOLEAN
    BY <1>9 DEF SetFlag
  <2> QED
    BY <1>9, <2>1, Returned DEF SetFlag, Acknowledge, outside
<1>10. CASE Abort(c)
  <2>1. flag' \in BOOLEAN
    BY <1>10 DEF Abort, TypeOK
  <2>2. pending' \subseteq pending
    BY <1>10 DEF Abort, Acknowledge
  <2>3. Return(c) /\ UNCHANGED <<now, store, sent, recorded, row, history>>
    BY <1>10 DEF Abort, outside
  <2> QED
    BY <2>1, <2>2, <2>3, Returned
<1> QED
  BY <1>1, <1>2, <1>3, <1>4, <1>5, <1>6, <1>7, <1>8, <1>9, <1>10 DEF Continue

\* Every step is a sale, the clock's, a call's or none.
LEMMA NextSteps ==
    ASSUME TypeOK, [Next]_vars
    PROVE  \/ UNCHANGED vars
           \/ Tick
           \/ \E p \in Purchases : SaleOf(p)
           \/ \E c \in Calls : Steps(c)
  BY Sales, StartSteps, ContinueSteps DEF Next

-----------------------------------------------------------------------------
(* Type correctness *)

TypeInv ==
    /\ TypeOK
    /\ \A c \in Calls : call[c].at \in Handled => row # NoRow

DateTypes == {"renewed", "refundReversed"}

\* What a handler writes, by the type of its notification.
LEMMA WrittenRow ==
    ASSUME NEW r \in Row, NEW type \in Types, NEW was \in Status, NEW end \in Time
    PROVE  LET w == With(r, Columns(type, was, end)) IN
           /\ w \in Row
           /\ w.purchase = r.purchase
           /\ w.end = IF type \in DateTypes THEN end ELSE r.end
           /\ w.status = IF type = "autoOn" THEN was ELSE Columns(type, "active", end).status
<1> DEFINE w == With(r, Columns(type, was, end))
<1>1. r = [purchase |-> r.purchase, status |-> r.status, end |-> r.end]
      /\ DOMAIN r = {"purchase", "status", "end"}
  BY DEF Row
<1>2. CASE type \in DateTypes
  <2>1. Columns(type, was, end) = [status |-> "active", end |-> end]
        /\ Columns(type, "active", end) = [status |-> "active", end |-> end]
    BY <1>2 DEF Columns, DateTypes
  <2>2. w = [k \in {"purchase", "status", "end"} |->
                IF k \in {"status", "end"} THEN [status |-> "active", end |-> end][k] ELSE r[k]]
    BY <1>1, <2>1 DEF With
  <2>3. w = [purchase |-> r.purchase, status |-> "active", end |-> end]
    BY <2>2
  <2> QED
    BY <1>2, <2>1, <2>3 DEF Row, Status, DateTypes
<1>3. ASSUME NEW s \in Status, Columns(type, was, end) = [status |-> s],
             s = IF type = "autoOn" THEN was ELSE Columns(type, "active", end).status,
             type \notin DateTypes
      PROVE  /\ w \in Row
             /\ w.purchase = r.purchase
             /\ w.end = r.end
             /\ w.status = s
  <2>1. w = [k \in {"purchase", "status", "end"} |->
                IF k \in {"status"} THEN [status |-> s][k] ELSE r[k]]
    BY <1>1, <1>3 DEF With
  <2>2. w = [purchase |-> r.purchase, status |-> s, end |-> r.end]
    BY <2>1
  <2> QED
    BY <2>2 DEF Row
<1>4. ASSUME type \notin DateTypes
      PROVE  \E s \in Status :
                /\ Columns(type, was, end) = [status |-> s]
                /\ s = IF type = "autoOn" THEN was ELSE Columns(type, "active", end).status
  <2>1. CASE type = "autoOn"
    BY <2>1 DEF Columns
  <2>2. CASE type = "autoOff"
    BY <2>2 DEF Columns, Status
  <2>3. CASE type = "grace"
    BY <2>3 DEF Columns, Status
  <2>4. CASE type = "hold"
    BY <2>4 DEF Columns, Status
  <2>5. CASE type = "expired"
    BY <2>5 DEF Columns, Status
  <2>6. CASE type = "revoked"
    BY <2>6 DEF Columns, Status
  <2> QED
    BY <1>4, <2>1, <2>2, <2>3, <2>4, <2>5, <2>6 DEF Types, DateTypes
<1>5. CASE type \notin DateTypes
  <2>1. PICK s \in Status :
                /\ Columns(type, was, end) = [status |-> s]
                /\ s = IF type = "autoOn" THEN was ELSE Columns(type, "active", end).status
    BY <1>4, <1>5
  <2>2. /\ w \in Row
        /\ w.purchase = r.purchase
        /\ w.end = r.end
        /\ w.status = s
    BY <1>3, <1>5, <2>1
  <2> HIDE DEF w
  <2>3. w.status = IF type = "autoOn" THEN was ELSE Columns(type, "active", end).status
    BY <2>1, <2>2
  <2>4. w.end = IF type \in DateTypes THEN end ELSE r.end
    BY <1>5, <2>2
  <2> QED
    BY <2>2, <2>3, <2>4 DEF w
<1> QED
  BY <1>2, <1>5

\* The status does not depend on the date.
LEMMA StatusByType ==
    ASSUME NEW type \in Types, NEW e, NEW f
    PROVE  Columns(type, "active", e).status = Columns(type, "active", f).status
<1>1. CASE type \in DateTypes
  BY <1>1 DEF Columns, DateTypes
<1>2. CASE type = "autoOn"
  BY <1>2 DEF Columns
<1>3. CASE type = "autoOff"
  BY <1>3 DEF Columns
<1>4. CASE type = "grace"
  BY <1>4 DEF Columns
<1>5. CASE type = "hold"
  BY <1>5 DEF Columns
<1>6. CASE type \in {"expired", "revoked"}
  BY <1>6 DEF Columns
<1> QED
  BY <1>1, <1>2, <1>3, <1>4, <1>5, <1>6 DEF Types, DateTypes

\* The row a handler finds in its hands when it writes.
LEMMA Writing ==
    ASSUME TypeInv, NEW c \in Calls, Waiting(c, "write")
    PROVE  /\ call[c] \in Handling /\ call[c].note \in 1..Len(sent)
           /\ call[c].was \in Status /\ call[c].end \in Time
           /\ sent[call[c].note].type \in Types
           /\ row \in Row
<1>1. call[c] \in Handling /\ call[c].note \in 1..Len(sent)
  BY Shapes DEF Waiting, Handled, TypeInv
<1>2. row \in Row
  BY DEF TypeInv, TypeOK, Waiting, Handled
<1>3. sent[call[c].note].type \in Types
  BY <1>1, NoteTyped DEF TypeInv
<1> QED
  BY <1>1, <1>2, <1>3 DEF Handling

\* A call's step is well-typed if what it writes is.
LEMMA FrameTyped ==
    ASSUME TypeInv, NEW c \in Calls, NEW r, Frame(c, r),
           recorded' \subseteq 1..Len(sent), row' \in Row \cup {NoRow}, row # NoRow => row' # NoRow,
           flag' \in BOOLEAN, strayed' \in BOOLEAN, backdated' \in BOOLEAN,
           r.at \in Handled => row' # NoRow
    PROVE  TypeInv'
<1> USE DEF TypeInv
<1>1. /\ call' \in [Calls -> {Idle} \cup Verification \cup Webhook \cup Handling]
      /\ \A d \in Calls : "note" \in DOMAIN call'[d] => call'[d].note <= Len(sent')
  BY CallsTyped DEF Frame
<1>2. /\ now' \in 0..MaxTime /\ store' \in [Purchases -> Product]
      /\ sent' \in Seq(Note) /\ Len(sent') <= MaxNotes
      /\ pending' \subseteq 1..Len(sent') /\ recorded' \subseteq 1..Len(sent')
  BY DEF Frame, TypeOK
<1>3. TypeOK'
  BY <1>1, <1>2 DEF TypeOK
<1>4. \A d \in Calls : call'[d].at \in Handled => row' # NoRow
  BY DEF Frame, TypeOK
<1> QED
  BY <1>3, <1>4

LEMMA TypeInit == Init => TypeInv
<1> SUFFICES ASSUME Init PROVE TypeInv
    OBVIOUS
<1>1. call \in [Calls -> {Idle}] /\ \A c \in Calls : call[c] = Idle
  BY DEF Init
<1>2. \A c \in Calls : "note" \notin DOMAIN call[c] /\ call[c].at = "idle"
  BY <1>1 DEF Idle
<1>3. store \in [Purchases -> Product]
  <2> DEFINE s == [standing |-> "unsold", end |-> 0, auto |-> FALSE]
  <2>1. s \in Product
    BY DEF Product, Standing, Time
  <2>2. store = [p \in Purchases |-> s]
    BY DEF Init
  <2> HIDE DEF s
  <2> QED
    BY <2>1, <2>2
<1>4. sent = <<>> /\ pending = {} /\ recorded = {} /\ row = NoRow /\ now = 0
  BY DEF Init
<1>5. flag \in BOOLEAN /\ strayed \in BOOLEAN /\ backdated \in BOOLEAN
  BY DEF Init
<1>6. sent \in Seq(Note) /\ Len(sent) = 0
  BY <1>4
<1>7. call \in [Calls -> {Idle} \cup Verification \cup Webhook \cup Handling]
  BY <1>1
<1> QED
  BY <1>2, <1>3, <1>4, <1>5, <1>6, <1>7 DEF TypeInv, TypeOK, Handled

LEMMA TypeStep == TypeInv /\ [Next]_vars => TypeInv'
<1> SUFFICES ASSUME TypeInv, [Next]_vars PROVE TypeInv'
    OBVIOUS
<1> TypeOK
  BY DEF TypeInv
<1>1. CASE UNCHANGED vars
  BY <1>1 DEF TypeInv, TypeOK, vars, history, Note, Product, Row, Verification, Webhook, Handling
<1>2. CASE Tick
  BY <1>2 DEF TypeInv, TypeOK, Tick, history
<1>3. ASSUME NEW p \in Purchases, SaleOf(p)
      PROVE  TypeInv'
  <2>1. TypeOK'
    BY <1>3, SaleTyped
  <2>2. call' = call /\ row' = row
    BY <1>3 DEF SaleOf
  <2> QED
    BY <2>1, <2>2 DEF TypeInv
<1>4. ASSUME NEW c \in Calls, Steps(c)
      PROVE  TypeInv'
  <2> recorded \subseteq 1..Len(sent) /\ row \in Row \cup {NoRow} /\ Len(sent) \in Nat
    BY DEF TypeOK
  <2> flag \in BOOLEAN /\ strayed \in BOOLEAN /\ backdated \in BOOLEAN
    BY DEF TypeOK
  <2>1. CASE Ends(c)
    BY <2>1, FrameTyped DEF Ends, Idle, Handled, history
  <2>2. CASE Verifies(c)
    <3>1. PICK p \in Purchases, end \in Time : Frame(c, [at |-> "look", purchase |-> p, end |-> end])
      BY <2>2 DEF Verifies
    <3>2. backdated' \in BOOLEAN /\ UNCHANGED <<recorded, row, flag, strayed>>
      BY <2>2 DEF Verifies
    <3>3. [at |-> "look", purchase |-> p, end |-> end].at \notin Handled
      BY DEF Handled
    <3> QED
      BY <3>1, <3>2, <3>3, FrameTyped
  <2>3. CASE Looks(c)
    <3>1. PICK r : Frame(c, r) /\ r.at \in {"insert", "update"} /\ UNCHANGED <<recorded, row, flag, history>>
      BY <2>3 DEF Looks
    <3> QED
      BY <3>1, FrameTyped DEF Handled, history
  <2>4. CASE Receipt(c)
    <3>1. PICK r : Frame(c, r) /\ r.at = "unlock"
      BY <2>4 DEF Receipt
    <3>2. call[c] \in Verification
      BY <2>4, Shapes DEF Receipt, Verifying
    <3>3. call[c].purchase \in Purchases /\ call[c].end \in Time
      BY <3>2 DEF Verification
    <3>4. row' = [purchase |-> call[c].purchase, status |-> "active", end |-> call[c].end]
      BY <2>4 DEF Receipt
    <3>5. row' \in Row
      BY <3>3, <3>4 DEF Row, Status
    <3>6. strayed' \in BOOLEAN /\ UNCHANGED <<recorded, flag, backdated>>
      BY <2>4 DEF Receipt
    <3> QED
      BY <3>1, <3>5, <3>6, FrameTyped DEF Handled
  <2>5. CASE Arrives(c)
    <3>1. PICK n \in 1..Len(sent) : Frame(c, [at |-> "record", note |-> n])
      BY <2>5 DEF Arrives
    <3>2. UNCHANGED <<recorded, row, flag, history>>
      BY <2>5 DEF Arrives
    <3>3. [at |-> "record", note |-> n].at \notin Handled
      BY DEF Handled
    <3> QED
      BY <3>1, <3>2, <3>3, FrameTyped DEF history
  <2>6. CASE Records(c)
    <3>1. PICK r : Frame(c, r) /\ r.at = "find"
      BY <2>6 DEF Records
    <3>2. call[c].note \in 1..Len(sent)
      BY <2>6, Shapes DEF Records, Waiting, Arriving
    <3>3. recorded' = recorded \cup {call[c].note} /\ UNCHANGED <<row, flag, history>>
      BY <2>6 DEF Records
    <3> QED
      BY <3>1, <3>2, <3>3, FrameTyped DEF Handled, history
  <2>7. CASE Handles(c)
    <3>1. PICK n \in 1..Len(sent) : \E r : Frame(c, r) /\ Found(sent[n].purchase)
      BY <2>7 DEF Handles
    <3>2. backdated' \in BOOLEAN /\ UNCHANGED <<recorded, row, flag, strayed>>
      BY <2>7 DEF Handles
    <3> QED
      BY <3>1, <3>2, FrameTyped DEF Found
  <2>8. CASE Fetches(c)
    <3>1. PICK r : Frame(c, r)
      BY <2>8 DEF Fetches
    <3>2. backdated' \in BOOLEAN /\ UNCHANGED <<recorded, row, flag, strayed>>
      BY <2>8 DEF Fetches
    <3>3. row # NoRow
      BY <2>8 DEF Fetches, Waiting, Handled, TypeInv
    <3> QED
      BY <3>1, <3>2, <3>3, FrameTyped
  <2>9. CASE Writes(c)
    <3>1. PICK r : Frame(c, r)
      BY <2>9 DEF Writes
    <3>2. UNCHANGED <<recorded, flag, history>>
      BY <2>9 DEF Writes
    <3>3. row' = With(row, Columns(sent[call[c].note].type, call[c].was, call[c].end))
      BY <2>9 DEF Writes
    <3>4. row' \in Row
      BY <2>9, <3>3, Writing, WrittenRow DEF Writes
    <3> QED
      BY <3>1, <3>2, <3>4, FrameTyped DEF history
  <2> QED
    BY <1>4, <2>1, <2>2, <2>3, <2>4, <2>5, <2>6, <2>7, <2>8, <2>9 DEF Steps
<1> QED
  BY <1>1, <1>2, <1>3, <1>4, NextSteps

\* Whatever comes twice or late, the row and the calls are well-typed.
THEOREM TypeCorrect == Spec => []TypeOK
<1>1. Spec => []TypeInv
  BY TypeInit, TypeStep, PTL DEF Spec
<1>2. TypeInv => TypeOK
  BY DEF TypeInv
<1> QED
  BY <1>1, <1>2, PTL

-----------------------------------------------------------------------------
(* The invariants *)

\* Only Apple's notifications are recorded, and each before it is processed.
OnceInv ==
    /\ \A n \in recorded : ~Android(sent[n].purchase)
    /\ \A c \in Calls : call[c].at \in Arriving => ~Android(sent[call[c].note].purchase)
    /\ \A c \in Calls :
          /\ call[c].at \in {"find", "fetch", "write", "flag"}
          /\ ~Android(sent[call[c].note].purchase)
          => call[c].note \in recorded
    /\ TakenOnce

\* A notification of p has given the row the status st.
EndedBy(p, st) == \E n \in 1..Len(sent) : sent[n].purchase = p /\ StatusOf(n) = st

\* But for strays, what a handler has read of the row is still of its purchase.
RowInv ==
    ~strayed =>
        /\ row # NoRow /\ row.status # "active" => EndedBy(row.purchase, row.status)
        /\ \A c \in Calls : call[c].at \in {"fetch", "write"} =>
              /\ row.purchase = sent[call[c].note].purchase
              /\ call[c].was # "active" => EndedBy(row.purchase, call[c].was)

\* Google has revoked p: its date may have been moved back.
Lost(p) == Android(p) /\ Sold(p, {"revoked"})

\* But for the two races, the row has a date that the store has given, what a call is about
\* to write is not earlier, and no other call holds a date for the same purchase.
EndInv ==
    /\ \A p \in Purchases : store[p].standing = "unsold" => store[p].end = 0
    /\ ~backdated /\ ~strayed =>
         /\ \A p \in Purchases : ~Lost(p) =>
              /\ Found(p) => row.end <= store[p].end
              /\ \A c \in Calls : HoldsDate(c, p) =>
                    call[c].end <= store[p].end /\ (Found(p) => row.end <= call[c].end)
         /\ \A p \in Purchases, c, d \in Calls : HoldsDate(c, p) /\ HoldsDate(d, p) => c = d

LEMMA InvInit == Init => OnceInv /\ RowInv /\ EndInv
<1> SUFFICES ASSUME Init PROVE OnceInv /\ RowInv /\ EndInv
    OBVIOUS
<1>1. \A c \in Calls : call[c].at = "idle"
  BY DEF Init, Idle
<1>2. recorded = {} /\ row = NoRow
  BY DEF Init
<1>3. \A p \in Purchases : store[p].standing = "unsold" => store[p].end = 0
  BY DEF Init
<1>4. OnceInv
  BY <1>1, <1>2 DEF OnceInv, TakenOnce, Arriving
<1>5. RowInv
  BY <1>1, <1>2 DEF RowInv
<1>6. EndInv
  BY <1>1, <1>2, <1>3 DEF EndInv, HoldsDate, Waiting, Found
<1> QED
  BY <1>4, <1>5, <1>6

\* In a call's step the others stay as they are.
LEMMA Others ==
    ASSUME TypeOK, NEW c \in Calls, NEW r, Frame(c, r)
    PROVE  /\ call'[c] = r
           /\ \A d \in Calls : d # c => call'[d] = call[d]
           /\ now' = now /\ store' = store /\ sent' = sent
  BY DEF Frame, TypeOK

-----------------------------------------------------------------------------
(* A notification is taken once *)

LEMMA OnceStep == TypeInv /\ OnceInv /\ [Next]_vars => OnceInv'
<1> SUFFICES ASSUME TypeInv, OnceInv, [Next]_vars PROVE OnceInv'
    OBVIOUS
<1> TypeOK /\ recorded \subseteq 1..Len(sent)
  BY DEF TypeInv, TypeOK
<1> USE DEF OnceInv, TakenOnce, Processing
<1>1. CASE UNCHANGED vars
  BY <1>1 DEF vars, Android
<1>2. CASE Tick
  BY <1>2 DEF Tick, Android
<1>3. ASSUME NEW p \in Purchases, SaleOf(p)
      PROVE  OnceInv'
  <2>1. \A n \in 1..Len(sent) : sent'[n] = sent[n]
    BY <1>3, NotesStay
  <2>2. recorded' = recorded /\ call' = call
    BY <1>3 DEF SaleOf
  <2>3. \A c \in Calls : call[c].at \in {"record", "find", "fetch", "write", "flag"} =>
          call[c].note \in 1..Len(sent)
    BY Shapes DEF Arriving, Handled
  <2> QED
    BY <2>1, <2>2, <2>3 DEF Android, Arriving
<1>4. ASSUME NEW c \in Calls, Steps(c)
      PROVE  OnceInv'
  \* The step neither records nor takes up a notification of Apple's.
  <2>1. ASSUME NEW r, Frame(c, r), recorded' = recorded,
               \/ r.at \notin {"record", "find", "fetch", "write", "flag"}
               \/ r.at = "record" /\ ~Android(sent[r.note].purchase)
               \/ r.at \in Handled /\ Android(sent[r.note].purchase)
               \/ /\ r.at \in Handled /\ r.note = call[c].note
                  /\ call[c].at \in {"find", "fetch", "write", "flag"}
        PROVE  OnceInv'
    <3>1. /\ call'[c] = r /\ sent' = sent
          /\ \A d \in Calls : d # c => call'[d] = call[d]
      BY <2>1, Others
    <3>2. r.at \in Arriving => ~Android(sent[r.note].purchase)
      BY <2>1 DEF Arriving, Handled
    <3>3. r.at \in {"find", "fetch", "write", "flag"} /\ ~Android(sent[r.note].purchase)
            => /\ r.note = call[c].note /\ r.note \in recorded
               /\ call[c].at \in {"find", "fetch", "write", "flag"}
      BY <2>1 DEF Handled
    <3> QED
      BY <2>1, <3>1, <3>2, <3>3 DEF Android
  <2>2. CASE Ends(c)
    BY <2>1, <2>2 DEF Ends, Idle
  <2>3. CASE Verifies(c)
    <3>1. PICK p \in Purchases, end \in Time : Frame(c, [at |-> "look", purchase |-> p, end |-> end])
      BY <2>3 DEF Verifies
    <3>2. recorded' = recorded
      BY <2>3 DEF Verifies
    <3> QED
      BY <2>1, <3>1, <3>2
  <2>4. CASE Looks(c)
    BY <2>1, <2>4 DEF Looks
  <2>5. CASE Receipt(c)
    <3>1. PICK r : Frame(c, r) /\ r.at = "unlock"
      BY <2>5 DEF Receipt
    <3>2. recorded' = recorded
      BY <2>5 DEF Receipt
    <3> QED
      BY <2>1, <3>1, <3>2
  <2>6. CASE Arrives(c)
    BY <2>1, <2>6 DEF Arrives
  <2>7. CASE Records(c)
    <3>1. PICK r : Frame(c, r) /\ r.at = "find" /\ r.note = call[c].note
      BY <2>7 DEF Records
    <3>2. /\ call'[c] = r /\ sent' = sent
          /\ \A d \in Calls : d # c => call'[d] = call[d]
      BY <3>1, Others
    <3>3. /\ call[c].note \notin recorded
          /\ recorded' = recorded \cup {call[c].note}
          /\ call[c].at = "record"
      BY <2>7 DEF Records, Waiting
    <3>4. ~Android(sent[call[c].note].purchase)
      BY <3>3 DEF Arriving
    <3>5. \A d \in Calls : d # c /\ call[d].at \in {"find", "fetch", "write", "flag"}
            => call[d].note # call[c].note
      BY <3>3, <3>4
    <3> QED
      BY <3>1, <3>2, <3>3, <3>4, <3>5 DEF Android, Arriving
  <2>8. CASE Handles(c)
    <3>1. PICK n, r :
            /\ n \in 1..Len(sent)
            /\ \/ Waiting(c, "idle") /\ Android(sent[n].purchase)
               \/ Waiting(c, "find") /\ n = call[c].note
            /\ Frame(c, r)
            /\ r.at \in {"fetch", "write"} /\ r.note = n
            /\ UNCHANGED <<recorded, row, flag, strayed>>
      BY <2>8 DEF Handles
    <3> QED
      BY <2>1, <3>1 DEF Handled, Waiting
  <2>9. CASE Fetches(c)
    <3>1. PICK r : /\ Waiting(c, "fetch") /\ Frame(c, r)
                   /\ r.at = "write" /\ r.note = call[c].note
                   /\ UNCHANGED <<recorded, row, flag, strayed>>
      BY <2>9 DEF Fetches
    <3> QED
      BY <2>1, <3>1 DEF Handled, Waiting
  <2>10. CASE Writes(c)
    <3>1. PICK r : /\ Waiting(c, "write") /\ Frame(c, r)
                   /\ r = Idle \/ (r.at = "flag" /\ r.note = call[c].note)
                   /\ UNCHANGED <<recorded, flag, history>>
      BY <2>10 DEF Writes
    <3> QED
      BY <2>1, <3>1 DEF Handled, Waiting, Idle
  <2> QED
    BY <1>4, <2>2, <2>3, <2>4, <2>5, <2>6, <2>7, <2>8, <2>9, <2>10 DEF Steps
<1> QED
  BY <1>1, <1>2, <1>3, <1>4, NextSteps DEF TypeInv

-----------------------------------------------------------------------------
(* What ends a subscription *)

LEMMA EndedStays ==
    ASSUME NEW p, NEW st, EndedBy(p, st), UNCHANGED sent
    PROVE  \E n \in 1..Len(sent') : sent'[n].purchase = p /\ StatusOf(n)' = st
  BY DEF EndedBy, StatusOf, Columns

LEMMA RowStep == TypeInv /\ RowInv /\ [Next]_vars => RowInv'
<1> SUFFICES ASSUME TypeInv, RowInv, [Next]_vars PROVE RowInv'
    OBVIOUS
<1> TypeOK /\ strayed \in BOOLEAN
  BY DEF TypeInv, TypeOK
\* The row and the notifications stay.
<1>1. ASSUME row' = row, strayed' = strayed,
             \A n \in 1..Len(sent) : n \in 1..Len(sent') /\ sent'[n] = sent[n],
             \A c \in Calls : call'[c].at \in {"fetch", "write"} =>
                \/ /\ call[c].at \in {"fetch", "write"}
                   /\ call'[c].note = call[c].note /\ call'[c].was = call[c].was
                \/ /\ call'[c].note \in 1..Len(sent)
                   /\ Found(sent[call'[c].note].purchase)
                   /\ call'[c].was = row.status
      PROVE  RowInv'
  <2>1. \A st : EndedBy(row.purchase, st) => EndedBy(row.purchase, st)'
    BY <1>1 DEF EndedBy, StatusOf
  <2>2. \A c \in Calls : call[c].at \in {"fetch", "write"} => call[c].note \in 1..Len(sent)
    BY Shapes DEF Handled
  <2>3. ASSUME ~strayed, row # NoRow, row.status # "active"
        PROVE  EndedBy(row.purchase, row.status)'
    BY <1>1, <2>1, <2>3 DEF RowInv
  <2>4. ASSUME ~strayed, NEW c \in Calls, call'[c].at \in {"fetch", "write"}
        PROVE  /\ row'.purchase = sent'[call'[c].note].purchase
               /\ call'[c].was # "active" => EndedBy(row.purchase, call[c].was)'
    <3>1. CASE /\ call[c].at \in {"fetch", "write"}
               /\ call'[c].note = call[c].note /\ call'[c].was = call[c].was
      BY <1>1, <2>1, <2>2, <2>4, <3>1 DEF RowInv
    <3>2. CASE /\ call'[c].note \in 1..Len(sent)
               /\ Found(sent[call'[c].note].purchase)
               /\ call'[c].was = row.status
      BY <1>1, <2>1, <2>4, <3>2 DEF RowInv, Found
    <3> QED
      BY <1>1, <2>4, <3>1, <3>2
  <2> QED
    BY <1>1, <2>3, <2>4 DEF RowInv
<1>2. CASE UNCHANGED vars
  <2>1. row' = row /\ strayed' = strayed /\ sent' = sent /\ call' = call
    BY <1>2 DEF vars, history
  <2> QED
    BY <1>1, <2>1
<1>3. CASE Tick
  <2>1. row' = row /\ strayed' = strayed /\ sent' = sent /\ call' = call
    BY <1>3 DEF Tick, history
  <2> QED
    BY <1>1, <2>1
<1>4. ASSUME NEW p \in Purchases, SaleOf(p)
      PROVE  RowInv'
  <2>1. row' = row /\ strayed' = strayed /\ call' = call
    BY <1>4 DEF SaleOf, history
  <2>2. \A n \in 1..Len(sent) : n \in 1..Len(sent') /\ sent'[n] = sent[n]
    BY <1>4, NotesStay
  <2> QED
    BY <1>1, <2>1, <2>2
<1>5. ASSUME NEW c \in Calls, Steps(c)
      PROVE  RowInv'
  \* The step changes no row, and takes none in hand but the one it finds.
  <2>1. ASSUME NEW r, Frame(c, r), row' = row, strayed' = strayed,
               r.at \in {"fetch", "write"} =>
                  \/ /\ call[c].at \in {"fetch", "write"}
                     /\ r.note = call[c].note /\ r.was = call[c].was
                  \/ r.note \in 1..Len(sent) /\ Found(sent[r.note].purchase) /\ r.was = row.status
        PROVE  RowInv'
    <3>1. /\ call'[c] = r /\ sent' = sent
          /\ \A d \in Calls : d # c => call'[d] = call[d]
      BY <2>1, Others
    <3>2. ASSUME NEW d \in Calls, call'[d].at \in {"fetch", "write"}
          PROVE  \/ /\ call[d].at \in {"fetch", "write"}
                    /\ call'[d].note = call[d].note /\ call'[d].was = call[d].was
                 \/ /\ call'[d].note \in 1..Len(sent)
                    /\ Found(sent[call'[d].note].purchase)
                    /\ call'[d].was = row.status
      BY <2>1, <3>1, <3>2
    <3> QED
      BY <1>1, <2>1, <3>1, <3>2
  <2>2. CASE Ends(c)
    BY <2>1, <2>2 DEF Ends, Idle, history
  <2>3. CASE Verifies(c)
    <3>1. PICK p \in Purchases, end \in Time : Frame(c, [at |-> "look", purchase |-> p, end |-> end])
      BY <2>3 DEF Verifies
    <3>2. row' = row /\ strayed' = strayed
      BY <2>3 DEF Verifies
    <3> QED
      BY <2>1, <3>1, <3>2
  <2>4. CASE Looks(c)
    BY <2>1, <2>4 DEF Looks, history
  <2>5. CASE Arrives(c)
    BY <2>1, <2>5 DEF Arrives, history
  <2>6. CASE Records(c)
    BY <2>1, <2>6 DEF Records, history
  <2>7. CASE Handles(c)
    <3>1. PICK n, r :
            /\ n \in 1..Len(sent)
            /\ Found(sent[n].purchase) /\ Frame(c, r)
            /\ r.note = n /\ r.was = row.status
            /\ UNCHANGED <<recorded, row, flag, strayed>>
      BY <2>7 DEF Handles
    <3> QED
      BY <2>1, <3>1
  <2>8. CASE Fetches(c)
    <3>1. PICK r : /\ Waiting(c, "fetch") /\ Frame(c, r)
                   /\ r.note = call[c].note /\ r.was = call[c].was
                   /\ UNCHANGED <<recorded, row, flag, strayed>>
      BY <2>8 DEF Fetches
    <3> QED
      BY <2>1, <3>1 DEF Waiting
  \* The handlers that have the row in hand were called for the purchase it gets.
  <2>9. CASE Receipt(c)
    <3>1. PICK r : Frame(c, r) /\ r.at = "unlock"
      BY <2>9 DEF Receipt
    <3>2. /\ call'[c] = r /\ sent' = sent
          /\ \A d \in Calls : d # c => call'[d] = call[d]
      BY <3>1, Others
    <3>3. /\ ~strayed' => ~strayed /\ ~Strays(call[c].purchase)
          /\ row' = [purchase |-> call[c].purchase, status |-> "active", end |-> call[c].end]
      BY <2>9 DEF Receipt
    <3>4. row'.purchase = call[c].purchase /\ row'.status = "active"
      BY <3>3
    <3>5. ASSUME ~strayed', NEW d \in Calls, call'[d].at \in {"fetch", "write"}
          PROVE  /\ row'.purchase = sent'[call'[d].note].purchase
                 /\ call'[d].was # "active" => EndedBy(row.purchase, call[d].was)'
      <4>1. d # c /\ call'[d] = call[d]
        BY <3>1, <3>2, <3>5
      <4>2. sent[call[d].note].purchase = call[c].purchase
        BY <3>3, <3>5, <4>1 DEF Strays
      <4>3. sent[call[d].note].purchase = row.purchase
        BY <3>3, <3>5, <4>1 DEF RowInv
      <4>4. call[d].was # "active" => EndedBy(row.purchase, call[d].was)
        BY <3>3, <3>5, <4>1 DEF RowInv
      <4>5. row'.purchase = row.purchase
        BY <3>4, <4>2, <4>3
      <4>6. \A st : EndedBy(row.purchase, st) => EndedBy(row.purchase, st)'
        BY <3>2, <4>5 DEF EndedBy, StatusOf
      <4> QED
        BY <3>2, <3>4, <4>1, <4>2, <4>4, <4>6
    <3> QED
      BY <3>4, <3>5 DEF RowInv
  <2>10. CASE Writes(c)
    <3> DEFINE n == call[c].note
               type == sent[n].type
               was == call[c].was
               end == call[c].end
    <3>1. PICK r : Frame(c, r) /\ (r = Idle \/ r.at = "flag")
      BY <2>10 DEF Writes
    <3>2. /\ call'[c] = r /\ sent' = sent
          /\ \A d \in Calls : d # c => call'[d] = call[d]
      BY <3>1, Others
    <3>3. Waiting(c, "write") /\ strayed' = strayed /\ row' = With(row, Columns(type, was, end))
      BY <2>10 DEF Writes, history
    <3>4. row \in Row /\ type \in Types /\ was \in Status /\ end \in Time /\ n \in 1..Len(sent)
      BY <3>3, Writing
    <3>5. /\ row'.purchase = row.purchase
          /\ row'.status = IF type = "autoOn" THEN was ELSE StatusOf(n)
      BY <3>3, <3>4, WrittenRow, StatusByType DEF StatusOf
    <3>6. \A st : EndedBy(row.purchase, st) => EndedBy(row.purchase, st)'
      BY <3>2, <3>5 DEF EndedBy, StatusOf
    <3>7. ASSUME ~strayed, row'.status # "active"
          PROVE  EndedBy(row.purchase, row.status)'
      <4>1. /\ row.purchase = sent[n].purchase
            /\ was # "active" => EndedBy(row.purchase, was)
        BY <3>3, <3>7 DEF RowInv, Waiting
      <4>2. CASE type = "autoOn"
        BY <3>5, <3>6, <3>7, <4>1, <4>2
      <4>3. CASE type # "autoOn"
        <5>1. EndedBy(row.purchase, StatusOf(n))
          BY <3>4, <4>1 DEF EndedBy
        <5> QED
          BY <3>5, <3>6, <4>3, <5>1
      <4> QED
        BY <4>2, <4>3
    <3>8. ASSUME ~strayed, NEW d \in Calls, call'[d].at \in {"fetch", "write"}
          PROVE  /\ row'.purchase = sent'[call'[d].note].purchase
                 /\ call'[d].was # "active" => EndedBy(row.purchase, call[d].was)'
      <4>1. d # c /\ call'[d] = call[d]
        BY <3>1, <3>2, <3>8 DEF Idle
      <4> QED
        BY <3>2, <3>5, <3>6, <3>8, <4>1 DEF RowInv
    <3> QED
      BY <3>3, <3>7, <3>8 DEF RowInv
  <2> QED
    BY <1>5, <2>2, <2>3, <2>4, <2>5, <2>6, <2>7, <2>8, <2>9, <2>10 DEF Steps
<1> QED
  BY <1>2, <1>3, <1>4, <1>5, NextSteps DEF TypeInv

-----------------------------------------------------------------------------
(* The date never goes back *)

\* A call at r would hold a date for p.
HoldsAt(r, p) ==
    \/ r.at \in {"look", "insert", "update"} /\ r.purchase = p
    \/ r.at = "write" /\ sent[r.note].purchase = p /\ sent[r.note].type \in DateTypes

LEMMA HoldsAsCall ==
    ASSUME NEW c \in Calls, NEW p
    PROVE  HoldsDate(c, p) <=> HoldsAt(call[c], p)
  BY DEF HoldsDate, HoldsAt, Waiting, DateTypes

LEMMA HeldEnd ==
    ASSUME TypeOK, NEW c \in Calls, NEW p, HoldsDate(c, p)
    PROVE  call[c].end \in Time
<1>1. call[c] \in Verification \/ call[c] \in Handling
  BY Shapes DEF HoldsDate, Waiting, Verifying, Handled
<1> QED
  BY <1>1 DEF Verification, Handling

LEMMA HeldAfter ==
    ASSUME TypeOK, NEW c \in Calls, NEW r, Frame(c, r), NEW d \in Calls, NEW p
    PROVE  /\ d # c => (HoldsDate(d, p)' <=> HoldsDate(d, p)) /\ call'[d].end = call[d].end
           /\ HoldsDate(c, p)' <=> HoldsAt(r, p)
           /\ call'[c] = r
<1>1. /\ call'[c] = r /\ sent' = sent
      /\ \A e \in Calls : e # c => call'[e] = call[e]
  BY Others
<1> QED
  BY <1>1 DEF HoldsDate, HoldsAt, Waiting, DateTypes

\* A call takes up a date only when it is the store's and nobody else holds one.
LEMMA EndFrame ==
    ASSUME TypeInv, EndInv, NEW c \in Calls, NEW r, Frame(c, r),
           row' = row, ~strayed' => ~strayed, ~backdated' => ~backdated,
           ~backdated' => \A p \in Purchases : HoldsAt(r, p) =>
              \/ HoldsDate(c, p) /\ r.end = call[c].end
              \/ ~Contest(c, p) /\ r.end = store[p].end
    PROVE  EndInv'
<1> TypeOK
  BY DEF TypeInv
<1>1. store' = store
  BY Others
<1>2. \A p : (Found(p)' <=> Found(p)) /\ (Lost(p)' <=> Lost(p))
  BY <1>1 DEF Found, Lost, Sold, Android
<1>3. ASSUME ~backdated', ~strayed', NEW p \in Purchases, ~Lost(p)
      PROVE  /\ Found(p) => row.end <= store[p].end
             /\ \A d \in Calls : HoldsDate(d, p)' =>
                   call'[d].end <= store[p].end /\ (Found(p) => row.end <= call'[d].end)
  <2>1. Found(p) => row.end <= store[p].end
    BY <1>3 DEF EndInv
  <2>2. ASSUME NEW d \in Calls, HoldsDate(d, p)'
        PROVE  call'[d].end <= store[p].end /\ (Found(p) => row.end <= call'[d].end)
    <3>1. CASE d # c
      BY <1>3, <2>2, <3>1, HeldAfter DEF EndInv
    <3>2. CASE d = c
      <4>1. HoldsAt(r, p) /\ call'[c] = r
        BY <2>2, <3>2, HeldAfter
      <4>2. CASE HoldsDate(c, p) /\ r.end = call[c].end
        BY <1>3, <3>2, <4>1, <4>2 DEF EndInv
      <4>3. CASE r.end = store[p].end
        <5>1. store[p].end \in Time
          BY DEF TypeOK, Product
        <5> QED
          BY <2>1, <3>2, <4>1, <4>3, <5>1 DEF Time
      <4> QED
        BY <1>3, <4>1, <4>2, <4>3
    <3> QED
      BY <3>1, <3>2
  <2> QED
    BY <2>1, <2>2
<1>4. ASSUME ~backdated', ~strayed', NEW p \in Purchases, NEW d \in Calls, d # c,
             HoldsDate(c, p)', HoldsDate(d, p)'
      PROVE  FALSE
  <2>1. HoldsAt(r, p) /\ HoldsDate(d, p)
    BY <1>4, HeldAfter
  <2>2. ~HoldsDate(c, p)
    BY <1>4, <2>1 DEF EndInv
  <2> QED
    BY <1>4, <2>1, <2>2 DEF Contest
<1>5. ASSUME ~backdated', ~strayed', NEW p \in Purchases, NEW d \in Calls, NEW e \in Calls,
             HoldsDate(d, p)', HoldsDate(e, p)'
      PROVE  d = e
  <2>1. CASE d = c \/ e = c
    BY <1>4, <1>5, <2>1
  <2>2. CASE d # c /\ e # c
    <3>1. HoldsDate(d, p) /\ HoldsDate(e, p)
      BY <1>5, <2>2, HeldAfter
    <3> QED
      BY <1>5, <3>1 DEF EndInv
  <2> QED
    BY <2>1, <2>2
<1>6. \A p \in Purchases : store'[p].standing = "unsold" => store'[p].end = 0
  BY <1>1 DEF EndInv
<1> QED
  BY <1>1, <1>2, <1>3, <1>5, <1>6 DEF EndInv

\* A date that is written was held by that call alone.
LEMMA EndWritten ==
    ASSUME TypeInv, EndInv, NEW c \in Calls, NEW r, Frame(c, r),
           ~strayed' => ~strayed, ~backdated' => ~backdated,
           \A p \in Purchases : ~HoldsAt(r, p),
           ~backdated /\ ~strayed' => \A p \in Purchases :
              row' # NoRow /\ row'.purchase = p =>
                 \/ Found(p) /\ row'.end = row.end
                 \/ HoldsDate(c, p) /\ row'.end = call[c].end
    PROVE  EndInv'
<1> TypeOK
  BY DEF TypeInv
<1>1. store' = store
  BY Others
<1>2. \A p : Lost(p)' <=> Lost(p)
  BY <1>1 DEF Lost, Sold, Android
<1>3. \A p \in Purchases, d \in Calls :
        HoldsDate(d, p)' => d # c /\ HoldsDate(d, p) /\ call'[d].end = call[d].end
  BY HeldAfter
<1>4. ASSUME ~backdated', ~strayed', NEW p \in Purchases, ~Lost(p)
      PROVE  /\ Found(p)' => row'.end <= store[p].end
             /\ \A d \in Calls : HoldsDate(d, p)' =>
                   call'[d].end <= store[p].end /\ (Found(p)' => row'.end <= call'[d].end)
  <2>1. CASE ~Found(p)'
    BY <1>3, <1>4, <2>1 DEF EndInv
  <2>2. CASE Found(p) /\ row'.end = row.end
    BY <1>3, <1>4, <2>2 DEF EndInv
  <2>3. CASE HoldsDate(c, p) /\ row'.end = call[c].end
    <3>1. row'.end <= store[p].end
      BY <1>4, <2>3 DEF EndInv
    <3>2. \A d \in Calls : ~HoldsDate(d, p)'
      BY <1>3, <1>4, <2>3 DEF EndInv
    <3> QED
      BY <3>1, <3>2
  <2> QED
    BY <1>4, <2>1, <2>2, <2>3 DEF Found
<1>5. ASSUME ~backdated', ~strayed', NEW p \in Purchases, NEW d \in Calls, NEW e \in Calls,
             HoldsDate(d, p)', HoldsDate(e, p)'
      PROVE  d = e
  BY <1>3, <1>5 DEF EndInv
<1>6. \A p \in Purchases : store'[p].standing = "unsold" => store'[p].end = 0
  BY <1>1 DEF EndInv
<1> QED
  BY <1>1, <1>2, <1>4, <1>5, <1>6 DEF EndInv

LEMMA EndSale ==
    ASSUME TypeInv, EndInv, NEW q \in Purchases, SaleOf(q)
    PROVE  EndInv'
<1> TypeOK
  BY DEF TypeInv
<1>1. PICK s \in Product :
        /\ store' = [store EXCEPT ![q] = s]
        /\ s.standing # "unsold"
        /\ ~Lost(q)
        /\ \/ store[q].standing = "unsold"
           \/ store[q].end <= s.end
           \/ Android(q) /\ s.standing = "revoked"
  BY DEF SaleOf, Lost
<1>2. row' = row /\ call' = call /\ strayed' = strayed /\ backdated' = backdated
  BY DEF SaleOf, history
<1>3. /\ s.end \in Time
      /\ \A p \in Purchases : store[p].end \in Time
      /\ \A p \in Purchases : Found(p) => row.end \in Time
  BY DEF TypeOK, Product, Row, Found
<1>4. \A d \in Calls, p \in Purchases : HoldsDate(d, p)' <=> HoldsDate(d, p)
  <2> SUFFICES ASSUME NEW d \in Calls, NEW p \in Purchases
               PROVE  HoldsDate(d, p)' <=> HoldsDate(d, p)
    OBVIOUS
  <2>1. Waiting(d, "write") => call[d].note \in 1..Len(sent)
    BY Shapes DEF Waiting, Handled
  <2>2. \A n \in 1..Len(sent) : sent'[n] = sent[n]
    BY NotesStay
  <2> QED
    BY <1>2, <2>1, <2>2 DEF HoldsDate, Waiting
<1>5. /\ store'[q] = s
      /\ \A p \in Purchases : p # q => store'[p] = store[p]
  BY <1>1 DEF TypeOK
<1>6. ASSUME NEW p \in Purchases, ~Lost(p)'
      PROVE  ~Lost(p) /\ store[p].end <= store'[p].end
  <2>1. CASE p # q
    BY <1>3, <1>5, <1>6, <2>1 DEF Lost, Sold, Android, Time
  <2>2. CASE p = q
    <3>1. ~(Android(q) /\ s.standing = "revoked")
      BY <1>5, <1>6, <2>2 DEF Lost, Sold, Android
    <3>2. store[q].standing = "unsold" => store[q].end = 0
      BY DEF EndInv
    <3> QED
      BY <1>1, <1>3, <1>5, <2>2, <3>1, <3>2 DEF Time
  <2> QED
    BY <2>1, <2>2
<1>7. ASSUME ~backdated, ~strayed, NEW p \in Purchases, ~Lost(p)'
      PROVE  /\ Found(p) => row.end <= store'[p].end
             /\ \A c \in Calls : HoldsDate(c, p) =>
                   call[c].end <= store'[p].end /\ (Found(p) => row.end <= call[c].end)
  <2>1. ~Lost(p) /\ store[p].end <= store'[p].end /\ store'[p].end \in Time
    BY <1>3, <1>5, <1>6, <1>7
  <2>2. \A c \in Calls : HoldsDate(c, p) => call[c].end \in Time
    BY HeldEnd
  <2>3. /\ Found(p) => row.end <= store[p].end
        /\ \A c \in Calls : HoldsDate(c, p) =>
              call[c].end <= store[p].end /\ (Found(p) => row.end <= call[c].end)
    BY <1>7, <2>1 DEF EndInv
  <2> QED
    BY <1>3, <2>1, <2>2, <2>3 DEF Time
<1>8. \A p \in Purchases : store'[p].standing = "unsold" => store'[p].end = 0
  BY <1>1, <1>5 DEF EndInv
<1>9. \A p : Found(p)' <=> Found(p)
  BY <1>2 DEF Found
<1> QED
  BY <1>2, <1>4, <1>7, <1>8, <1>9 DEF EndInv

LEMMA EndStep == TypeInv /\ RowInv /\ EndInv /\ [Next]_vars => EndInv'
<1> SUFFICES ASSUME TypeInv, RowInv, EndInv, [Next]_vars PROVE EndInv'
    OBVIOUS
<1> TypeOK /\ strayed \in BOOLEAN
  BY DEF TypeInv, TypeOK
<1>1. CASE UNCHANGED vars
  BY <1>1 DEF vars, history, EndInv, Found, Lost, Sold, Android, HoldsDate, Waiting
<1>2. CASE Tick
  BY <1>2 DEF Tick, history, EndInv, Found, Lost, Sold, Android, HoldsDate, Waiting
<1>3. ASSUME NEW c \in Calls, Steps(c)
      PROVE  EndInv'
  <2>1. CASE Ends(c)
    BY <2>1, EndFrame DEF Ends, Idle, HoldsAt, history
  <2>2. CASE Verifies(c)
    <3>1. PICK p \in Purchases, end \in Time :
            /\ Frame(c, [at |-> "look", purchase |-> p, end |-> end])
            /\ ~backdated' => ~backdated /\ ~Contest(c, p) /\ ~Dated(p, end)
            /\ UNCHANGED <<recorded, row, flag, strayed>>
      BY <2>2 DEF Verifies
    <3> DEFINE r == [at |-> "look", purchase |-> p, end |-> end]
    <3>2. \A q : HoldsAt(r, q) => q = p
      BY DEF HoldsAt
    <3>3. r.end = end
      OBVIOUS
    <3> HIDE DEF r
    <3>4. ~backdated' => \A q \in Purchases : HoldsAt(r, q) =>
             ~Contest(c, q) /\ r.end = store[q].end
      BY <3>1, <3>2, <3>3 DEF Dated
    <3> QED
      BY <3>1, <3>4, EndFrame DEF r
  <2>3. CASE Looks(c)
    <3>1. PICK r : /\ Waiting(c, "look") /\ Frame(c, r)
                   /\ r.at \in {"insert", "update"}
                   /\ r.purchase = call[c].purchase /\ r.end = call[c].end
                   /\ UNCHANGED <<recorded, row, flag, history>>
      BY <2>3 DEF Looks
    <3>2. \A q : HoldsAt(r, q) => HoldsDate(c, q)
      BY <3>1 DEF HoldsAt, HoldsDate, Waiting
    <3> QED
      BY <3>1, <3>2, EndFrame DEF history
  <2>4. CASE Receipt(c)
    <3>1. PICK r : Frame(c, r) /\ r.at = "unlock"
      BY <2>4 DEF Receipt
    <3>2. /\ ~strayed' => ~strayed
          /\ backdated' = backdated
          /\ call[c].at \in {"insert", "update"}
          /\ row' = [purchase |-> call[c].purchase, status |-> "active", end |-> call[c].end]
      BY <2>4 DEF Receipt
    <3>3. row'.purchase = call[c].purchase /\ row'.end = call[c].end
      BY <3>2
    <3>4. \A q : row'.purchase = q => HoldsDate(c, q)
      BY <3>2, <3>3 DEF HoldsDate
    <3>5. \A q : ~HoldsAt(r, q)
      BY <3>1 DEF HoldsAt
    <3> QED
      BY <3>1, <3>2, <3>3, <3>4, <3>5, EndWritten
  <2>5. CASE Arrives(c)
    <3>1. PICK n \in 1..Len(sent) : Frame(c, [at |-> "record", note |-> n])
      BY <2>5 DEF Arrives
    <3>2. row' = row /\ strayed' = strayed /\ backdated' = backdated
      BY <2>5 DEF Arrives, history
    <3>3. \A q : ~HoldsAt([at |-> "record", note |-> n], q)
      BY DEF HoldsAt
    <3> QED
      BY <3>1, <3>2, <3>3, EndFrame
  <2>6. CASE Records(c)
    <3>1. PICK r : Frame(c, r) /\ r.at = "find"
      BY <2>6 DEF Records
    <3>2. row' = row /\ strayed' = strayed /\ backdated' = backdated
      BY <2>6 DEF Records, history
    <3>3. \A q : ~HoldsAt(r, q)
      BY <3>1 DEF HoldsAt
    <3> QED
      BY <3>1, <3>2, <3>3, EndFrame
  <2>7. CASE Handles(c)
    <3>1. PICK n, r :
            /\ n \in 1..Len(sent)
            /\ Frame(c, r)
            /\ r.at \in {"fetch", "write"}
            /\ r.at = "write" => sent[n].type # "renewed"
            /\ r.note = n /\ r.end = sent[n].end
            /\ ~backdated' =>
                 /\ ~backdated
                 /\ sent[n].type = "refundReversed" =>
                      ~Contest(c, sent[n].purchase) /\ ~Dated(sent[n].purchase, sent[n].end)
            /\ UNCHANGED <<recorded, row, flag, strayed>>
      BY <2>7 DEF Handles
    <3>2. \A q : HoldsAt(r, q) => q = sent[n].purchase /\ sent[n].type = "refundReversed"
      BY <3>1 DEF HoldsAt, DateTypes
    <3>3. ~backdated' => \A q \in Purchases : HoldsAt(r, q) =>
             ~Contest(c, q) /\ r.end = store[q].end
      BY <3>1, <3>2 DEF Dated
    <3> QED
      BY <3>1, <3>3, EndFrame
  <2>8. CASE Fetches(c)
    <3>1. PICK r :
            /\ Frame(c, r)
            /\ r.at = "write"
            /\ ~backdated' =>
                 /\ ~backdated
                 /\ ~Contest(c, sent[r.note].purchase)
                 /\ ~Dated(sent[r.note].purchase, r.end)
            /\ UNCHANGED <<recorded, row, flag, strayed>>
      BY <2>8 DEF Fetches
    <3>2. ~backdated' => \A q \in Purchases : HoldsAt(r, q) =>
             ~Contest(c, q) /\ r.end = store[q].end
      BY <3>1 DEF Dated, HoldsAt
    <3> QED
      BY <3>1, <3>2, EndFrame
  <2>9. CASE Writes(c)
    <3> DEFINE n == call[c].note
               type == sent[n].type
    <3>1. PICK r : Frame(c, r) /\ (r = Idle \/ r.at = "flag")
      BY <2>9 DEF Writes
    <3>2. /\ Waiting(c, "write") /\ strayed' = strayed /\ backdated' = backdated
          /\ row' = With(row, Columns(type, call[c].was, call[c].end))
      BY <2>9 DEF Writes, history
    <3>3. /\ row'.purchase = row.purchase /\ row \in Row
          /\ row'.end = IF type \in DateTypes THEN call[c].end ELSE row.end
      BY <3>2, Writing, WrittenRow
    <3>4. ~strayed => row.purchase = sent[n].purchase
      BY <3>2 DEF RowInv, Waiting
    <3>5. \A q : ~HoldsAt(r, q)
      BY <3>1 DEF HoldsAt, Idle
    <3>6. ASSUME ~strayed, NEW q \in Purchases, row'.purchase = q
          PROVE  \/ Found(q) /\ row'.end = row.end
                 \/ HoldsDate(c, q) /\ row'.end = call[c].end
      <4>1. Found(q)
        BY <3>3, <3>6 DEF Found
      <4>2. type \in DateTypes => HoldsDate(c, q)
        BY <3>2, <3>3, <3>4, <3>6 DEF HoldsDate, DateTypes
      <4> QED
        BY <3>3, <4>1, <4>2
    <3> QED
      BY <3>1, <3>2, <3>5, <3>6, EndWritten
  <2> QED
    BY <1>3, <2>1, <2>2, <2>3, <2>4, <2>5, <2>6, <2>7, <2>8, <2>9 DEF Steps
<1> QED
  BY <1>1, <1>2, <1>3, EndSale, NextSteps DEF TypeInv

-----------------------------------------------------------------------------
(* Theorems *)

LEMMA Inductive == Spec => [](TypeInv /\ OnceInv /\ RowInv /\ EndInv)
  BY TypeInit, TypeStep, InvInit, OnceStep, RowStep, EndStep, PTL DEF Spec

\* However often and to how many workers a webhook of Apple's comes, one call at most
\* has it in hand.
THEOREM Once == Spec => []TakenOnce
<1>1. OnceInv => TakenOnce
  BY DEF OnceInv
<1> QED
  BY <1>1, Inductive, PTL

\* A subscription ends by a notification of its own purchase, unless it replaced
\* another one whose notification was being handled.
THEOREM EndedByItsOwn == Spec => []EndedByOwnPurchase
<1>1. RowInv => EndedByOwnPurchase
  BY DEF RowInv, EndedByOwnPurchase, EndedBy
<1> QED
  BY <1>1, Inductive, PTL

\* Late and repeated renewals never shorten what is paid for, but for the named
\* races and what Google has revoked.
THEOREM EndsStay == Spec => EndNeverGoesBack
<1> DEFINE Shorter == row # NoRow /\ row'.purchase = row.purchase /\ row'.end < row.end
           Excused == backdated \/ strayed \/ Sold(row.purchase, {"revoked"})
<1>1. TypeInv /\ RowInv /\ EndInv /\ [Next]_vars => [Shorter => Excused]_vars
  <2> SUFFICES ASSUME TypeInv, RowInv, EndInv, [Next]_vars, Shorter, ~Excused
               PROVE  FALSE
    OBVIOUS
  <2> TypeOK
    BY DEF TypeInv
  <2>1. row \in Row /\ row.end \in Time /\ row.purchase \in Purchases
    BY DEF TypeOK, Row
  <2>2. row' # row
    BY <2>1 DEF Time
  <2>3. PICK c \in Calls : Receipt(c) \/ Writes(c)
    <3>1. \A p \in Purchases : ~SaleOf(p)
      BY <2>2 DEF SaleOf
    <3>2. ~Tick /\ ~UNCHANGED vars
      BY <2>2 DEF Tick, vars
    <3>3. PICK c \in Calls : Steps(c)
      BY <3>1, <3>2, NextSteps
    <3>4. ~Ends(c) /\ ~Verifies(c) /\ ~Looks(c) /\ ~Arrives(c) /\ ~Records(c) /\ ~Handles(c) /\ ~Fetches(c)
      BY <2>2 DEF Ends, Verifies, Looks, Arrives, Records, Handles, Fetches
    <3> QED
      BY <3>3, <3>4 DEF Steps
  <2>4. ~Lost(row.purchase) /\ Found(row.purchase)
    BY <2>1 DEF Lost, Found
  <2>5. HoldsDate(c, row.purchase) => row.end <= call[c].end
    BY <2>1, <2>4 DEF EndInv
  <2>6. CASE Receipt(c)
    <3>1. /\ call[c].at \in {"insert", "update"}
          /\ row' = [purchase |-> call[c].purchase, status |-> "active", end |-> call[c].end]
      BY <2>6 DEF Receipt
    <3>2. row'.purchase = call[c].purchase /\ row'.end = call[c].end
      BY <3>1
    <3>3. HoldsDate(c, row.purchase)
      BY <3>1, <3>2 DEF HoldsDate
    <3>4. call[c].end \in Time
      BY <3>3, HeldEnd
    <3> QED
      BY <2>1, <2>5, <3>2, <3>3, <3>4 DEF Time
  <2>7. CASE Writes(c)
    <3> DEFINE type == sent[call[c].note].type
    <3>1. Waiting(c, "write") /\ row' = With(row, Columns(type, call[c].was, call[c].end))
      BY <2>7 DEF Writes
    <3>2. row'.end = IF type \in DateTypes THEN call[c].end ELSE row.end
      BY <3>1, Writing, WrittenRow
    <3>3. call[c].end \in Time
      BY <3>1, Writing
    <3>4. row.purchase = sent[call[c].note].purchase
      BY <3>1 DEF RowInv, Waiting
    <3>5. type \in DateTypes => HoldsDate(c, row.purchase)
      BY <3>1, <3>4 DEF HoldsDate, DateTypes
    <3> HIDE DEF type
    <3> QED
      BY <2>1, <2>5, <3>2, <3>3, <3>5 DEF Time
  <2> QED
    BY <2>3, <2>6, <2>7
<1>2. Spec => [][Shorter => Excused]_vars
  BY <1>1, Inductive, PTL DEF Spec
<1> QED
  BY <1>2 DEF EndNeverGoesBack

=============================================================================
