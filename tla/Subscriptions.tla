--------------------------- MODULE Subscriptions ---------------------------
(***************************************************************************)
(* The subscription of one user: what the App Store and Google Play know   *)
(* of it, the row in subscriptions, and the calls that bring the row up to *)
(* date: the app's /purchases/verify, Google's Pub/Sub messages and Apple's*)
(* webhook, on any worker.                                                 *)
(*                                                                         *)
(* A notification stays pending until its sender has had an answer, which  *)
(* may be lost: it can come twice, to two workers at a time, and before or *)
(* after others.  Every handler reads the row, may ask the store, and then *)
(* writes by id a row that has perhaps been rewritten since.               *)
(*                                                                         *)
(* autoRenew, tier and startDate are written beside the columns modelled   *)
(* and read by nothing but displays.  Notifications without effect (a new  *)
(* purchase, an unknown type, one that names no transaction) are left out. *)
(***************************************************************************)
EXTENDS Integers, Sequences

CONSTANTS
    Purchases,  \* what the user buys: a purchase token or an original transaction
    Platform,   \* Platform[p]: the store it is bought in
    NoRow,      \* the user has no row in subscriptions
    Calls,      \* bound: calls under way at a time
    MaxNotes,   \* bound: notifications
    MaxTime,    \* bound: the clock, in billing periods
    LastSale,   \* bound: the time after which nothing more is bought
    MaxEnd      \* bound: the date up to which is paid

ASSUME SubscriptionsAssumption ==
    /\ Platform \in [Purchases -> {"android", "ios"}]
    /\ MaxNotes \in Nat
    /\ {MaxTime, LastSale} \subseteq Nat
    /\ MaxEnd \in Nat /\ MaxTime < MaxEnd

VARIABLES
    now,        \* the clock
    store,      \* store[p]: what the store knows of p
    sent,       \* the notifications sent so far; one is named by its position
    pending,    \* those their sender will send (again)
    recorded,   \* the rows of apple_notifications
    row,        \* the user's row in subscriptions
    flag,       \* hasDiscoveryAccess in the user's row
    call,       \* call[c]: how far the call c is
    strayed,    \* history: a row was given to another purchase while a
                \* notification of the former one was being handled
    backdated   \* history: a date was written that the store had not given just
                \* then: see Contest and Dated

history == <<strayed, backdated>>
outside == <<now, store, sent>>
vars == <<now, store, sent, pending, recorded, row, flag, call, history>>

-----------------------------------------------------------------------------
Time == 0..MaxEnd
Notes == 1..MaxNotes

Android(p) == Platform[p] = "android"

\* unsold; paid; unpaid: in a grace period, on hold or in billing retry; expired;
\* refunded or revoked.
Standing == {"unsold", "paid", "unpaid", "expired", "revoked"}
Product == [standing : Standing, end : Time, auto : BOOLEAN]

Types == {"renewed", "autoOn", "autoOff", "grace", "hold", "expired", "revoked", "refundReversed"}
Note == [purchase : Purchases, type : Types, end : Time]

\* "unpaid" is Google's on_hold and Apple's billing_retry.
Status == {"active", "cancelled", "grace_period", "unpaid", "expired", "revoked"}
Row == [purchase : Purchases, status : Status, end : Time]

ASSUME NoRowAssumption == NoRow \notin Row

\* Where a call waits: verifyReceipt for the row (look), its write (insert, update)
\* or the user's flag (unlock); a notification for its record, the row (find), the
\* store's answer (fetch), the row's write or the user's flag.
Idle == [at |-> "idle"]
Verification == [at : {"look", "insert", "update", "unlock"}, purchase : Purchases, end : Time]
Webhook == [at : {"record", "find"}, note : Notes]
Handling == [at : {"fetch", "write", "flag"}, note : Notes, was : Status, end : Time]

TypeOK ==
    /\ now \in 0..MaxTime
    /\ store \in [Purchases -> Product]
    /\ sent \in Seq(Note) /\ Len(sent) <= MaxNotes
    /\ pending \subseteq 1..Len(sent)
    /\ recorded \subseteq 1..Len(sent)
    /\ row \in Row \cup {NoRow}
    /\ flag \in BOOLEAN
    /\ call \in [Calls -> {Idle} \cup Verification \cup Webhook \cup Handling]
    /\ \A c \in Calls : "note" \in DOMAIN call[c] => call[c].note <= Len(sent)
    /\ strayed \in BOOLEAN /\ backdated \in BOOLEAN

Init ==
    /\ now = 0
    /\ store = [p \in Purchases |-> [standing |-> "unsold", end |-> 0, auto |-> FALSE]]
    /\ sent = <<>>
    /\ pending = {}
    /\ recorded = {}
    /\ row = NoRow
    /\ flag = FALSE
    /\ call = [c \in Calls |-> Idle]
    /\ strayed = FALSE
    /\ backdated = FALSE

\* UsersService.hasActiveSubscription: the flag is not asked.
HasActiveSubscription == row # NoRow /\ row.status = "active" /\ now < row.end

-----------------------------------------------------------------------------
(* The stores *)

Sold(p, standings) == store[p].standing \in standings

\* The store changes what it knows of p to s and sends a notification of it.
Publish(p, s, type) ==
    /\ Len(sent) < MaxNotes
    /\ store' = [store EXCEPT ![p] = s]
    /\ sent' = Append(sent, [purchase |-> p, type |-> type, end |-> s.end])
    /\ pending' = pending \cup {Len(sent) + 1}
    /\ UNCHANGED <<now, recorded, row, flag, call, history>>

Tick ==
    /\ now < MaxTime
    /\ now' = now + 1
    /\ UNCHANGED <<store, sent, pending, recorded, row, flag, call, history>>

Sell(p) ==
    /\ Sold(p, {"unsold"}) /\ now <= LastSale
    /\ store' = [store EXCEPT ![p] = [standing |-> "paid", end |-> now + 1, auto |-> TRUE]]
    /\ UNCHANGED <<now, sent, pending, recorded, row, flag, call, history>>

\* A renewal, in time or after a failed payment.
Renew(p) ==
    /\ Sold(p, {"paid", "unpaid"}) /\ store[p].auto
    /\ store[p].end < MaxEnd
    /\ Publish(p, [standing |-> "paid", end |-> store[p].end + 1, auto |-> TRUE], "renewed")

CancelAutoRenewal(p) ==
    /\ Sold(p, {"paid", "unpaid"}) /\ store[p].auto
    /\ Publish(p, [store[p] EXCEPT !.auto = FALSE], "autoOff")

\* Google's SUBSCRIPTION_RESTARTED is handled as a renewal.
RestartAutoRenewal(p) ==
    /\ Sold(p, {"paid", "unpaid"}) /\ ~store[p].auto
    /\ Publish(p, [store[p] EXCEPT !.auto = TRUE], IF Android(p) THEN "renewed" ELSE "autoOn")

MissPayment(p) ==
    /\ Sold(p, {"paid"}) /\ store[p].auto /\ now >= store[p].end
    /\ \E type \in {"grace", "hold"} : Publish(p, [store[p] EXCEPT !.standing = "unpaid"], type)

Expire(p) ==
    /\ Sold(p, {"paid", "unpaid"}) /\ now >= store[p].end
    /\ Publish(p, [store[p] EXCEPT !.standing = "expired"], "expired")

\* Google ends what it revokes at once; Apple leaves the date of a refunded
\* transaction as it was.
Revoke(p) ==
    /\ Sold(p, {"paid", "unpaid"})
    /\ Publish(p, [standing |-> "revoked", auto |-> store[p].auto,
                   end |-> IF Android(p) /\ now < store[p].end THEN now ELSE store[p].end],
               "revoked")

ReverseRefund(p) ==
    /\ Sold(p, {"revoked"}) /\ ~Android(p)
    /\ Publish(p, [store[p] EXCEPT !.standing = "paid"], "refundReversed")

-----------------------------------------------------------------------------
Waiting(c, at) == call[c].at = at
Goto(c, at) == call' = [call EXCEPT ![c].at = at]
Return(c) == call' = [call EXCEPT ![c] = Idle]

\* The sender has its answer, if that does not get lost.
Acknowledge(n) == pending' \in {pending \ {n}, pending}

With(r, columns) == [k \in DOMAIN r |-> IF k \in DOMAIN columns THEN columns[k] ELSE r[k]]

\* The call d is about to write a date it holds for p.
HoldsDate(d, p) ==
    \/ call[d].at \in {"look", "insert", "update"} /\ call[d].purchase = p
    \/ Waiting(d, "write") /\ sent[call[d].note].purchase = p
                           /\ sent[call[d].note].type \in {"renewed", "refundReversed"}

\* Two calls hold a date for p: the later one may be written first.
Contest(c, p) == \E d \in Calls \ {c} : HoldsDate(d, p)

\* The date is not the one the store's API would give.
Dated(p, end) == end # store[p].end

-----------------------------------------------------------------------------
(* /purchases/verify *)

\* verifyReceipt learns the date up to which p is paid and goes on to the row.
Verified(c, p, end) ==
    /\ Waiting(c, "idle")
    /\ call' = [call EXCEPT ![c] = [at |-> "look", purchase |-> p, end |-> end]]
    /\ backdated' = (backdated \/ Contest(c, p) \/ Dated(p, end))
    /\ UNCHANGED <<outside, pending, recorded, row, flag, strayed>>

\* Google is asked for the purchase, which must be paid.
AskGoogle(c, p) ==
    /\ Android(p) /\ Sold(p, {"paid"})
    /\ Verified(c, p, store[p].end)

\* Apple is asked for the receipt, which must not have expired.
AskApple(c, p) ==
    /\ ~Android(p) /\ ~Sold(p, {"unsold"})
    /\ now < store[p].end
    /\ Verified(c, p, store[p].end)

\* verifyJWSTransaction: the app's signed transaction, of this period or an earlier
\* one, must not have expired.
ReadTransaction(c, p, end) ==
    /\ ~Android(p) /\ ~Sold(p, {"unsold"})
    /\ now < end /\ end <= store[p].end
    /\ Verified(c, p, end)

LookUp(c) ==
    /\ Waiting(c, "look")
    /\ Goto(c, IF row = NoRow THEN "insert" ELSE "update")
    /\ UNCHANGED <<outside, pending, recorded, row, flag, history>>

\* A handler has the row in hand for another purchase than p.
Strays(p) == \E d \in Calls : /\ call[d].at \in {"fetch", "write"}
                              /\ sent[call[d].note].purchase # p

\* userId is unique: a second insert fails.
WriteReceipt(c) ==
    /\ call[c].at \in {"insert", "update"}
    /\ IF Waiting(c, "insert") /\ row # NoRow
       THEN Return(c) /\ UNCHANGED <<row, strayed>>
       ELSE /\ row' = [purchase |-> call[c].purchase, status |-> "active", end |-> call[c].end]
            /\ strayed' = (strayed \/ Strays(call[c].purchase))
            /\ Goto(c, "unlock")
    /\ UNCHANGED <<outside, pending, recorded, flag, backdated>>

Unlock(c) ==
    /\ Waiting(c, "unlock")
    /\ flag' = TRUE
    /\ Return(c)
    /\ UNCHANGED <<outside, pending, recorded, row, history>>

-----------------------------------------------------------------------------
(* Notifications *)

\* Variant with a bug: the row is looked up by the user alone.
FoundForUser(p) == row # NoRow

\* The row with the notification's purchaseToken or originalTransactionId.
Found(p) == row # NoRow /\ row.purchase = p

\* The handler of the notification n begins, with the row it has found.
Handle(c, n) ==
    LET p == sent[n].purchase
        type == sent[n].type IN
    IF Found(p) /\ (type = "refundReversed" => now < sent[n].end)
    THEN /\ call' = [call EXCEPT ![c] =
                [at |-> IF type = "renewed" THEN "fetch" ELSE "write",
                 note |-> n, was |-> row.status, end |-> sent[n].end]]
         /\ backdated' = \/ backdated
                         \/ type = "refundReversed" /\ (Contest(c, p) \/ Dated(p, sent[n].end))
         /\ UNCHANGED pending
    ELSE Acknowledge(n) /\ Return(c) /\ UNCHANGED backdated

\* handleMessage: any worker takes a message of Google's.
TakeMessage(c, n) ==
    /\ Waiting(c, "idle")
    /\ n \in pending /\ Android(sent[n].purchase)
    /\ Handle(c, n)
    /\ UNCHANGED <<outside, recorded, row, flag, strayed>>

\* handleWebhook: Apple calls any worker.  What is recorded is not processed ...
TakeWebhook(c, n) ==
    /\ Waiting(c, "idle")
    /\ n \in pending /\ ~Android(sent[n].purchase)
    /\ IF n \in recorded
       THEN Acknowledge(n) /\ UNCHANGED call
       ELSE call' = [call EXCEPT ![c] = [at |-> "record", note |-> n]] /\ UNCHANGED pending
    /\ UNCHANGED <<outside, recorded, row, flag, history>>

\* Variant with a bug: notificationUUID is not unique.
RecordWithoutKey(c) ==
    /\ Waiting(c, "record")
    /\ recorded' = recorded \cup {call[c].note}
    /\ Goto(c, "find")
    /\ UNCHANGED <<outside, pending, row, flag, history>>

\* ... then it is recorded, under a unique key, before it is processed.
Record(c) ==
    LET n == call[c].note IN
    /\ Waiting(c, "record")
    /\ IF n \in recorded
       THEN Acknowledge(n) /\ Return(c)
       ELSE Goto(c, "find") /\ UNCHANGED pending
    /\ recorded' = recorded \cup {n}
    /\ UNCHANGED <<outside, row, flag, history>>

\* processNotification
Process(c) ==
    /\ Waiting(c, "find")
    /\ Handle(c, call[c].note)
    /\ UNCHANGED <<outside, recorded, row, flag, strayed>>

\* Variant with a bug: the date is the one the notification came with.
FetchFromNote(c) ==
    /\ Waiting(c, "fetch")
    /\ Goto(c, "write")
    /\ backdated' = (backdated \/ Contest(c, sent[call[c].note].purchase))
    /\ UNCHANGED <<outside, pending, recorded, row, flag, strayed>>

\* handleRenewed asks the store for the date up to which p is paid.
Fetch(c) ==
    LET p == sent[call[c].note].purchase IN
    /\ Waiting(c, "fetch")
    /\ call' = [call EXCEPT ![c] = [at |-> "write", note |-> call[c].note,
                                    was |-> call[c].was, end |-> store[p].end]]
    /\ backdated' = (backdated \/ Contest(c, p))
    /\ UNCHANGED <<outside, pending, recorded, row, flag, strayed>>

\* Apple's API fails: the date is the one the notification came with.
FallBack(c) ==
    LET p == sent[call[c].note].purchase IN
    /\ Waiting(c, "fetch")
    /\ ~Android(p)
    /\ Goto(c, "write")
    /\ backdated' = (backdated \/ Contest(c, p) \/ Dated(p, call[c].end))
    /\ UNCHANGED <<outside, pending, recorded, row, flag, strayed>>

\* Variant with a bug: the type of the notification is taken for the status.
ColumnsOfType(type, was, end) ==
    CASE type \in {"renewed", "refundReversed"} -> [status |-> "active", end |-> end]
      [] type = "autoOn" -> [status |-> was]
      [] OTHER -> [status |-> type]

\* The columns each handler writes.
Columns(type, was, end) ==
    CASE type \in {"renewed", "refundReversed"} -> [status |-> "active", end |-> end]
      [] type = "autoOn"  -> [status |-> was]
      [] type = "autoOff" -> [status |-> "cancelled"]
      [] type = "grace"   -> [status |-> "grace_period"]
      [] type = "hold"    -> [status |-> "unpaid"]
      [] type \in {"expired", "revoked"} -> [status |-> type]

\* Types after which the user's flag is written too.  Google's renewal leaves it.
Flags(p, type) ==
    \/ type \in {"expired", "revoked"}
    \/ ~Android(p) /\ type \in {"renewed", "refundReversed"}

\* The row is updated by its id, whatever it has become.
Write(c) ==
    LET n == call[c].note
        type == sent[n].type IN
    /\ Waiting(c, "write")
    /\ row' = With(row, Columns(type, call[c].was, call[c].end))
    /\ IF Flags(sent[n].purchase, type)
       THEN Goto(c, "flag") /\ UNCHANGED pending
       ELSE Return(c) /\ Acknowledge(n)
    /\ UNCHANGED <<outside, recorded, flag, history>>

SetFlag(c) ==
    LET n == call[c].note IN
    /\ Waiting(c, "flag")
    /\ flag' = (sent[n].type \in {"renewed", "refundReversed"})
    /\ Return(c)
    /\ Acknowledge(n)
    /\ UNCHANGED <<outside, recorded, row, history>>

\* A call ends before its time: the worker dies, or a statement or the store fails.
\* handleRenewed swallows the failure; else Google's message is sent again.  Apple
\* is answered with status 200 whatever happened, and calls again only for want of
\* an answer.
Abort(c) ==
    /\ ~Waiting(c, "idle")
    /\ Return(c)
    /\ IF "note" \in DOMAIN call[c]
          /\ \/ ~Android(sent[call[c].note].purchase)
             \/ sent[call[c].note].type = "renewed"
       THEN Acknowledge(call[c].note)
       ELSE UNCHANGED pending
    /\ UNCHANGED <<outside, recorded, row, flag, history>>

-----------------------------------------------------------------------------
Sale(p) ==
    \/ Sell(p) \/ Renew(p) \/ CancelAutoRenewal(p) \/ RestartAutoRenewal(p)
    \/ MissPayment(p) \/ Expire(p) \/ Revoke(p) \/ ReverseRefund(p)

Start(c) ==
    \/ \E p \in Purchases :
          AskGoogle(c, p) \/ AskApple(c, p) \/ \E end \in Time : ReadTransaction(c, p, end)
    \/ \E n \in pending : TakeMessage(c, n) \/ TakeWebhook(c, n)

Continue(c) ==
    \/ LookUp(c) \/ WriteReceipt(c) \/ Unlock(c)
    \/ Record(c) \/ Process(c)
    \/ Fetch(c) \/ FallBack(c) \/ Write(c) \/ SetFlag(c)
    \/ Abort(c)

Next ==
    \/ Tick
    \/ \E p \in Purchases : Sale(p)
    \/ \E c \in Calls : Start(c) \/ Continue(c)

Spec == Init /\ [][Next]_vars

-----------------------------------------------------------------------------
(* Properties *)

\* "Prevents duplicate processing of the same notification":
\* apple-notification.entity.ts:11.  No two calls have the same webhook of Apple's
\* in hand, however often and to how many workers it comes.
Processing(c, n) ==
    /\ call[c].at \in {"find", "fetch", "write", "flag"}
    /\ call[c].note = n
TakenOnce ==
    \A n \in recorded : \A c, d \in Calls : Processing(c, n) /\ Processing(d, n) => c = d

\* A subscription only ends or is suspended by a notification of its own purchase,
\* not by a late one of a purchase it has replaced; but for a replacement while the
\* latter was being handled.
StatusOf(n) == Columns(sent[n].type, "active", sent[n].end).status
EndedByOwnPurchase ==
    row # NoRow /\ row.status # "active" =>
        \/ \E n \in 1..Len(sent) : sent[n].purchase = row.purchase /\ StatusOf(n) = row.status
        \/ strayed

\* Renewals that come late or twice never shorten what is paid for, since handleRenewed
\* asks the store; but for two calls that hold a date at a time, a date that
\* is not the store's, and what Google has revoked.
EndNeverGoesBack ==
    [][row # NoRow /\ row'.purchase = row.purchase /\ row'.end < row.end =>
         backdated \/ strayed \/ Sold(row.purchase, {"revoked"})]_vars

\* "Cancellation takes effect at the end of the current billing period. You will
\* retain access to Subscription features until that date.": docs/TERMS_OF_SERVICE.md:149.
\* (Refuted: access asks for status active.)
PaidPeriodKept ==
    row # NoRow /\ row.status \in {"active", "cancelled"} /\ Sold(row.purchase, {"paid"})
        /\ now < row.end /\ row.end = store[row.purchase].end
    => HasActiveSubscription

=============================================================================
