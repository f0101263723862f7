# Drawback backend in TLA+

A formal model of the DrawkcaB backend: a NestJS server that lets two users, or
a group, draw together over Socket.IO.  It runs as several PM2 workers
(`ecosystem.config.js`, `instances: 'max'`) that share MySQL through TypeORM and
Redis, which is also the bus of the Socket.IO adapter.  Hardly anything
in the code holds a lock or a transaction around what follows, so almost every handler is a
sequence of reads and writes that handlers of other requests, on this worker or
another, run in between.  That is what the modules are about.

Modules that end in `_proofs` hold theorems, modules that start with `MC` the
instances that TLC checks.

## Inventory

| Component | State | Operations | Hard behaviour |
|---|---|---|---|
| Realtime sessions (`draw.gateway.ts`) | `socketToUser` per worker; Redis: user → socket hash, a key and metadata per socket | handshake, disconnect, superseding the previous socket on any worker, admin listing that prunes metadata | handshakes and disconnects of one user on several workers; crashes; late pub/sub messages |
| Drawing rooms (`draw.gateway.ts`) | Socket.IO rooms, `socketToRoom` per worker, `currentRoom` in Redis | `joinChat`, `joinGroup`, `leaveChat`, `forceCloseRoom`, `forceRemoveUserFromRoom` | right, membership and map change at different times and places |
| Room presence (`draw.gateway.ts`) | what clients have been told | peer joined / left / waiting / room closed | two joins at a time; reconnections; events behind metadata |
| Rate limiting (`draw.gateway.ts`) | `clearRateMap`, `strokeRateMap` | hit, sweep each minute, disconnect | window boundaries; sweep against hits |
| Chat requests, saved chats (`chat.service.ts`) | `chat_requests`, `saved_chats` | create, respond, cancel, remove, save, join | read, decide, write by id |
| Group chats (`chat.service.ts`) | groups, members, invitations | create, invite, respond, remove, delete | two writes without a transaction; stale membership |
| User blocks (`users.service.ts`) | `user_blocks` | block with closing the rooms, unblock | against joins and answers under way |
| Users, profile, discovery (`users.service.ts`) | `users`, grants and snapshots | profile saves, `deleteAccount`, discovery game | saves of the whole row read earlier; a deletion in several steps |
| Authentication (`auth.service.ts`, `jwt.strategy.ts`) | `users`, `credentials`, challenge in Redis | register, confirm, login, reset, delete, passkeys | increment and read apart; links and challenges used twice; rows saved from a stale read |
| Purchases (`purchases/`) | `subscriptions`, `apple_notifications` | `verifyReceipt`, Apple and Google webhooks | lost, duplicated, reordered notifications; the row changing hands |
| Push notifications (`notifications/`) | `push_tokens`, cooldown keys | register token, deactivate, send, drop refused tokens | registrations that overlap; rows deleted by an id that means another token by then |
| Cache and locks (`cache/`) | Redis | get, set, `acquireLock`, `releaseLock` | lock expiry |
| Backup (`backup/`) | GridFS and its metadata, the active operation of each process | periodic backup, retention, restore | every worker's cron fires; failures between dump, upload, metadata, clearing and refilling |
| Administration (`admin/`) | through the others; audit log | ban, unban, reset, export, listing sockets | saves against saves of the user |
| Session events, reports, app config, storage, mail, CLI | single rows or none | CRUD, I/O | none of their own |

They interact by calls inside a worker (REST controllers → `ChatService`,
`UsersService` → `DrawGateway`), by rows that one handler reads and another
writes, and across workers by Redis keys and by the adapter's messages
(`emit`, `socketsLeave`, `disconnectSockets`, `fetchSockets`).  What makes each
component correct is listed with its run below; the hazards each property is
aimed at, with their lines, are in `PROJECT.json`.

## Modules and the code

Conventions of all modules.

* A handler is cut at its awaits: each part is an action, a `pc`-like variable
  (`conn`, `disc`, `call[c].at`, ...) says where it waits, and what it has read is
  kept in the state.  Between two parts anything else may run.
* A TypeORM `save()` is one step: it compares the entity with the row there is
  then and writes what differs, or inserts the row if it has gone.  A `delete` or
  `update` is one step, and its foreign-key cascades with it.
* A crash, a database error or a refusal that needs no state of the model ends a
  call between two parts.
* *History variables* (`overlapped`, `clobbered`, `slipped`, `orphaned`,
  `contested`, `rivals`, `raced`, `tokenRace`, `misled`, `doubled`, `strayed`, `met`, ...)
  name the races the code is open to.  A property of the form "P but for these races"
  says that nothing else breaks P; its strength is in how little the race covers.
* A definition that begins `\* Variant with a bug` is not part of `Next`.  It is a
  plausible mistake in the definition it precedes, and the property it is listed
  with in `PROJECT.json` fails when it takes that definition's place.

**WindowQuota** is the abstract specification of a rate limiter: windows that open
with an event and admit the first `Limit`.  **RateLimiter** is one entry of one
map: `isClearRateLimited` / `isStrokeRateLimited` (`Hit`), the sweep of
`afterInit`, `handleDisconnect`.  `INSTANCE WindowQuota` maps an expired, a swept
and a missing entry to "no window".  The clock is a variable that never goes back, and
`passed` is what has got through by each instant.

**DrawSessions** is `handleConnection` (`Accept`/`Reject`, `ReadPrevious`,
`Register`, `WriteMapping`, `WriteKeys`), `handleDisconnect` (`CloseTransport`,
`ReadCurrent`, `ClearMapping`, `DeleteKeys`), the adapter's disconnect (`Kick`) and
the admin's listing (`Sweep*`).  Each socket is on a worker of its own, the
placement that orders least.

**DrawRooms** is who may be in a room (MySQL: `accepted`, `blocks`, `members`), who
is (`inRoom`), and what the worker thinks (`socketToRoom`).  `FindRequest` →
`CheckBlock` → `Enter` is a join of a chat, `FindMember` → `Enter` of a group.
`BlockUser`, `RemoveRoom` (of a chat or a group), `RemoveMember` and `DeleteAccount`
start a task that lists the rooms, takes the adapter's snapshot of the sockets, sends
`socketsLeave` and erases the row, in the order of the code; `DeliverLeave` and
`DeliverEvict` are its arrival on a worker.  `RemoveUser` is the last step of a deleted
account: its chats, memberships and groups go by their foreign keys.

**RoomPresence** is the rest of `joinChat`: `Fetch` (`fetchSockets`, taken as one
snapshot), the list and `draw.peer.joined` (`Announce`), `isUserInRoom` (`Locate`,
`Compare`), `draw.peer.waiting`; with leave, disconnect, force-close and reconnection
(`Connect`: the mapping names the new socket, and the old one is told to go).  Redis
delivers the events of the room in one order to each worker's `inbox`.

**ChatRequests** is `createRequest`, `respondToRequest`, `cancelRequest`,
`getAcceptedRoomForUser`, `removeAcceptedChat`, `saveChat`, `deleteSavedChat` as
calls in `call`, with the rows `status`, `saved` and `blocks`.

**GroupChats** is `createGroup`, `inviteMember`, `respondToGroupInvitation`,
`removeMember`, `deleteGroup`, likewise; `removals` tells one membership of a user
from the next.

**Accounts** is one row of `users` and the calls that save it: `login` and passkey
login (`FindToLogin`, `Increment`, `SignToken`), `confirmEmail`, `resetPassword`,
the calls that mail a link, the profile saves, `confirmDelete` with
`deleteAccount`, and the admin's bans.

**Passkeys** is the passkeys of one account: `startPasskeyRegistration`,
`startPasskeyLogin` (`Store`, under one key of Redis per user), `finishPasskeyRegistration`
and `finishPasskeyLogin` (`Submit` → `GetChallenge` → `Verify` → `CheckExisting` →
`Insert`, or → `SaveCredential`), `deleteCredential`.  `Insert` is the one transaction
of the service, with its clean-up and its limit.  CacheService swallows the failures of
Redis, so a challenge may fail to be stored, read or deleted.

**Subscriptions** is one user's row of `subscriptions` between two stores.  `Sale` is
what the stores do and the notifications they send; `AskGoogle`, `AskApple`,
`ReadTransaction` → `LookUp` → `WriteReceipt` → `Unlock` is `verifyReceipt`; `TakeMessage`
is Google's listener, `TakeWebhook` → `Record` → `Process` Apple's; `Fetch`/`FallBack` asks
the store again, `Write` and `SetFlag` update by id.

**PushTokens** is the table `push_tokens`: `registerToken` (`FindToken` → `FindUser` →
`DropOther` → `Save`), `deactivateToken`, and the sends with the cooldown lock
(`AcquireCooldown`), a retry and the removal of a refused token (`Attempt`, `Retry`,
`Remove`).

**Backups** is the store of backups and the one thing of the database that counts,
whether it is complete: `RunPeriodic` → dump → upload → `Insert` → `FindOld` →
`DeleteMetadata`/`DeleteFile`, and `BeginRestore` → `Validate` → the pre-restore backup →
`Clear` → `Refill`; `busy` is `operationActive` of each process.

DrawRooms has the effect on rooms of what ChatRequests and GroupChats have in
detail, and RoomPresence details what follows `Enter` of DrawRooms; Accounts and
Passkeys share the account, which Passkeys takes to be active.  Each is checked on its
own because the product is out of reach and the components share only the rows and
keys both contain.

## Runs

All of them allow deadlock: every one bounds sockets, joins, calls or links, and
a system where all of these are used up has stopped.

| Run | Instance | States | What it shows |
|---|---|---|---|
| `rate` | limit 2, window 3, ten instants, 4 events a window | 9 thousand | the limiter implements `WindowQuota` (`QuotaSpec`); at most twice the limit gets through in any interval of a window's length (`SlidingBound`) |
| `sessions` | 1 user, 2 sockets, 1 crash | 28 thousand | but for overlapping handshakes and a disconnect that removes the next mapping: one live session (`SingleSessionButForRaces`), found by `emitToUser` (`SessionRoutable`); no leftovers (`NoLeftover`); the listing prunes no live socket (`SweepSparesLive`); superseded sockets end (`EventuallyOneSession`) |
| `rooms` | 2 users on 2 workers, a chat and a group, 1 join and 1 task at a time; one account may be deleted; an operation begins with 1 message of earlier ones under way | 1.7 million | a socket is only in the room its worker knows of (`MembershipKnown`); losing the right to a room means leaving it, but for two races and the group rooms of a deleted account (`WithdrawalEmptiesRoom`) |
| `presence` | 2 users, one with a second socket, 3 joins, 2 of them at a time, 1 force-close or reconnection, 2 events behind | 1.7 million | with nothing under way two users in the room know of each other, but for a user with two sockets there (`NobodyWaitsForThePresent`); the peer of a lone user was notified unless metadata was outdated (`PeerToldUnlessMisled`) |
| `chats` | 2 users, 2 requests in one direction, 2 calls | 616 thousand | at most one pending request, an answer is final, bookmarks are of accepted chats, what was told stays true - each but for calls that overlap |
| `groups` | owner and guest, 2 invitations, 3 calls, 2 removals | 111 thousand | the owner stays; no invitation of a member; a removal is not undone by an older invitation; an accepted invitation makes a member - each but for named races |
| `accounts` | 1 account, one link of each kind, 2 calls, 2 logins | 1.5 million | a token is refused once another is signed (`OneValidToken`), a link works once (`LinkOnce`), but for overlapping calls and stale saves |
| `subscriptions` | 1 purchase at each store, 2 calls, 2 notifications, dates to 3, sales at the start | 2.0 million | a notification of Apple is processed once at a time (`TakenOnce`); a subscription ends by its own purchase (`EndedByOwnPurchase`); late renewals do not shorten it (`EndNeverGoesBack`) - but for overlapping handlers |
| `push` | 2 users, 2 tokens, 3 rows, 2 calls | 149 thousand | what a user was told of the registration is what the table says, but for registrations that overlap (`RegistrationStands`) |
| `backups` | 2 backups of one worker, 1 of another, 2 restores, keep 1 of 3 | 361 thousand | a restore that failed leaves a whole backup (`Recoverable`); retention never deletes the newest (`NewestKept`) |
| `passkeys` | 2 credentials, limit 1, 3 ceremonies, 2 calls | 2.7 million | a challenge serves one answer (`ChallengeUsedOnce`); counters and deletions are not undone (`NeverBack`); the limit holds (in `TypeOK`) - but for overlapping calls and failures of Redis |

One more run checks what a document says and finds it violated.
`paid_period_claim`: the terms of service (`docs/TERMS_OF_SERVICE.md:149`) promise access
to the end of the billing period after a cancellation; both webhooks write the status
`cancelled` at once, and `hasActiveSubscription` (`users.service.ts:51`) asks for
`active`.

### Races that the models name

The history variables name the races the code is open to.  Some contradict a comment,
if it is read as a guarantee:

* Two handshakes that both read the mapping before either has written it leave two
  sessions (`overlapped`; "only one active realtime session remains per user",
  `draw.gateway.ts:228`).
* A reconnect that writes between the `HGET` and the `HDEL` of `handleDisconnect` loses
  its mapping (`clobbered`; the guard of `draw.gateway.ts:296`).
* `forceCloseRoom` on one worker leaves the `socketToRoom` entries of its sockets
  on the others behind (`draw.gateway.ts:82`, `:398`).
* `currentRoom` outlives the stay, so that `isUserInRoom` withholds
  `draw.peer.waiting` (`misled`; `draw.gateway.ts:553`, `:595`).
* `deleteAccount` closes the rooms of the user's chats ("Close all active drawing rooms
  for this user", `users.service.ts:140`) and not those of groups: who is in such a
  room stays there (`stranded`).
* Apple's webhook re-throws "so controller returns 400/500"
  (`apple-subscription-events.service.ts:202`); the controller answers 200, and the
  notification is recorded at `:187` before it is handled: a failure loses it.  `Abort`
  of Subscriptions has this.  Likewise Apple's re-enabled renewal writes the status the
  handler has read, so a cancelled subscription stays cancelled.
* `hasDiscoveryAccess` is written with every change of a subscription and read for no
  decision.

Others no comment excludes: an answer
that overlaps with a cancellation inserts the cancelled request again
(`contested`); a join that meets a block deletes the request, so that `blockUser`,
which lists accepted requests afterwards, does not close the room (`orphaned`); a
second pending request (`rivals`); an invitation accepted without becoming a
member when the worker stops in between (`aborted`); a save of an account row
that undoes a ban or a login, or inserts a deleted account again (`tokenRace`,
`raced`); a credential saved by a login after it was deleted, which inserts it again
(`contested` of Passkeys); a notification that updates the row by its id after
`verifyReceipt` has given it to another purchase (`strayed`), or with a date that is not
the store's any more (`backdated`); a registration of a push token that deletes or
overwrites the row of another (`raced`); two restores at a time (`met`).

### Bounds and why they are enough

* Sockets of different users meet only in the admin's sweep, so one user with the
  session that is replaced and the one that replaces it shows the registry; each of
  the two may connect, close, be kicked and lose its worker at any point.  The
  proofs cover any number.
* In `rooms`, the second room is there because a socket joins one while it is in
  another; the second worker because `forceCloseRoom` treats its own differently.
  One task and one join at a time are the pair every race needs; again the proofs
  cover any number.  One account that may be deleted is enough for the rooms it leaves; the proofs cover
  any set of `Leavers`.  An operation begins when at most one message of those before it
  is still under way (`MaxLeaving`): enough for a late withdrawal to meet a join and a
  second withdrawal.  Without that bound (6.9 million states) the properties hold as well,
  and the proofs need none.
* In `presence` one user has a second socket, so that the old one may still be in the
  room, leave it late, or be taken for the peer.  One disruption and three joins give
  every order of a join, a replacement and a rejoin.  Two of
  them may be under way at a time (`MaxJoining`): the joins of the two users, or that of a
  user and of the socket that replaces it.  Three under way, three events behind, or four
  joins (4.4, 8.7 and 12.9 million states), too many for a regular run, hold as well; the
  proofs cover any number.
* Two calls make every race of ChatRequests; in GroupChats a third is needed, the
  removal between two others.
* In Accounts two calls and one link of each kind suffice for a link that is found
  twice, replaced or brought back.  With a second activation link (13.4 million
  states) the properties hold too.
* In `subscriptions` one purchase at each store is a row that changes hands both ways;
  two notifications, two calls and a clock of one period make a late renewal, a
  repeated webhook and a verification between them.  The stores sell at the start
  (`LastSale`); later sales (4.1 million states) hold as well.
* In `push` every pair of calls meets; three rows are the two of the users and one to
  be deleted.  The proofs cover any number of each.
* In `backups` two operations of one process try to run at a time, a third is another
  worker's, and two restores are what may meet.
* In `passkeys` three ceremonies are two registrations and a login; one more credential
  than the limit makes the limit bite; the counters 0 and 1 are an authenticator that
  does not count, one that does, and one whose counter went back.

### Fairness

Only `sessions` assumes any: weak fairness of each handler's continuation (the
Redis replies come, and a handler that waits is resumed) and of the delivery of a
disconnect message.  Nothing obliges a client to connect or close, a worker to
crash or an administrator to list sockets.  Redis pub/sub does not redeliver: a
message lost while a worker is cut off from Redis is left out.

## What is proved

TLAPS checks the following for every value of the constants, from the named
assumptions in the modules (`RateAssumption`, `SessionsAssumption`,
`RoomsAssumption`, `RequestsAssumption`, `PresenceAssumption`, `GroupsAssumption`,
`AccountsAssumption`, `BackupsAssumption`, `SubscriptionsAssumption`,
`PasskeysAssumption`, `PushTokensAssumption` and the two `NoRowAssumption`s: owners
are users, sentinels are not members of the sets, bounds are natural numbers, a chat has
two parties, the credentials of an account are finitely many).

* **DrawSessions_proofs, the limiter.** `ImplementsQuota`: the limiter implements
  WindowQuota.  Init maps to Init; each action maps to an action or, for the sweep, to a
  stutter, since a stale entry has expired (`StaleIsExpired`), which needs `RateTypeOK`: no
  window starts in the future.  `AtMostTwice` bounds what passes in an interval of a
  window's length that may lie across two windows: `WindowInv` says that an entry counts
  all that has passed since its window started, and that what passed in the window's length
  before that start is no more than the limit (`WindowCounted`, `Rested`).
* **DrawSessions_proofs, the registry.** `SingleSession`, `Routable` and `NothingLeft` follow from
  `RegistryInv`.  The properties are not inductive: they say nothing of handlers that
  have read the mapping and not written it.  `RegistryInv` adds that of an
  undisturbed user one handshake at a time is in progress (`OneRegistration`), that
  its `HGET` returned the user's session (`AloneKnowsSession`), so that none is live once
  it has sent `disconnectSockets` (`AloneReplaces`); that the local map holds sockets
  whose handshake has entered them (`MapHoldsRegistered`); that a socket being
  cleaned up is closed and has nothing left to write (`CleaningIsFinal`); and that a
  mapping found to name another socket does not come back (`NotMappedAgain`).
  `SweepSparesConnected` adds that the listing only prunes sockets that had opened when
  it began and were not open when it asked for those of the cluster (`SweepInv`).
* **DrawRooms_proofs.** `KnownMembership` is inductive with `TypeOK`.
  `WithdrawalEmpties` needs `RoomsInv`: a room about to be erased, and that of a chat
  whose request is gone, has been told to leave, but for the named races
  (`ErasedTold`, `UnacceptedTold`), only chats are listed by `blockUser` and
  `deleteAccount` (`ListsChats`), and a deletion has closed the chats of its account before
  the account goes (`LeaversClose`).
* **DrawRooms_proofs, the push tokens.** `PushTypeCorrect` has the two unique keys of the
  table.  `Registrations` rests on `TableInv`: until a registration writes a row that
  another call has in hand, the row a call found is still the one of the token or user it
  looked for (`HandOK`), and the table has of each user what they were last told
  (`Tells`).
* **ChatRequests_proofs.** `AnswersAreTrue`, `OnlyAcceptedSaved` and
  `RequestsFollowLifecycle` rest on `ChatsInv`: an uncontested request has at most one
  call that means to write it (`Exclusive`), and what that call has read still holds
  (`ReadHolds`).  `OnePending` rests on `RivalsInv`, of the calls that have looked
  for duplicates.
* **ChatRequests_proofs, the presence in a chat's room.** `NobodyWaits` rests on
  `PairOK`, of each two sockets that are in the room while nothing is settled: one of them
  is being evicted, or the other has yet to announce itself, or it knows of the other or is
  going to (`Knows`) - by an answer of `fetchSockets` or a `draw.peer.joined` on its way,
  with no `draw.peer.left` behind it.  That a leaving socket is not taken for one that stays
  needs `RoomInv` (who shares the room with a socket of the same user, or with an entry of
  one, is in `doubled`); that the list of `chat.joined` names the peer needs `KeysStand`
  (only a closed socket loses its key); that there is one answer to wait for, and that a
  room that is told to be closed is emptied, `QueueOK`.  `PeersAreTold` rests on `ToldOK`:
  whose `fetchSockets` named somebody has met them.
* **GroupChats_proofs.** `TypeCorrect` needs that a call knows its place (`CallsInv`) and
  that no one else adds the owner or deletes the group in between (`OwnerInv`).
  `OwnersStay` rests on `StayInv` (whoever is let in finds the owner inside);
  `NeedlessAreRaced` and `NoReturns` on `PlaceInv`: an invitation without a race has one
  call that answers it, and its invitee is as when it was sent; `AcceptedAreMembers`
  is inductive with these.
* **Backups_proofs.** `NewestAreKept` and `TypeCorrect` rest on `StoreInv`: what is about
  to be deleted is stored, not listed when its file goes, and none of the newest
  (`DeletingInv`), where a backup that is not among the newest never is again
  (`NewestOfFewer`).  `Recoverability` rests on `RestoreInv`: one restore at a time, the
  backup that it has taken is listed, not periodic and so out of retention's reach, and
  whole when the database was (`SavedKept`, `SavedWhole`).
* **Subscriptions_proofs.** Every step is a sale, a tick or one of nine effects of a
  call, and each invariant is shown for each.  `Once`: a call that processes one of
  Apple's notifications has recorded it (`OnceInv`).  `EndedByItsOwn`: but for strays what
  a handler has read is still of the row's purchase (`RowInv`).  `EndsStay`: but for the
  two races no date in the row or in a call's hands is later than the store's, and one
  call at a time holds one (`EndInv`).
* **Passkeys_proofs.** `ChallengeServesOnce` rests on `ReadersInv`: a challenge has one
  reader until an answer is verified against it, and none afterwards.
  `NothingGoesBack` rests on what a call has read being still in the row while nobody
  else has written it (`HeldInv`), on a credential being registered by one ceremony and
  one call (`RegisterInv`, `InsertInv`), and on deleted ones being absent (`RemovedInv`).
  The limit, in `TypeCorrect`, follows from rows having different ages (`LimitInv`):
  the number of newer rows is an injection of the kept ones into the numbers below the
  limit (`NewestBounded`).

* **Accounts_proofs.** `LinkUsedOnce` rests on `HolderInv` and `SpentInv`: an uncontested
  link is in the hands of one call, and once used in nobody's and not in the row.
  `OneToken` rests on `NoRaceInv`: without a race the session version of the row is the last
  that was given out, one login at a time is about to sign (`VersionInv`), and an account is
  activated once, before any login (`ActivationInv`).  The proof found what two calls at a
  time do not show: a login whose increment met no row, as the account was being deleted,
  signs for a version that another login has been given if a third call's save brings the
  row back in between.  `tokenRace` now names that save.

Only model-checked: `EventuallyOneSession` (liveness is out of the prover's reach, as is
ENABLED) and `paid_period_claim`, which is violated.  Every other property of a run is a
theorem.

## What is not modelled

Within the modules: the 24 h expiry of socket metadata and the expiry of mailed
links; messages that Redis loses; the lookups of accounts that precede a
handler's own, which are a refusal; the relaying of strokes, emotes and clears;
the events of group rooms; what a ban does to an open socket; one purchase verified
for two accounts; a second push provider; the rolling backup (nothing writes it) and
data-only backups; checksums, GridFS, `mysqldump` and `mysql`, which are their results;
wording of errors and events.  The refusal to delete the last passkey never applies:
registration always sets a password.

Of the cache, `acquireLock` with its expiry is in PushTokens and the key-value calls with
their swallowed failures are in Passkeys; the rest is lists and
patterns that nothing modelled uses.  The discovery game (grants that extend one another,
snapshots) is queries around single-row writes and is left out.  Session events,
reports, application configuration, storage, mail, the CLI and the migrations are
single statements or I/O, without interplay worth a model.

Two hazards in `PROJECT.json` have no property: a save that undoes a ban
(`auth.service.ts:263`) and a notification lost by a failure
(`apple-subscription-events.service.ts:187`).  Both are behaviours of the models; a
property that excepts them would say nothing more.

## Plan

Done: rate limiter, sessions, rooms with the deletion of accounts, presence with
reconnections, chat requests, groups, accounts, passkeys, subscriptions, push tokens,
backups; proofs of every safety property that a run checks.

Left, in this order:

1. **DiscoveryAccess** - grants that extend one another, snapshots.
2. The events of group rooms in RoomPresence, and bans against open sockets in
   DrawSessions.
