# A TLA+ model of faceless-server

faceless-server is the relay of an end-to-end encrypted messenger: a single Go
process that authenticates devices, keeps track of who is connected, stores
messages until they are delivered, relays the signaling of calls, and brokers
uploads to an object store. Its hard parts are not its algorithms but its
interleavings: every socket has goroutines of its own, every handler runs
concurrently with every other, and between two queries anything may happen.

This directory models those parts, checks them with TLC on small instances, and
proves the most important properties with TLAPS for all instances.

## 1. The system

| Component | State | Operations | Modelled by |
|---|---|---|---|
| Presence, `socketio/presence.go` | maps `users`, `timers` under one lock; a `time.AfterFunc` per user who left | Add, Remove, timer closure, broadcast, emit, wait for a socket | `Presence`, `SocketRegistry` |
| Socket server, `socketio/server.go` | none of its own | handshake, onConnect, disconnect handler | `Connect`, `StartDrain`/`Ready`, `Disconnect` of the handler modules |
| Chat, `socketio/chat.go`, `delivery.go` | tables `messages`, `pending_events`, `avatar_pointers` | message:send, ack, delete, typing, profile:avatar, the two drains | `MessageDelivery` |
| Calls, `socketio/signaling.go` | maps `callTimings`, `activeCalls`, `callIceCount` under `callMu` | call:offer, answer, ice, hangup, reject, toggle-video, endCall, cleanup | `CallSignaling` |
| Files, `files/service.go`, `routes/files.go` | table `files`, the object store | RequestUpload, Commit, DownloadURL, DeleteByMessage, hourly sweep | `FileStore` |
| Cleanup, `db/cleanup.go` | - | stale messages, retired codes | actions of `MessageDelivery`, `FileStore` and `Contacts` |
| Avatars, `avatars/service.go`, `routes/avatars.go` | table `avatars`, the object store | upload, commit (swap), delete, sweep | `Avatars` |
| Contacts, `routes/contacts.go`, `contactcode` | tables `contacts`, `retired_codes`, `users.contact_code` | request, accept, reject, regenerate code | `Contacts` |
| Registration, `routes/auth.go`, `pow/pow.go` | table `users`, map of challenges under one mutex | challenge, register, recover, validate invite | `Registration` |
| Push, `push/push.go`, `db/tokens.go`, `routes/devicetoken.go` | table `device_tokens` | wake, register, unregister, prune | `DeviceTokens` |
| Schema, `db/schema.go`, `migrate.go` | the database, across restarts | create, migrate, backfill | `Migration` |
| Signatures, admin, statistics, config, logging, names, drivers, scripts | - | stateless, or counters nobody reads back | left out |

How they interact. `onConnect` runs `presence.Add`, registers the handlers and
starts a drain in a goroutine; `disconnect` runs `presence.Remove` and then
`cleanupCallTracking`. Chat and call handlers ask presence whether a user is
online and emit through it. Missed calls are written by `signaling.go` into
`pending_events`, which `delivery.go` drains. `message:delete` calls
`files.DeleteByMessage`; the cleanup of stale messages unlinks files so that
the sweep of the file service finds them. Avatars use the same object store and
are loops and handlers of the same kind, on a table of their own. HTTP handlers
(contacts, registration, tokens, uploads) share nothing but the database: each
reads, decides and writes in queries of its own, and only a few of the writes
are transactions. Start-up runs the migration before anything is served.

What makes each of them correct:

- Presence: a timer is neither lost nor left in another one's place; contacts
  see the truth in the end; a registered socket can be emitted to.
- Delivery: a stored message reaches every socket its user has; a queued notice
  is emitted before it is deleted.
- Calls: every offer settles; a call nobody answered is recorded as missed, and
  once.
- Files: no object is forgotten; the quota holds; what is unwanted is
  reclaimed, what is wanted is not.
- Avatars: what can be downloaded exists; a user has one avatar of a kind, and
  keeps it until the next one is there.
- Contacts: a contact is mutual and stays; a request can be accepted; a code
  that was given up leads to nobody.
- Registration: a use of an invitation becomes a user or is not used; a
  challenge pays once and for the work it asks; names are unique.
- Device tokens: a device that can be woken stays so until its user leaves.
- Migration: it may be cut off anywhere, loses nothing, and comes to its end.

`PROJECT.json` lists the hazards behind these, at their lines, with the
properties that would catch each of them.

## 2. The modules

| Module | Content |
|---|---|
| `SocketRegistry` | abstract specification: what presence promises the other handlers |
| `Presence` | `presence.go` at the grain of its critical sections; implements `SocketRegistry` |
| `MessageDelivery` | messages and notices, on top of `SocketRegistry` |
| `CallSignaling` | the signaling handlers, on top of `SocketRegistry` |
| `FileStore` | files, the object store, the sweep, restarts |
| `Avatars` | avatars of one user, the object store, stops |
| `CallLedger` | abstract specification: the life of a call attempt; implemented by `CallSignaling` |
| `Contacts` | contact requests, contact codes and their retirement |
| `ContactBook` | abstract specification: what a pair of users goes through; implemented by `Contacts` |
| `Registration` | proof of work, invitations, users |
| `DeviceTokens` | table `device_tokens` beside the fan-out of wakes |
| `Migration` | start-up over an older database, cut off and repeated |
| `PresenceProofs`, `DeliveryProofs`, `CallProofs`, `FileProofs`, `AvatarProofs`, `ContactProofs`, `RegistrationProofs`, `MigrationProofs` | the theorems |
| `MC...` | an instance of each module for TLC |

`MessageDelivery` and `CallSignaling` EXTEND the abstract registry and conjoin
its actions `AddRaw`, `Attach`, `RemoveRaw` into their own, so that they are
checked against what presence promises and not against its timers. That the
promise is kept is the refinement `Presence!RegistrySpec`, checked and proved;
that both handler modules stay within it is `RegistryIsUsed`, proved for each.

### Presence

One socket is one connection. `add[s]` is the program counter of its `Add`
goroutine: `AddRaw` is the first critical section, `AnnounceOnline` the
broadcast after the unlock, `Attach` the second critical section. A timer of the
model is one `time.AfterFunc` object: `armed`, `fired` (the closure runs and
waits for the lock), `announce` (it has decided and has yet to broadcast),
`free`. Stopping frees a timer only if it is still armed, as `Stop` does.
A broadcast looks the contacts up and may fail: then what they were last told
is unknown (`shown`). `decided` records the last verdict taken under the lock,
`hushed` the users without an app socket whose timer a service socket cancelled.
`RemoveRaw` is enabled when `Add` has returned, because `onConnect` registers
the disconnect handler afterwards (`server.go:168`, `183`).

### SocketRegistry

A socket's entry is absent, raw (entered without its pointer) or live.
`IsUserOnline` and `HasAppSocket` count raw entries; `Reachable` does not.
That difference is why `ForwardedRings` of `CallSignaling` fails (section 3).

### MessageDelivery

Every query and every emission is a step. `send[m]` is the handler of
message:send, `notice[n]` the handler that relays or queues a notice,
`drain[s]` the goroutine started by `onConnect`. A service socket's drain is
`deliverMessagesToService`: it selects and emits messages and stops. An emission
counts as delivered to a socket that is connected; a drain outlives its socket
and then emits to nobody. The history variable `window` marks notices that pass
one of the windows in which the code may lose them. `seen` counts an emission to
an app socket only.

A socket of the model connects again when its drain and its acks are over, and
stands for a new socket id then. A retry of message:send starts when the
former handler of the same message has returned.

### CallSignaling

An attempt is one call:offer. `offer[c]` is its handler; `callTimings` maps a
pair of users to the attempt tracked for it, `activeCalls` is the set of
answered pairs, `ending` holds the attempts that an `endCall` has taken out of
the maps and has yet to look at (after it released `callMu`). `leaving` and
`cleaning` are the disconnect handler's snapshot of keys and the keys left of
it. `answered` and `rejected` are history. The deadline of the wait may pass at
any moment. The insertion of the missed-call row is assumed to succeed; its
failure is logged and changes nothing here. `strings.Contains(key, userID)` is
modelled as membership: ids are UUIDs of one length.

`Standing(c)` is the refinement mapping to `CallLedger`: an attempt with a
missed-call row is `missed`, one that `callTimings` holds is `tracked`, one in
`ending` is `taken`, one whose offer has returned is `closed`, and any other is
`open`. The ledger knows no sockets, locks or presence: it says that a pair has
one attempt under way, that what is over stays over, and that an attempt leaves
one row or none.

### FileStore

One uploader: quotas and queries are per sender. `request`, `commit` and
`reclaim` are the program counters of RequestUpload, Commit and the two loops
that delete (`sweep`, `delete`), which fetch a batch first and then go through
it, object before row. `old` are the rows beyond the reserve window, `putUrl`
the valid presigned URLs; a URL expires (15 min) before its row is old (1 h).
`mail[m]` is the life of the message a file is linked to; it is `kept` when the
sender deleted it and the DELETE failed, whose error `chat.go` ignores. `Crash`
forgets every handler and keeps the tables and the store. A query may fail where
that makes a difference: the handlers of uploads and commits end, and the loops,
which ignore the error of their DELETE (`service.go:144`, `160`), go on and leave
the row behind without its object; a lookup that fails and ends its handler or
job is no step, as nothing has changed. `faults` counts failing queries and stops
together. The size check is "the object is there and has the declared size, or
not". One Commit per file runs at a time. `stray` marks objects put too late or
not deleted by the store; `overbooked` marks files whose bytes no check of the
quota has seen; `swept` marks files that the sweep took after Commit had seen
their object, or had in hand when they were linked.

### Avatars

Each query and each call to the store is a step. `upload[a]` follows one
RequestUpload, `commit[c]` one Commit request with its `target` and the `current`
avatar its lookup found; `drop[w][a]` is what the sweep, `DELETE /custom` or a
RequestUpload has fetched and not deleted yet, object before row. `Promote` is
the transaction: it deletes by the id that was looked up and promotes by the id
of the target, whatever has become of either, as the SQL does. `marred`,
`outdated` and `surplus` are history: avatars put late or half deleted, commits
whose lookup no longer describes the table, and what such commits promoted.

### Contacts

`contact[u][v]` is the row of table `contacts` from u to v. A handler looks, then
writes: `at[r]` is how far it has come, `other[r]` whom it is about, `held[r]` and
`drawn[r]` the codes of a regeneration. `FindRow`, `FindRequest` and `ReadCode`
are the SELECTs, `Insert`, `Accept` and `SwapCode` the writes, and any of them may
fail. addContact ignores the error of its second SELECT (`contacts.go:112`), so a
`FindRow` that fails goes on to the INSERT whatever the table holds; the other
failures end the request. `stale` marks requests that rely on a row that has
changed since, or that they failed to see; `oddPairs` and `oddCodes` are what such
requests left: pairs whose rows do not fit together, and codes.
A registration takes its code with the same drawing (`KnowCode`, `TakeCode`).

`ContactBook` sees the rows of the pairs that are not odd: `asked` are the pending
ones, `friends` the accepted ones. A pair is asked, then accepted or rejected; it
becomes odd when a handler writes against a row that it had not seen, and never
once it is a contact.

### Registration

A challenge is `open`, `used` or `gone`; `late` are those past five minutes, which
the garbage collection, at any time, and Verify delete. Digests are values of
SHA-256 taken as given; `HasLeadingZeroBits` walks their bytes as the code does,
and `Bit` is the reference it is compared with (`ZeroBits`); what its loop carries
from byte to byte is written in closed form (`Remaining`). A request checks the key, then
the name, then runs its transaction, which takes a use and inserts the user or
does neither. A query that fails counts as "not found", as in the code. `blind`
and `crowded` mark requests whose check was overtaken or failed, and the users
they registered.

### DeviceTokens

Requests are sets from which any may be handled next, in any order, which covers
late ones. A fan-out reads the tokens of a user once and then sends; FCM knows a
token until it `Die`s. Pruning deletes by value.

### Migration

`db` is what the connection sees, `disk` what a restart finds; between BEGIN and
COMMIT they differ. One action per statement of `migrate.go`, in program order
(`pc`). `Stop` stands for a kill, and for an exit because a statement failed.
Users that register while the server runs are in the model, so that a second
start works on rows of today's shape. The older schemas are those that
`migrate.go` knows: with or without `chat_public_key`, with or without
`username NOT NULL`, or no table at all.

## 3. What is checked

| Run | Instance | Result |
|---|---|---|
| `Presence` | 1 user, 2 app sockets, 1 service socket, 3 timers | holds |
| `DeliveryMessages` | 1 message, 1 app, 1 service socket, queries succeed | holds |
| `DeliveryNotices` | 1 avatar, 2 missed calls, 2 app, 1 service socket, queries fail | holds |
| `CallsGlare` | 2 users, 2 calls that cross, 2 app sockets, 1 service socket | holds |
| `FileStore` | 2 files of 1 message, quota for 1, 1 failing query or stop, failing store | holds |
| `Avatars` | 1 user, 2 uploads of one kind, 2 commits, 2 failures or stops | holds |
| `Contacts` | 2 users, 3 codes, 2 requests, queries fail | holds |
| `Registration` | a founder and 3 keys, 2 names, 2 requests, 3 challenges, difficulty 14, 2 uses | holds |
| `Migration` | 4 users, 4 codes, 2 uses, 3 stops | holds |
| `DeviceTokens` | 2 users, 2 tokens, 2 fan-outs | holds |
| `FilesSweep`, `AvatarsSwap` | the smallest that shows it | violated |

Properties that hold:

- `EntriesMatchAdd`, `RegistrySpec`: the maps agree with the goroutines, and an
  entry is raw between the two critical sections of Add only.
- `CellsHoldTheirTimers`, `OfflineIsScheduled`: a late closure deletes by user
  whatever the map holds (`presence.go:127`), yet no timer that matters is lost.
- `ShownOnlineIsWatched`, `AwayIsShown`: a user who has no socket at all is
  shown online only while a correction is under way, and not for ever.
- `AppGoneIsWatched`: nor is a user who has only service sockets left, but for
  one cause: a service socket that connected within the debounce cancelled the
  timer. Late closures, several sockets and their orders do not add a second.
- `NoMissedMessage`, `StoredReachesSocket`: the order "Add, then drain" and
  "INSERT, then emit" leave no gap between the drain and the live path.
- `LossOnlyInWindows`, `PurgeIsCovered`: what `DELETE ... WHERE user_id` removes
  was emitted, or was inserted in the window between SELECT and DELETE; notices
  get lost there, in a relay to a user without app sockets, and in a drain to a
  socket that left, and nowhere else.
- `OneHolder`, `MissedOnce`: the hand-over of an attempt from offer to tracking
  to `endCall` gives it one holder at any time, so it is recorded once.
- `OnlyCallIsMissed`: the only call of a pair is recorded when it rang out.
- `OfferSettles`: no caller waits for ever.
- `NoObjectForgotten`, `RowDeletedLast`: object before row survives every stop
  and every query that fails.
- `LedgerSpec`, `BookSpec`: calls and contacts implement their abstract
  specifications, so that a reviewer may reason about those.
- `QuotaHolds`: the quota bounds what a sender holds but for the check-then-insert
  window and for reservations that expire before they are committed.
- `LostToSweepOnly`: a file that a message links to has its object, unless its
  sender deleted the message, the sweep had the file in hand when it was linked
  (which is what `FilesSweep` shows), or the sweep took the object after the size
  check, failed to delete the row, and left it to the UPDATE.
- `OrphansAreReclaimed`: abandoned and unlinked uploads go, also after a stop or
  a DELETE that failed: the next sweep finds the row again.
- `DownloadsExist`: a committed avatar has its object, however replacement, sweep,
  deletion and commit interleave; `NoObjectForgotten` is the converse.
- `OneCurrent`: one committed avatar of a kind, except for a promotion by a
  commit whose lookup was overtaken or failed.
- `ListedMaySend`, `RequestsAcceptable`, `AcceptedStays`: contacts are mutual,
  requests acceptable and acceptances final; the exceptions to the first two are
  pairs on which a handler wrote against a row that it had not seen, overtaken by
  another (each such race is a finding) or after a lookup that failed.
- `GivenUpIsRetired`, `RetiredIsNobodys`: a friend who still has an old code finds
  nobody, not a stranger, for 24 hours.
- `UsesConserved`: uses left plus users invited is constant, so a registration
  that fails burns nothing and a race takes no use twice.
- `ChallengePaysOnce`, `WorkWasDone`: a challenge registers one user at the most,
  and only for as many zero bits as it asked for.
- `NamesUnique`: two users share a name only by the check-then-insert window.
- `DataSurvives`, `ServesMigrated`, `ComesUp`: whichever statement a start was cut
  off after, nothing on disk is lost, the next start gets through, and a server
  that serves does so on the full schema.
- `LiveTokenStays`: a late unregistration of a former user, or a fan-out that
  read the row long ago, does not delete the row of a live token.

Statements of the code's comments, tests or README that the code does not keep
(quoted, with their lines, under `findings` of `PROJECT.json`). Two have a run
that shows the violation:

- `FilesSweep` (`LinkedHasObject`): the sweep deletes a file committed since its
  SELECT.
- `AvatarsSwap` (`DefaultIsKept`): a commit sent twice, or overtaken by a second
  reservation, deletes the current avatar and promotes nothing.

The others were found in the same models. Each formula is defined in its module
and is violated in the instance named; no run of the project repeats it:

| Formula | Fails because | Instance |
|---|---|---|
| `Presence!ShownOnlineHasApp` | a service socket cancels the offline timer | 1 app, 1 service socket, 2 timers |
| `Presence!ConnectedIsShown` | an offline broadcast is overtaken by a reconnect's | 2 app sockets, 2 timers |
| `Presence!CancelledWasOnline` | a lone service socket that leaves arms a timer for a user who is offline; an app socket that cancels it is never announced, so `ConnectedIsShown` fails as well | 1 app, 1 service socket, 2 timers |
| `MessageDelivery!MissedCallKept` | a missed call is inserted between SELECT and DELETE | 1 missed call, 1 app socket |
| `CallSignaling!UnansweredIsMissed` | a second offer of the pair replaces the first | 2 calls from one phone |
| `CallSignaling!ForwardedRings` | an offer is forwarded to a raw entry | 1 call |
| `FileStore!GoneIsReclaimed` | files of acked messages are never reclaimed | 1 file, 1 message |
| `Contacts!RequestsDoNotCross` | two users add each other at once; each accept then fails until one rejects | 2 users, 2 requests |

Three more are what the history variables mark: `surplus` (two committed avatars
of a kind), `oddPairs` (an acceptance in one direction only), and `ignored` (a
server that serves without its unique indexes, because `InitSchema` ignores
every error of CREATE INDEX).

Each property that holds is also guarded against being vacuous: beside the
definitions of the code stand variants of them marked `Fault:`, and substituting
the variant breaks the property (`mutants` of `PROJECT.json`).

### Bounds, and why they are enough

- One user per instance of `Presence` and `MessageDelivery`: every map and table
  is keyed by user, and no step for one user reads another one's cells.
- Two app sockets and a service socket are the smallest set in which a socket
  of either kind stays while another one leaves. Three timers suffice for one
  user: one armed, one that waits for the lock and one that announces; a fourth
  at a time only repeats a phase (two timers suffice for the counterexamples).
- `DeliveryMessages` has one message, because no statement relates two messages;
  `DeliveryNotices` has three notices so that one can be fetched, one inserted
  in the window and one relayed.
- Two crossing calls share one key, which is all `callTimings` can confuse.
- Two files and a quota for one make every race for room; one stop or failing
  query at any point, followed by a sweep, is what recovery has to handle. Each
  message is deleted by its sender at most once.
  `MaxFaults` bounds failing queries and stops together; the theorems hold for
  any value of it.
- All avatars of an instance are of one kind, because no query mixes the two;
  two uploads and two commits make every race of two, and two failures or stops
  (`MaxFaults`) an unfinished deletion followed by another fault.
- Two requests at a time (a finished one starts again) let a regeneration or a
  request of a pair be overtaken by another, of the same user or of the other
  one; the third code is the one that is drawn while two are held.
- Two registrations at a time, for two names, from two inviters with two uses
  each, reach a used-up invitation, a taken name and a key that is registered
  twice; difficulty 14 is the default and ends inside a byte. The digests are
  the ones on either side of that edge.
- Four users let a backfill be cut off with some of them done; three stops
  (`MaxStops`) hit the rebuild, the backfill and the serving server in one
  behaviour.
- `CHECK_DEADLOCK FALSE` appears with `FileStore`, `Avatars`, `Registration` and
  `Migration`: an upload has an end, the challenges of an instance come to
  theirs, and a server that has migrated just goes on serving.

The theorems below remove these bounds for most of the safety properties.

### Fairness, and why the code justifies it

Only steps that the Go runtime or the clock will take are fair: a goroutine that
has started goes on (`Attach`, `AnnounceOnline`, drains, handlers, loops), an
armed timer fires, a deadline passes, a URL expires, a row ages, the hourly sweep
runs. All of it is weak fairness. Nothing a user does (connecting, leaving,
sending, acking, hanging up, uploading) is fair, and neither is a server stop.
systemd restarts the server (`Restart=always` of the service file) and main runs
on, hence the fairness of `StartUp` in `Migration`; that start-up is stopped at
most `MaxStops` times is what makes `ComesUp` a fair question.
`GiveUp` is one of the steps by which a drain may go on; the liveness of
delivery is therefore checked with queries that succeed.

## 4. What is proved

| Theorem | States | Assumes |
|---|---|---|
| `TypeCorrect` in each of the eight proof modules | `TypeOK` | the named ASSUMEs |
| `PresenceProofs!EntriesCorrect` | `EntriesMatchAdd` | |
| `PresenceProofs!CellsCorrect` | `CellsHoldTheirTimers` | |
| `PresenceProofs!ScheduledCorrect` | `OfflineIsScheduled` | |
| `PresenceProofs!WatchedCorrect` | `ShownOnlineIsWatched` | |
| `PresenceProofs!AppGoneCorrect` | `AppGoneIsWatched` | |
| `PresenceProofs!Implements` | `Presence` implements `SocketRegistry` | |
| `DeliveryProofs!NoMissedCorrect` | `NoMissedMessage` | queries succeed |
| `DeliveryProofs!PurgeCorrect`, `LossCorrect` | `PurgeIsCovered`, `LossOnlyInWindows` | |
| `DeliveryProofs!RegistryIsUsed` | `MessageDelivery` implies `RegistrySpec` | |
| `DeliveryProofs!PushTypeCorrect`, `LiveTokenCorrect` | `TypeOK` and `LiveTokenStays` of `DeviceTokens` | the second: `NoUser` is no user |
| `CallProofs!HolderCorrect`, `MissedOnceCorrect` | `OneHolder`, `MissedOnce` | |
| `CallProofs!OnlyCallCorrect` | `OnlyCallIsMissed` | |
| `CallProofs!RegistryIsUsed` | `CallSignaling` implies `RegistrySpec` | |
| `CallProofs!LedgerIsKept` | `CallSignaling` implements `CallLedger` | |
| `FileProofs!NothingForgotten`, `RowLast` | `NoObjectForgotten`, `RowDeletedLast` | |
| `FileProofs!QuotaCorrect` | `QuotaHolds` | |
| `FileProofs!LostCorrect` | `LostToSweepOnly` | |
| `AvatarProofs!DownloadsCorrect`, `ForgottenCorrect`, `CurrentCorrect` | `DownloadsExist`, `NoObjectForgotten`, `OneCurrent` | |
| `ContactProofs!AcceptedCorrect`, `ListedCorrect`, `AcceptableCorrect` | `AcceptedStays`, `ListedMaySend`, `RequestsAcceptable` | |
| `ContactProofs!GivenUpCorrect`, `RetiredCorrect` | `GivenUpIsRetired`, `RetiredIsNobodys` | |
| `ContactProofs!BookIsKept` | `Contacts` implements `ContactBook` | |
| `RegistrationProofs!UsesCorrect`, `PaysOnce`, `NamesCorrect` | `UsesConserved`, `ChallengePaysOnce`, `NamesUnique` | finitely many keys are not assumed |
| `RegistrationProofs!WorkCorrect` | `WorkWasDone` | |
| `RegistrationProofs!InvitedCorrect` | `EverybodyWasInvited` | |
| `MigrationProofs!MigratedCorrect`, `SurvivesCorrect` | `ServesMigrated`, `DataSurvives` | |

The assumptions are those the modules name: the kinds of sockets and of notices
are disjoint, every socket has an owner, every call a socket and a callee, the
markers of missing keys are fresh, sizes and bounds are numbers, a digest is a
sequence of bytes. No set is assumed to be finite; where a sum or a cardinality
is at stake, that it is over finitely many rows or users is part of the
invariant.

The arguments:

- *Presence.* `TypeOK`, `EntriesMatchAdd` and `CellsHoldTheirTimers` are
  inductive, each given the ones before. `OfflineIsScheduled` needs all three:
  when a timer is stopped, a socket is being added, so the user is not away;
  when a late closure clears a cell, the verdict has just been taken; when the
  last socket leaves, whichever its kind, a timer is armed, which is why
  `RemoveRaw` must not look at app sockets alone. `ShownOnlineIsWatched` is the
  same argument with the broadcasts counted in. `AppGoneIsWatched` is about app
  sockets: only an app socket announces (`AppsAnnounce`), the removal of the last
  one arms a timer although service sockets stay, and an AddRaw that leaves the
  user without an app socket is a service socket's, which either finds no timer
  or is the exception.
- *The registry.* An AddRaw step maps to a registration, Attach to an attachment,
  RemoveRaw to a removal, and every other step to a stutter. `EntriesMatchAdd`
  is needed: `add` decides when a step is enabled, the maps what the registry is.
  The other half of the composition is `RegistryIsUsed`: the handler modules
  change `entry` by the registry's actions and by nothing else, so what is
  proved of them over `SocketRegistry` holds over `Presence`.
- *Delivery.* `NoMissedMessage` is inductive given the types: a step that
  attaches a socket starts its drain, and a step that stores a message leaves
  its emission to come. `LossOnlyInWindows` is not inductive: Purge would delete
  anything. `PurgeIsCovered` says what the table can hold at that moment; the
  conjunction `NoticeIInv` is inductive.
- *Calls.* `MissedOnce` counts to two only if two handlers hold the attempt;
  `OneHolder` excludes it and is inductive given the types. `OnlyCallIsMissed`
  needs what its exceptions rest on: an answered pair is answered because of an
  attempt that rang (`AnswersRang`), and the only attempt of a pair, once its
  offer has returned, is tracked, or over for a reason that its history shows,
  or about to be settled, or recorded (`OnlyCallAccounted`).
- *The ledger.* A step maps to a step of the one attempt it is about: Unavailable
  to Refuse, Record to Track, `endCall`'s critical section to End (or to nothing,
  if the pair had nothing tracked), `SettleMissed` to Settle; every other step
  leaves all standings alone. `OneHolder` makes the cases of `Standing` exclude
  each other. This fails for a handler that forgets to clear `callTimings`.
- *Files.* `Remembered` = `NoObjectForgotten /\ RowDeletedLast`: a row is only
  deleted by a loop that has seen its object go; only a PUT can bring the object
  back, and that marks it stray.
- *The quota.* `QuotaHolds` sums over a set of files. The facts about sums that
  it needs (a sum loses a summand when its file goes, and does not grow with a
  smaller set) are proved from the definition of the fold by induction over the
  subsets of a finite set (`SubsetInduction`; the induction is stated with a
  set of good subsets, not with an operator). `RoomInv` adds to `QuotaHolds`
  that a request that has passed its check, and that nothing has overtaken,
  still finds room: `Reserve` outdates the others, hence one `overbooked` set is
  enough for both windows.
- *Lost files.* `LostToSweepOnly` follows the life of a file: its row is written
  once (`WrittenOnce`); whoever deletes a linked file's object either had it in
  hand at the link or works for a deleted message (`Handed`); and between the
  size check and the UPDATE an object only goes if its row is gone by then, or
  the sweep takes it and is marked as the one that did (`SeenStays`): a DELETE of
  the row that fails leaves the mark.
- *Avatars.* `DownloadsExist` needs to know what a commit knows: from the size
  check on its target is "sound" (object there, or somebody who took it takes
  the row next, or could not) as long as the row is there, and the row of the
  object it is about to delete is gone and stays gone, because only an upload
  that has not begun inserts. `NoObjectForgotten` rests on "object first" in all
  three deletions, `OneCurrent` on "a commit that is not outdated knows the
  committed row".
- *Contacts.* The history sets carry the argument: a handler that is not marked
  `stale`, because its lookup succeeded and nobody overtook it, still sees the
  table as it is (`Paired`). The same invariant gives the refinement: an Insert
  that is not stale finds no row of the pair and is Ask, an Accept that is not
  finds the request and is the book's Accept, and a stale one is Ask or Accept if
  what it writes fits all the same, Collide if not, or changes an odd pair only.
- *Registration.* The transaction moves one use from "left" to "used" and only a
  key without a name gets one; a challenge leaves `open` in the critical section
  of Verify, so one request holds it, and a user who came with it is recorded.
  `EverybodyWasInvited` says that any set that contains the founder and with
  each user those who came with his code contains every user; the step needs
  that nobody has come with the code of someone who is not registered.
  `LeadingBits` is arithmetic: bit i lies in byte (i-1)/8, whose remaining
  difficulty is at least its place in the byte, so the byte is zero, or below
  the lowest bit of the mask.
- *Device tokens.* A fan-out is about to delete what FCM has given up for good
  (`PrunesDead`), and a former user's request names a row that is not its own.
- *Migration.* Between BEGIN and COMMIT `disk` keeps the old table, whose users
  have no codes yet, and `copy` has its rows once `db` has lost them; outside,
  `disk` is `db`. A table without today's columns has given out no codes, which
  is why adding a column with its default, or rebuilding, overwrites nothing.

Only model-checked: the liveness properties (`AwayIsShown`, `StoredReachesSocket`,
`OfferSettles`, `OrphansAreReclaimed`, `ComesUp`), because the prover knows no
fairness. Every safety property of a run that holds is proved. `TypeOK` of
`Presence`, `CallSignaling`, `FileStore`, `Contacts`, `Registration`, `Migration` and
`DeviceTokens` is proved and in no run.

## 5. What is not modelled

Payloads, ciphertexts, wording and logs; the checks of a request that change
nothing (missing fields, too large); statistics, of which one remark: register
counts in a goroutine with the context of a request that is over by then, so
that a registration may go uncounted; presence updates pushed by
`deliverPending`; ICE relays and counters; typing; rate limits.

- Signature checks (`auth/signature.go`, the handshake of `server.go`) decide on
  one request from its own fields and one row; the models start behind them.
- The database drivers are taken at their word: a query is atomic, may fail, and
  Tx commits all or nothing. The SQLite pool hands statements of one goroutine
  that follow each other the same connection, on which the migration relies.
- PostgreSQL has no migration, and the copying script runs on a stopped server.
- Random codes and ids: a draw is any code; ten failed draws are a refusal.
- The socket.io library is taken to run the handlers of one socket in any order
  once registered and to fire `disconnect` after `onConnect` has registered it.
- The object store and FCM are external: sets of objects, URLs and live tokens.

## 6. What is left to do

1. A composition of `CallSignaling` and `MessageDelivery` through
   `pending_events`, from a call that rang out to the entry the callee sees.
2. The order in which a client sees a message and its deletion, when the drain
   holds the message among its rows.
3. Abstract specifications of the object tables: `FileStore` and `Avatars` as one
   table of blobs, and of `MessageDelivery` as a mailbox per user.
4. The safety parts of the liveness arguments.
