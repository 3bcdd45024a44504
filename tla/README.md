# TLA+ specification of the Companion network service

The service (`src/src`, NestJS over PostgreSQL with Prisma, plus `src/portal`, the web
application for owners and administrators) lets people befriend each other, publish a
Companion with its Asset Pack, and send that Companion on Visits to friends. A Visit is an
invitation that becomes a session, the session is a room, further friends can join the
room, and the Companions in it talk in turns until their topics are finished. Everything
is decided by REST handlers that run concurrently against the database; timers in every
process clean up behind them; a socket gateway keeps track of who is online; objects live
in R2.

This development models the state machines of the service and of the parts of the portal
that keep state. `PROJECT.json` maps every definition to the lines it stands for, lists
the hazards by line and the mutant of the code by which each property was seen to fail.

Paths below are relative to `src/src/` unless they start with `src/`.

## 1. Inventory

| Component | State | Operations | Correct when | Module |
|---|---|---|---|---|
| Visit invitations and sessions, `visit/visit.service.ts` | `VisitInvitation`, `VisitSession`, `VisitReservation` | create, accept, decline, cancel; ready, start, end, heartbeat; clean-up every 15 minutes and at start-up; sweeps for friends and Companions | a user is in one place at a time, rows only move forward, nothing stays reserved for what is over, what lapsed is cleaned up | `VisitRooms`, `VisitSevering` |
| Visit rooms, `visit/visit-room.service.ts` | `VisitSessionParticipant`, `VisitJoinRequest` | ask to join, accept, decline, cancel, report ready, leave | capacity is kept, nobody enters a closed room, the host stays | `VisitRooms` |
| Friends, `friend/friend.service.ts` | `Friendship` (two rows a pair), `FriendRequest`, `BlockedUser` | send (crossing requests become a friendship), accept, reject, cancel, remove, block, unblock, look up | at most one relationship per pair, mutual, a block hides both | `FriendGraph`, `Relationships` |
| Visit dialogue, `visit-social/` | turns, room topics, the share, moments, relationships | set the share, append a turn, progress and end the room, finalise a moment | turns go round, one topic at a time, a moment counts once | `VisitDialogue` |
| Companions and Asset Packs, `companion/`, `storage/` | `NetworkCompanion`, `CompanionAssetPack`, objects in R2 | publish, draft, upload, verify, activate, abandon, delete, three clean-ups | a pack in use is whole, deletion can be repeated and leaves nothing | `AssetPacks` |
| Shareable topics, `companion/`, `visit/` | `ShareableTopic`, the random-visit policy | create, rewrite, revoke, choose for a random visit | topics take turns | `SharedTopics` |
| Identity and device sessions, `identity/`, `portal/browser-auth.service.ts` | `DeviceSession` with the current and the previous refresh token hash | register, log in, refresh with rotation and reuse detection, log out, revoke | a revoked device stays revoked, only a reused token revokes | `DeviceSessions` |
| Presence, `presence/`, `common/socket-auth.service.ts` | sockets and timers in memory, `Presence` | connect, validate, promote, disconnect, grace, idle, revoke | shown iff a valid socket is connected | `PresenceGateway` |
| Account deletion, `portal/portal.service.ts` | `deletionRequestedAt`, attempts, next attempt | request, immediate attempt, minute pass with retries, deletion of objects and rows | nothing is left behind, nobody waits for ever | `DeletionQueue`, `AssetPacks`, `VisitRooms`, `FriendGraph` |
| Data export, `portal/portal.service.ts` | a stream | sections in batches, nested rows | a complete document holds everything | `DataExport` |
| Admin roles and audit, `admin/` | roles, account status, audit entries | promote, demote, setup CLI, suspend, restore | somebody stays Superadmin, the trail tells the role | `AdminRoles` |
| Caretaker Desk, `admin/admin-api.service.ts` | the tables of the others | end and reconcile sessions, cancel invitations, unpublish, clean up storage, lists | an intervention leaves the same state as the ordinary way out | `VisitRooms`, `AssetPacks`, `PagedLists` |
| Developer debug, `developer-debug/` | `DeveloperDebugEvent` | ingest, prune, list, timeline | a retry makes no second row, live events are kept and all listed | `DebugEvents` |
| Rate limits, `common/guards/` | maps of recent attempts | admit, refuse, evict | a window admits its limit | `RateLimits` |
| Portal web application, `src/portal/src` | cookies, the refresh of each tab, answers kept and on show | calls, shared refresh, log-in, log-out, paging | the calls of a tab share its refresh, a call is carried out once and reported truly, a walk through a list shows all of it | `PortalSession`, `PagedLists`, `DebugEvents` |
| Deployment, `src/scripts/railway-migrate.mjs` | schema and migration records | bootstrap, deploy | success means the schema is current | `RailwayMigrate` |
| Notifications and events, community, meta, smoke | rows without a protocol | | | not modelled, section 8 |

How they interact. `FriendService.removeFriend` and `blockUser` call
`VisitService.endSessionsBetween` after their own transaction, and both ways of
unpublishing call `revokeCompanionVisits`. `VisitSocialService` ends the room when the
last topic ends. `PortalService.deleteAccount` and the admin API write the visit tables
directly, and all revocations tell `PresenceGateway` to disconnect sockets. The visit
handlers meet in five tables, and `VisitReservation`, unique by user, is meant to be the
lock that keeps a user in one place. Invitations and sessions pin Asset Packs.

What is hard. Each visit handler takes row locks (`FOR UPDATE`) before it reads, but not
the same rows as the others; sweeps read first and claim later with a conditional update;
clean-ups are sequences of statements, not transactions, and a crash loses the rest;
four different modules end a session, each with its own idea of what has to be released;
token rotation writes what it decided before two slow hash computations; the gateway
awaits the database between looking at its maps and changing them; object storage has no
transactions and upload URLs outlive the rows they were made for; lists and exports read
page by page while their rows come and go. The hazards in `PROJECT.json` list these places
line by line, with the properties that look at them.

## 2. Modules

Which module composes what:

    VisitRooms --- VisitRoomsInvariant --- VisitRoomsProofs
        \--------- MCVisitRooms
    Relationships <-(refines)- FriendGraph
    FriendGraph, VisitSevering ------------------- MCFriends, FriendsProofs
    PresenceGateway ------------------------------ MCPresence, PresenceGatewayProofs
    AssetPacks ----------------------------------- MCAssetPacks, AssetPacksProofs
    DeviceSessions ------------------------------- DeviceSessionsProofs
    VisitDialogue -------------------------------- VisitDialogueProofs
    AdminRoles, SharedTopics, PortalSession, RailwayMigrate, DebugEvents,
    DataExport, PagedLists, RateLimits, DeletionQueue --- MCServices
    all nine of these ---------------------------- ServicesProofs

Every module has a type invariant, which documents its state. It is proved, as part of the
inductive invariant, for every module that has proofs (of `DataExport` without the counter
that bounds its runs, of `PagedLists` without the upper bound of a count, of `RateLimits`
without the order of the keys); it is not among the runs' properties.

### VisitRooms

One module, because invitations, sessions, participants, join requests and reservations
are written by the same transactions. `invitationId` is unique in `VisitSession`, so one
identity `i` stands for an invitation and its session.

| Variable | In the code |
|---|---|
| `invitation`, `visitor`, `host` | `VisitInvitation.status` and its two users; `"lapsed"` is a pending row past `expiresAt` |
| `session`, `acks` | `VisitSession.state`, `visitorOwnerReadyAt` and `hostReadyAt` |
| `overdue` | live sessions for which `timeoutReason()` gives a reason |
| `participant` | `VisitSessionParticipant.state` |
| `joinRequest` | the set of statuses of the join requests of a user for a session: the unique index on (session, requester, status) makes it a set |
| `reservation` | `VisitReservation` |
| `friends`, `account`, `published` | what `assertEligible` and the Companion checks look at; a block removes the friendship rows, so it needs no variable here |
| `revoking`, `phase`, `todo`, `owed` | control of the processes in between two statements |
| `deleting` | what the `deleteAccount` transaction under way has read |
| `stranded` | history: guests whose reservation an account deletion missed |

Interactive transactions are one action each: they lock the rows they decide on, and a
refused request changes nothing (`AcceptLapsedInvitation` is the exception that commits
before it throws; the corresponding branch for join requests throws inside the
transaction and is rolled back, so it is no action). The clean-up pass is a process with
a phase, a list of rows read (`todo`) and the release it still owes for the row it just
claimed (`owed`); the sweep after `removeFriend` and `blockUser` uses the same actions
with a second worker, of which one runs at a time. `Crash` forgets all of that and keeps
the rows.

The transaction of `deleteAccount` is not one action. It locks the user's own row only, so
in a room where the user is a guest nothing is locked, and other requests commit between
its statements. `BeginDeletion` is the lock and the reads; `DeleteAccount` is the writes,
at their commit. Its two parameters say who got in between them: `late` are guests who
asked to join after the reservations had been deleted and were let in before the
participants were sent away (they are out of the room and stay reserved for it:
`stranded`), `back` are those whose `markReady` came last.
`RollBackDeletion` is a transaction that fails. One deletion runs at a time.

Time is not counted: an invitation or request may lapse and a session may become overdue
at any moment. What refreshes a timestamp may or may not make a session timely again.

Left out: topics, asset references and names carried by a row, the texts of events,
roles of participants, and legacy sessions without a room. `SESSION_LIVE` also lists
`ending`, which no code writes. The final removal of a deleted account, days later,
removes the rows themselves and is modelled in `FriendGraph` and `AssetPacks`.

Two facts that the model makes visible and that are easy to overlook: a host's Companion
can be unpublished without any effect on the room, since `revokeCompanionVisits` looks at
the visitor's Companion only; and `endSessionsForCompanion` has no caller.

`MCVisitRooms` adds budgets. Requests and workers are unbounded; join requests, expiries
and time-outs, social changes, account deletions, and operations that leak draw on
`JoinBudget`, `TimeBudget`, `SocialBudget`, `DeletionBudget` and `LeakBudget`, and all of
them on `MixBudget`, which bounds how many happen in one behaviour. A behaviour has social
changes, deletions or leaks, not two of the three.

### VisitSevering

`VisitRooms` takes a locking transaction as one step. Whether that is right for severing
depends on the locks, so this module opens the transactions for one pair: a visit request
is "checks passed, locks held" and then "commits"; severing is its own transaction, the
read of the session, and the claim of the session in the state it read. `UsersLocked`,
`InvitationLocked`, `CompanionLocked` and `SessionLocked` say which step waits for which.
The database runs at READ COMMITTED, its default, which no code changes.

### FriendGraph and Relationships

`FriendGraph` has the three tables as sets of ordered pairs, and accounts that are
suspended, restored, deleted and finally removed (with the schema's cascades).
Requests and acceptances lock both `User` rows (`lockActiveParticipants`), a new block
waits for them through its foreign keys, and removing a friendship is one statement, so
every operation of the service on a pair is one step. Settled requests are history and
are not kept.

`Relationships` says what people see of each other: nothing, a request sent or received,
a friend, or hidden. `FriendGraph` implements it under the mapping that
`withRelationship` computes (block before friendship before request): two people always
see mirror images, and a friendship only comes from a request. The mapping is a
refinement only because the tables never hold two relationships for a pair; if they did,
removing one would reveal the other.

### DeviceSessions

One account with a desktop device and a browser. `session` holds the `DeviceSession` rows
(current and previous token hash, whether a CSRF hash is bound, expiry, `revokedAt`),
`client` the token each device holds, `sockets` who is connected, and `req` the handlers
in progress: each `await` of the database or of bcrypt ends a step, so `RotateRead` and
`RotateWrite` are two actions with anything in between. `Respond` may lose the answer.
All ways of revoking are actions: log-out, the owner's and the administrator's revocation
of a device, "all others", a password change, suspension and the deletion of the account.
The query after "all others" that finds the sockets to drop (`CollectRevoked`) is taken to
be answered. If it throws, the rows are revoked all the same and the sockets go with the
gateway's validation every 30 seconds, which is `ExpiredSocketIsDropped`.

`Matches` is what `bcrypt.compare` does to tokens: bcrypt reads 72 bytes, and the first 72
bytes of a refresh JWT are its header and the beginning of a payload that starts with the
user's id, so any two tokens of one user match. Other accounts with the same `deviceId`
do not. `final` and `revoked` are history: devices revoked while no refresh of theirs had
already passed its check, and devices revoked at all since their log-in.

### PresenceGateway

One user; the gateway's maps are keyed by user. The variables are those maps
(`registered`, `pending`, `recent`, the timers), the `Presence` row (`status`), the
sockets' own state, and `task`: activations that wait for a query. JavaScript runs to its
next `await`, so one action is the code between two awaits; queries of different tasks are
answered in any order (`Answer`, `Land`), which is how an offline write overtakes an
online one. The flag `revoked` of a task says that `userRevocationGeneration` has moved
on since it was captured. `Crash` ends the process and includes what the next one does
first: `PresenceService.onModuleInit` marks everyone offline.

A write may fail, and what follows depends on who awaits it. The offline write of
`disconnectUser` is awaited by callers that catch the rejection
(`portal/portal.service.ts:1103`) or answer with an error
(`admin/admin-api.service.ts:356`), and Nest does the same for `presence.activity`; there
the process goes on (`LandFails`), and nobody writes again. `refused` remembers that the
last write failed in this way while the user was shown. Every other write is behind a
timer or a connection whose promise nobody handles; its failure ends the process and is
covered by `Crash`.

### AssetPacks

The rows of one companion (`row`), its pointer to the active one, the objects in R2
(`staging`, `final`, `manifestFile`), one visit that may pin a pack, the capability flag of
the storage, verifications (`req`) and the jobs that delete objects (`job`): the hourly
clean-up, the desk's, the owner's deletion of superseded packs, the portal's deletion of
one pack, and the final deletion of the account. Each lists, deletes, confirms and writes
in separate steps, with storage errors and crashes in between. A pack has one file, which
is enough to tell staging from final keys; an object is absent, as in the manifest, or
not.

Facts the model shows: a verification that is under way when its row goes leaves a
`manifest.json` without a row, the only object that can be orphaned (`FilesHaveRows`); the
portal's deletion of a pack leaves out its staging keys and then confirms that the whole
prefix is empty, so it fails as long as a staged upload is there; and if a row is deleted
and the same manifest is created again while a job still has the first row on its list,
the job deletes the new row's objects, because final keys are a function of the manifest
hash. `ActivePackIsWhole` names that exception (`Recreated`); the repository says nothing
about the case. `MCAssetPacks` has two ids of one manifest and one of another, of which a
behaviour uses at most two.

### VisitDialogue

One room, its participants in the order they speak, topics by sequence, the share, turns,
the moment and the relationship counters, which outlive a visit. Every handler locks the
session row and is one action; `AppendTurn` includes everything the turn causes
(`ProgressRoom`: the topic's end, the next topic, the end of the room, the moment and the
settlement). A repeated `clientTurnId` changes nothing and is no action. `DeleteAccount`
of a guest keeps the turns and empties the room.

Facts: `setShare` on a visit whose topic came from the host overwrites the topic's text and
keeps its creator; when the last speaker leaves, `nextActor` starts again with the first,
so those behind the leaver lose their turn; a visit without a share stays silent; and the
retry of the turn that ended the room is answered with a conflict, since the room's state
is looked at before the `clientTurnId`. Rooms of the older kind (`progressLegacyRoom`) are
left out.

### The services of MCServices

Nine modules without shared state, checked in one run: `which` names the one that moves.

* **AdminRoles.** Accounts with role, status and deletion, the last role entry of the
  audit trail, and three processes that do not share a lock: the role CLI, the setup CLI,
  and desk requests between their two guards and their transaction. The last Superadmin can
  be lost in one way, two of them suspending each other while both are past the guards,
  and the trail can be wrong in one way, a setup run that undoes a demotion; the two
  properties say that these are the only ways.
* **DebugEvents.** Ingestion upserts by the client's event id; a prune reads ids and
  deletes them later; `DeveloperDebugPage` walks the list by cursor, forward and back,
  and shows an event with its correlation's timeline. Pages stay in the query cache and are
  fresh for 20 seconds (`src/portal/src/main.tsx:13`): going back to the list or to its
  first page starts a new walk over any of the pages of the earlier ones, each of which may
  also be fetched again or dropped at any time. `of` in a page is what the list had when it
  was fetched, and `due` is what was listed at each of the fetches the walk has been shown
  and has not been shown itself. A retry is acknowledged with a new expiry that the stored
  row does not get.
* **DataExport.** The generators of `generateDataExport` as a stack of frames, one batch a
  step. If the last row of a full batch is deleted before the next batch is read, Prisma's
  cursor finds nothing, the rest of the array is missing and the document still says
  `"complete": true`; `CompleteIsWhole` says this is the only way to lose a row.
* **RateLimits.** The three limiters differ in how a key leaves its map; `limiter` chooses.
  A list of times is a set of attempts, numbered where they share a time. One window and one
  limit stand for those of the policy a key belongs to: keys of different policies do not
  share attempts, but the social guard's sweep looks each key's own window up.
* **SharedTopics.** The choice of a random visit's topic and its mark, with the owner's
  writes in between, and the policy's count and write. Random visits can stay enabled
  after the last topic was revoked: the count was read before. Reading the policy and
  choosing the topic are two statements of the code and one action here; no property
  depends on what happens between them.
* **RailwayMigrate.** The pre-deploy script, interrupted anywhere, with newer images. After
  an interruption between `db push` and the first `migrate resolve` the script refuses the
  database from then on; after one in between the resolves, `migrate deploy` fails on
  tables that exist. Neither ever reports success (`SuccessMeansCurrent`). What only raw
  SQL creates (a partial index, a trigger, checks) is never created by a bootstrap: the
  model keeps `rawSql` apart, and no property claims it.
* **PortalSession.** `api` with its shared refresh and one retry, and the log-ins and
  log-outs of `AuthProvider`, in the tabs of one browser. `refreshPromise` is a variable of
  the module in one tab; the cookies are the browser's. Two tabs can therefore send the same
  refresh token, and a tab sends a token again whose answer was lost or was a refusal: the
  server takes either for theft. `RefreshIsShared` says what the code does rule out.
  `AuthProvider`'s `user` is not modelled: it decides what a tab offers, and any tab may
  offer anything at any time.
* **DeletionQueue.** Requests, `deleteAccount`'s own attempt, the pass of the oldest due
  requests, growing waits, upload URLs that must expire first, packs that were counted
  differently, failing queries, restarts. `leftOut` is a history: the prompt passes that
  left out a due request.
* **PagedLists.** Numbered pages: rows, count and the answers the application keeps by page
  and filter, for the thirteen lists, each known by what its rows may do (enter, leave,
  move). Opening a list again, or returning to a filter (`ReopenList`), starts a new walk
  that may be shown the earlier answers, fresh for 20 seconds; `ChangeFilter` turns to a
  filter nothing is kept for. `tour.outdated` says that the walk was shown an answer from
  before it began and the list had changed since, `tour.slipped` that a row it had still to
  show moved up onto an earlier page. A list whose last page
  becomes empty leaves the reader on page 2 of 1 without a Previous button
  (`src/portal/src/components/ui.tsx:131`).

## 3. Runs

| Run | Instance | Checks | What it shows |
|---|---|---|---|
| `rooms_visits` | 3 users, 2 visits, a join request, an expiry, a deletion, 2 of these together | `ReservationIsCurrent`, `VisitorOwnerInOneSession` | reservations follow what they stand for, a visitor owner is in one live session |
| `rooms_guests` | 4 users, 1 visit, 2 join requests, 2 expiries, a social change, a deletion or a leak, 4 of these together | `RoomWithinCapacity`, `ReservationHasPart`, `OnlyForward` | the last place of a room is given once, whatever is stale; who is reserved for a room is in it, but for the guest a deletion strands |
| `cleanup` | 3 users, 1 visit, a join request, 2 expiries, a social change, fair clean-up | `HostHoldsRoom`, `LapsedInvitationFreesVisitor`, `OverdueSessionEnds` | only the periodic pass is needed to free people; the host of a live room is in it |
| `friends` | 3 users; one pair with all three ways of severing | `OneRelationship`, `LeaversAreForgotten`, `ImplementsRelationships`, `OnlyMissedSurvives`, `NoBirthAfterSevering`, `BlockFreezesSession` | the tables implement the abstract relationships; what severing can miss, and that nothing follows from it |
| `devices` | 2 devices, 2 concurrent requests, 3 tokens, 2 revocations | `QuietRevocationIsFinal`, `RevokedBrowserIsReadOnly`, `RevokedSocketWillDrop` | what a racing refresh can and cannot undo |
| `presence` | 2 sockets of a device, 2 tasks, a log-in | `NoGhostPresence` | nobody stays visible without a socket, unless a write failed and was given up |
| `presence_live` | 1 socket, 2 tasks, a log-in, fair | `ConnectedIsSeen`, `ExpiredSocketIsDropped` | who is connected is shown, whose session is over is dropped |
| `packs` | 2 rows of one or two manifests, 1 verification, 4 kinds of job, 2 at a time, 1 fault | `ActivePackIsWhole`, `VisitKeepsItsPack`, `CleanedStaysClean`, `FilesHaveRows` | no deletion takes what is in use or leaves files behind |
| `dialogue` | 4 people, 5 turns, topics of 2 to 3 turns, a severed pair | `ShareFollowsTopic`, `BondCountsMoments`, `MomentIsWhole`, `RoundRobin` | share, topics, turns and counters stay in step |
| `services` | nine services, see below | twelve properties | see section 2 |
| `one_room` | 4 users, 2 visits, a join request | violates `OneRoomPerParticipant` | finding 1 |
| `refresh_reuse` | as `devices` | violates `OnlyConsumedTokenRevokes` | finding 2 |

Bounds. `RoomCapacity` is 3 and `HostVisitors` 2 as in the code. Exclusion needs two
visits and a third person, who can be the second host or visitor; the last place of a room
needs a visitor, a host and two guests. A budget of one leak, deletion or social change
is enough for the interesting orders, since what matters is where in the other steps it
falls; `MixBudget` keeps all of them from happening in one behaviour. The theorems say
that nothing depends on these bounds.

In `devices` the race needs two requests, and the second rotation a third token. In
`presence` one socket suffices for a single writer's races, the second is needed for the
map that becomes empty. They share a device: revoking one device of two is left to the
theorem, which is about any number of both. In `packs` two rows make one
supersede the other, or take its place after a deletion; two jobs at a time race over it;
the quota of two is met. In
`dialogue` the room is one larger than the code's, so that a guest can leave and another
be behind it; five turns end at least one topic and reach `RoomMaxTurns`; one visit is
enough, since `bond` is compared with the history of moments.

In `services`: two people of whom one is the founder, two desk requests at a time; two
events, three row ids, pages and prunes of one row, so that every boundary is a page
boundary; an account with three notifications in batches of two and a companion with
packs and a file, so that both a full and a partial batch occur at each level; three keys
in a map of two, two attempts in a window of two; two topics and six writes (three topics
were also run alone); four migrations; two calls, two tokens and
two tabs, in one of which somebody logs in and out; three leavers, one a pass,
waits of at most three minutes; three rows on pages of two (pages of one, hence three
pages, were also run alone). `Patience` is 6, the smallest number that holds on this
instance. The theorem's bound is 30 there, for it counts every minute of every older
request; it holds for every instance. `QueueAssumption` bounds the requests by what the
passes within the longest wait can take, without which the oldest could fill every pass.

Symmetry is used for safety runs only: users and visits are interchangeable in every
definition, in `presence` the sockets of the device and the tasks. Deadlock is not checked
where a budget ends the behaviours or everybody may have left.

Fairness. `cleanup` assumes it for the clean-up only: `onModuleInit` starts a pass at once
and a timer every fifteen minutes. No user is assumed to do anything. The pass is weakly
fair as a whole: it is sequential code, and one of its steps is always possible.
`presence_live` assumes that queries return, that code behind an await runs, that timers
which are not cleared fire, and that a committed revocation's disconnection is called. The
timers are strongly fair because the model's tasks are bounded and a timer in the program
needs no free task.

## 4. Findings

1. **One room per participant** (`one_room`). `docs/social/visit-rest-contract.md` promises
   one non-terminal session per participant. `markReady` sets the caller's row to `ready`
   even if it says `left`: leave a preparing room, join another as a guest, acknowledge
   the first, and be in both. `VisitorOwnerInOneSession` is what does hold.
2. **The second refresh revokes the session** (`refresh_reuse`).
   `docs/architecture-overview.md` says that reuse of the previous token revokes. As bcrypt
   compares 72 bytes, the previous hash matches the current token too, so once a session
   has been rotated its next refresh is taken for a reuse.

Conditions under which other properties are stated, because the code does not meet them
without:

* `HostHoldsRoom` holds without account deletions. `leaveRoom` refuses the host, but
  `deleteAccount` of a *guest* marks all participants of the room as left and deletes all
  its reservations, and ends only the sessions the user owns or hosts.
* `ReservationIsCurrent` holds without leaks: an administrator's end, reconciliation or
  cancellation releases nothing, and neither does a process that dies between claim and
  release. The user can then neither invite nor join.
* `OverdueSessionEnds` is run with one join request per user and room. Expiring a second
  one breaks a unique index; the exception leaves the pass before it reaches the sessions,
  and so does every later pass. As a request lives two hours, it takes a room that stays
  joinable for longer: a `VISIT_SESSION_MAX_MINUTES` well above its default of 30, or a
  clean-up that did not run for a while.
* `OnlyMissedSurvives` describes the hole in severing: the claim names the state the sweep
  read and is not retried, so a `markReady` or `startSession` in between leaves the session
  live after `blockUser` returned, although the contract says it ends immediately. It can
  then only be ended (`BlockFreezesSession`). `removeFriend` has a second window, for it
  deletes rows that an acceptance reads and does not lock, so `OnlyMissedSurvives` and
  `NoBirthAfterSevering` are stated for blocking and unpublishing, which row locks protect.
* `QuietRevocationIsFinal` is about revocations that no checked refresh races with:
  `rotateSessionTokens` clears `revokedAt`. `RevokedBrowserIsReadOnly` says how far a
  race can get with a browser.
* `ReservationHasPart` excepts the guests in `stranded`: let into a room between the two
  statements of another guest's account deletion, they are out of it and reserved for it.
* `NoGhostPresence` excepts a user whose last presence write failed where the rejection is
  caught (`refused`). Such a user is shown until the next write or the next start.
* `RefreshIsShared` is about the requests of one tab, and about tokens the browser has the
  successor of. Another tab may send the token a first one is waiting with, and a token
  whose answer was lost or was a refusal may be sent again.
* `WalkMissesNothing` does not claim an event that a cached page is too old for, nor
  anything of a walk one of whose cursor rows had gone or stopped matching when its page was
  fetched. In the first case Prisma's cursor finds nothing, and the page is empty and says it
  is the last; in the second `skip: 1` leaves out another row.
* `PagesMissNothing` does not claim a row that moved up onto an earlier page before it was
  seen, nor anything of a walk that was shown an outdated answer of an earlier one. The
  audit trail has no exception but the latter.
* `ActivePackIsWhole`, `CompleteIsWhole`, `TrailTellsRole` and `LastAdminFallsOnlyToStale`
  name their exceptions; see section 2.

## 5. Proofs

Every theorem holds for all values of the constants that satisfy the assumptions of its
module. TLC evaluates each assumption in the runs. They say no more than this:

| Assumption | What it says | Why the code justifies it |
|---|---|---|
| `NullsAssumption`, `PeopleAssumption`, `PackAssumption`, `PresenceAssumption`, `TopicAssumption` | a null value is no user, visit, pack, socket or topic; each pack has a manifest and each socket a device; people are finitely many and the founder is one of them | null is not an id; the columns are required |
| `CapacityAssumption`, `FiniteUsers` | a room holds at least its visitor and host; users are finitely many | the schema's default capacity is 3 |
| `DeviceAssumption` | there is a device; the bounds are numbers | who logs in names one |
| `DialogueAssumption` | visitor, host and guests differ; a room allows two turns, a topic takes at least two and at most its maximum | the constants in the code are 15, 3 and 6 |
| `SeverersAssumption` | the severers are among the three kinds that the code has | `blockUser`, `removeFriend`, `revokeCompanionVisits` |
| `ShippedAssumption`, `TokensAssumption`, `TabsAssumption`, `DebugAssumption`, `LimitAssumption` | bounds are numbers; a token can be issued; who logs in does it in a tab; limits are positive; the ids of rows are finitely many | they are positive constants; an id is a uuid |
| `ListAssumption` | there are finitely many ids of rows, at least one; pages have a positive size | `boundedPage` limits the size to 1..100 |
| `ExportAssumption` | finitely many ids; every section has a table of its own, and the rows of a nested table belong to rows of the table it is nested in, at most three levels deep; a batch has a positive size | `generateDataExport` writes twelve sections, each from a table of its own; files are nested in packs and packs in companions |
| `QueueAssumption` | the requests are finitely many, numbered in their order, at most `PassLimit * MaxBackoff`; bounds are positive; an upload URL lives no longer than the longest wait; the doubled waits reach the longest | a pass takes 100 and the longest wait is 60 minutes, hence up to 6000 requests at a time; a URL lives 15 minutes by default (it is configurable); 2^9 minutes are more than 60 |

The argument is the same throughout: an inductive invariant, checked by TLC on the run's
instance before it was proved, with one lemma per action and, where an action touches many
variables, one per conjunct it can disturb.

**VisitRooms.** `IInv` is `TypeOK` with `SessionCoherent`, `VisitorOwnerInOneSession`,
`PendingIsReserved` and `ReservationHasPart`, strengthened by four facts:

* `RouteKnown`: visitor and host are set with the invitation and differ;
* `EmptyBeforeSession`: no participant precedes the session, so acceptance fills an empty
  room;
* `DebtsAreDue`: a worker that was interrupted between two statements still owes
  something consistent: an invitation's debt is to an expired invitation, a session's to
  a terminal one, and when participants are about to be sent away nobody holds a
  reservation for the room any more. Without it a late release could take a reservation
  that by now stands for something else;
* `DeletionAware`: an account deletion writes by what it read. The lock on the user's row
  keeps new invitations and sessions of the user from appearing, so whatever is still open
  on its route is among what was read, and its rows are the ones to release. Rooms in which
  the user is a guest have no such protection, which is where `stranded` comes from.

The properties need one another. `PendingIsReserved` survives an acceptance because a
user has one reservation, hence one pending invitation; `VisitorOwnerInOneSession`
because assertVisitorOwnerAvailable and assertHostCapacity look at the rows and not at
the reservations, so it does not suffer from leaks; `SessionCoherent` is what keeps
guests out until both sides acknowledged, which `RoomWithinCapacity` needs: `markReady`
may put a visitor back only while the room can hold nobody but the two.

`VisitRoomsProofs` derives the action properties `OnlyForward` and `NoEntryAfterEnd` from
`IInv`, proves `RoomWithinCapacity` by classifying what a step can do to a room (it gets
smaller, holds only its route, or takes one guest while it has a seat), and proves
`HostHoldsRoom` for `SteadySpec` (no deletions) and `ReservationIsCurrent` for
`CarefulSpec` (no leaks): exactly the conditions of section 4.

**FriendGraph.** `FriendInv` joins `Mutual`, `OneRelationship`, `LeaversAreForgotten` and
`NoSelfBlock`. `acceptFriendRequest` looks for no block, so that a friendship never meets
one follows from the request it came from. `Implementation` then maps each operation to a
step of `Relationships`; a suspension, and a block of someone who already blocked, are
steps that change nothing visible.

**VisitSevering.** `SeveringInv` says what the locks are for. `SessionHeld` and
`AcceptanceHeld`: what a request checked is still true when it commits, because the rows
are locked in between. `SeveringDone`: the transaction of a severing request comes before
its sweep. `NothingFoundIsTrue`: a sweep that found nothing live is not overtaken by a
birth. `NothingHalfway`: when `blockUser` returns, no request on the session is half way
through. From these
`OnlyMissedSurvives` is inductive, and `NoBirthAfterSevering` and `BlockFreezesSession`
follow step by step.

**DeviceSessions.** What a rotation writes depends on what it read two awaits before, so
the invariant ties the handlers to the rows. `FinalIsNotRotated`: no refresh of a quietly
revoked device is past its check. `LoginIsAlone`: a browser's device is known to one request
until its CSRF token is bound, so nothing races with the binding. `RevokedCsrfIsFinal`: a
revoked browser row that still has a CSRF hash was revoked quietly. `StampsAreOwn`:
"revoke all others" recognises the rows it revoked by their time. From these follow
`QuietRevocationIsFinal`, `RevokedBrowserIsReadOnly` and `RevokedSocketWillDrop`.

**PresenceGateway.** `NoGhostPresence` says nothing of a state in which something is under
way. `GhostIsHunted` does: while a user without sockets is shown, the grace timer runs or
an activation is about to write or to look again after its write, unless the last write of
all failed and was given up. It needs
`WritesAreChecked`: an online or idle write is never the last thing its activation does.

**AssetPacks.** Fourteen conjuncts over rows, objects, verifications and jobs. Rather than
proving each for each of some thirty actions, every action is shown to obey two
descriptions, `RowFacts` (how a row, the pointer, the account and the visit may change) and
`StoreStep` (which objects may appear or go, and in which state of their row); the conjuncts
about rows and objects follow from these, and those about requests and jobs from the
actions.
`JobsHoldTheDead` (what a job works on is claimed and receives no upload) and `FinalEmpties`
(the account deletion has emptied every row that is not on its list) carry
`VisitKeepsItsPack` and `CleanedStaysClean`; `PublishedIsWhole` and `VerifiedIsWhole` carry
`ActivePackIsWhole`; `UrlsHaveRows` and `ClosedIsDead` carry `FilesHaveRows`.
`ClaimsAreFinal` is an action theorem: a row claimed for deletion never serves again.

**VisitDialogue.** Turns are counted by cardinality, so that the facts about them need no
induction over sequences. `OneMomentPerVisit` bounds the moments of a pair by the visits,
and `OverIsEmpty` says that nobody gets ready in a room that is over; together they make a
settlement happen once, which is what `BondCountsMoments` and `MomentIsWhole` need.
`PreparingHasOneTopic` is why the share can overwrite the first topic (`ShareFollowsTopic`).
`RoundRobin` follows from `RotationInv`: going round the room, whoever spoke since `p` did
sits between `p` and the last sender, who is still there (`SpokenAreBetween`). The next
actor sits behind the last sender, so it is not among them. The order of the room is a
place for each participant, and a joining guest takes the next one (`PlacesStay`); that
some participant is the first of those behind the sender is well-foundedness of the
numbers.

**The services.** Each of the nine has its own invariant in `ServicesProofs`.

* `RolesInv`: `TargetIsHeld` (the target of a demotion stays a Superadmin while its row is
  locked) and `LeaversAreSuspended` support `TrailTellsRole`; the action property
  `LastAdminFallsOnlyToStale` follows.
* `TopicsInv`: what has been on offer ever since a topic's last use was used before it
  (`OverlookedWait`), so no topic is overlooked for the one an invitation is about to use
  (`SelectedIsNext`).
* `PortalInv`: a tab has one refresh at a time and its `refreshPromise` says so
  (`OneRefresh`); a token on its way to the browser has never been sent and arrives once
  (`ArrivingIsFresh`), so the cookie never holds one the browser has a successor of
  (`TokensIssued`), whatever the other tabs do. This is `RefreshIsShared`; it does not make a
  token sent once, see section 4. `Tells` relates what a call will report to what the server
  did.
* `MigrateInv`: `migrate resolve` runs on what `db push` has finished, and an applied migration has its
  tables. The choice of the oldest pending migration has a smallest element by
  well-foundedness of the numbers.
* `PruneInv`: the rows on a prune's list are expired ones or gone.
* `WalkInv`, of the walk through the debug events: rows keep their place in the order, even
  after they have gone (`StampsHold`), so pages of different times can be compared. A cached
  page shows what the list had at its fetch, but for what comes after its own next cursor
  (`PagesCover`). What the walk has still to show comes after every cursor it has used
  (`CursorsAreReached`) and after the page on show (`ShownIsPast`), and nothing comes after
  a page without a next cursor. The place of a row is a cardinality, so no recursion is
  needed (`Places`).
* `TourInv`, of the numbered pages: what the walk has still to show is below every page that
  it has shown or is reading (`DueAreBelow`), and an answer that is the last page's leaves
  nothing (`LastPageIsLast`), although rows and count come from two statements. Answers of
  an earlier walk are held to this from when they are shown: while the list has not changed
  they tell what a new read would (`AnswersAreTrue`), otherwise the walk is outdated.
  Rows of the audit trail only enter at the top and push the others down, so none slips.
* `ExportInv`: the generators under way are nested (`FramesAreNested`), write their array in
  the order of ids (`FramesInOrder`), and each array is opened once (`WrittenOnce`).
  `DocumentIsWhole` is the claim about a document that is not finished: what is owed of each
  open array up to its cursor, and of each closed one altogether, is written. That a full
  batch may be the last, and a batch that is not full is, comes from a count of the rows
  before each row (`Batches`). At the end three levels of nesting lead from a row to a
  section, which is closed.
* `LimitInv`: of a key that was not evicted in the window the map holds exactly what was let
  through (`MapTellsWindow`), whatever was moved, swept or evicted around it, so the count
  that is compared with the limit is the right one. `NumberedInTurn` makes each attempt
  differ from those before it: the set counts what the list counts.
* `QueueInv`: the older requests pay for every prompt pass that leaves out a due one
  (`LeftOutIsPaid`). What a request has paid is the time since it came for its upload URLs,
  a full wait for each failure, and the wait it still has to serve. A pass that leaves out
  a due request is full of older ones (`OlderFillPass`); each of them brings `MaxBackoff`,
  while a minute costs each older request at most one, and with at most
  `PassLimit * MaxBackoff` requests the sum grows with each such pass. Nobody pays more than
  `MaxBackoff * (UrlTtl + MaxExponent + 1)`, which bounds the passes
  (`DueRequestsAreTakenUp`). No competitor is new, since requests come in order. The sum is
  the cardinality of a set of pairs (`Under`), and a power of two is positive because it
  counts subsets, so neither needs induction. With the code's constants and a URL life of 15
  minutes the bound is 1560 passes for each older request: it shows that no request is left
  out for ever, not that its turn comes soon.

## 6. Only model-checked

* Liveness: `LapsedInvitationFreesVisitor`, `OverdueSessionEnds`, `ConnectedIsSeen`,
  `ExpiredSocketIsDropped`. They need fairness, which is out of the prover's reach.

## 7. Plan

Done: the modules above; proofs of all invariants and action properties of the
passing runs; what section 6 names is liveness.

Worth trying next: a bound for `DueIsTakenUp` close to the smallest one. That a limiter with
no more keys than its capacity forgets none would need what `SelectSeq` returns for every
sequence, which is an induction over data and out of the prover's reach.

## 8. Not modelled

* Notifications, events and community profiles: single-row writes; delivery is fire and
  forget, and no decision of the service depends on it. The validation of a socket before
  it is answered is in `PresenceGateway`.
* Handlers that only read (detail pages, health, statistics, asset downloads), meta and
  smoke tests, and the pages of the portal, which render what the API returns; the `user`
  that `AuthProvider` keeps for them.
* The grammar of manifests, redaction of payloads, password strength, texts.
* The limit of 500 live sessions a clean-up pass reads: their order is the database's, so
  beyond that number nothing can be promised.
* The end of a deletion whose user left turns or participations in other people's sessions:
  its foreign keys make every attempt fail; `DueIsTakenUp` shows that the others still get
  their turn.
