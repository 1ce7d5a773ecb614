# Verification of Node-Typescript-Boilerplate

TLA+ models of the parts of this server that are hard to test: concurrent
refreshes, revocations and cleanups of sessions, the access-token blacklist and
the user cache beside the database, the registration, verification, locking and
recovery of accounts, the mail queue with its log, and the maps of the socket
servers. TLC checks each model on small instances
(`*.cfg`), TLAPS proves their safety properties for every size (`*Proofs.tla`).
`PROJECT.json` lists the runs, the source lines of every definition, the
hazards, the findings and the theorems.

Paths below are those of the repository.

## The system

An Express API runs as two replicas (`docker-compose.yml`) over one PostgreSQL
and one Redis. Node runs one handler at a time in a process, up to its next
`await`; between awaits the handlers of all processes interleave, and they meet
in the database and in Redis.

| Component | State | Operations | Where it is hard |
|---|---|---|---|
| Refresh-token sessions (`services/RefreshTokenService.ts`, handlers in `AuthController.ts`, timer in `index.ts`) | `RefreshToken` rows: status, family, owner, expiry | login, refresh, logout, revoke one, revoke all, list, cleanup | concurrent refreshes of one token, statements over a family beside open transactions, failures between two statements, retention against lifetime |
| Access tokens (`middlewares/Authenticate.ts`, `TokenService.ts`, `RedisService.ts`) | signed JWTs, `blacklist:<sid>` and `user:<id>` keys with expiry | authenticate, blacklist, fill and delete the cache | checks fail open or wait in the client's queue, stale rows cached after a deletion, whole seconds against milliseconds |
| Registration (`AuthController.ts`, `AuthService.ts`, `UserModel.ts`, `GoogleLoginService.ts`) | `User` and `UserVerification` rows | register, send a code, verify, log in with Google | five statements without a transaction, an address looked up before it is taken, codes overtaking each other, a row used twice |
| Accounts (`LoginRateLimiter.ts`, `AuthController.ts`) | `User` and `PasswordReset` rows, the limiter's counts in each process | login, lock, forgot, reset, disable | many logins at once and across the limiter's windows, two statements without a transaction, who can undo a lock |
| Jobs and mail (`BullMQService.ts`, `MailService.ts`, `AdminJobController.ts`) | jobs in Redis, `JobLog` rows, the queue of each process | add, work, log, retry, replay, shut down | log writes that race or fail, crashes after a mail, shutdown with work in progress |
| Sockets (`uSocket.ts`, `Socket.ts`, `SocketAuthService.ts`, `SocketController.ts`) | maps of sockets, users, rooms and groups in each process | open, identify, join, invite, emit, close | a close during an authentication, state read before an await, groups known to one replica |
| The rest: CSRF, roles, pagination, upload, CORS, validation, maps, `TransactionContext`, the schema | none, or not used by any route | | |

They interact through shared rows and keys: a login of *Accounts* opens a
session of *Sessions*; the session's `jti` is the `sid` of the access token
that *Authentication* checks and blacklists; the disabled and verified columns
that *Accounts* and *Registration* write are those *Authentication* caches and
*Sessions* reads; both send their tokens and codes by *JobQueue*. A socket is authenticated
by an access token of *Authentication*, but neither the blacklist nor the cache
is asked (`TokenService.ts:35`), so *Sockets* shares only the user rows.

What makes each part correct:

* sessions: one working refresh token per session, none of them revived, no
  session lost by a failure, nothing for disabled accounts;
* access tokens: a blacklisting that Redis acknowledged lasts until less than a
  second of the token is left, and a stale cached row is used no longer than
  the cache's life;
* registration: one registration of an address wins and what it set stays, a
  code counts once, nobody is stuck unverified;
* accounts: a window of the limiter admits a bounded number of guesses, an open
  account has a password somebody knows, the owner can undo a lock, a reset
  token counts once (the last two fail, see *Findings*);
* jobs: every job settles, a mail goes out once unless a process dies after
  sending it or an attempt failed and it is asked for again, the log may lag but
  never tells what did not happen, a shutdown ends;
* sockets: the maps of a driver agree with each other and, but for one case,
  with the sockets really open; whoever is invited may join; nobody enters a
  private room uninvited (which holds under uSocket only, see *Findings*).

## The modules

| Module | Models | State and actions |
|---|---|---|
| `Sessions` | `RefreshTokenService` with its callers, statement by statement | one function per column of the table, one slot per request with the await it is at (`pc`) and its locals; actions are named after the functions and the awaits inside them |
| `SessionFamilies` | what the token store promises, by family | the current token of each family; open, rotate, close |
| `Authentication` | `Authenticate`, the blacklist, the cache, and the handlers that change a cached account | timers as ticks left (so time is unbounded), Redis up or down, request slots |
| `Registration` | `createUser`, the codes it and `regenerateVerificationToken` send, `verifyEmail`, and `findOrCreateGoogleUser` | the `User` and `UserVerification` rows by address, request slots with their await and locals; a code is named by the request that drew it |
| `Accounts` | login behind the limiter, lock, recovery | columns of the account, the limiter's counts and windows, reset rows, request slots |
| `JobQueue` | `BullMQService` and `MailService` on several replicas | each job's BullMQ state, its worker's await, its log row; each replica's service; request slots |
| `Mails` | what the queue promises of a mail | the fate of each mail; accept, deliver, settle, give up, ask again, vanish |
| `Sockets` | the two WebSocket servers, `SocketAuthService` and the group routes, in one process | the maps of either driver under common names, the sockets really open, the handlers in flight (`Tasks`) with the await they are at; rooms are names, the ids of users among them; `entitled` (history) are the creators of groups and whom the entitled invited |
| `SessionsProofs`, `AuthenticationProofs`, `RegistrationProofs`, `AccountsProofs`, `JobQueueProofs`, `SocketsProofs` | the proofs about the modules they are named after | |
| `MC*` | definitions for TLC: symmetry, one owner for all sessions, the bounds of `authentication` and `sockets` | |

A definition whose name ends in `Mutant` is a plausible bug: the definition
named in `PROJECT.json`, changed. Each property is shown to fail when the
mutant replaces it. Variables marked *history* record what happened and guard
nothing.

How a statement is modelled. PostgreSQL runs at READ COMMITTED. An `UPDATE` of
one row that nobody locks is one step. An `UPDATE` over several rows is two,
its snapshot and its effect, since it neither sees rows committed in between
nor misses changes of those it selected: it waits for their locks and reads its
condition again. The transaction of the rotation is two steps, the
compare-and-set and the insert with the commit, with the row locked and its
change unseen by others in between. `Abort`, `Abandon` and `Crash` end a
request at any await: an error of the database, a time-out, the death of the
process, the loss of the answer.

The two socket drivers keep the same things in different maps: `tracked` is
`idSocketMap` of Socket.io and `allSockets` of uSocket, `connections` is
`userSocketIdMap` and `userSocketMap`, `identity` is the `currentUser` of a
connection's closure and `wsUserMap`. `Init` chooses the driver and `IO` tells
which it is; actions differ only where the code does. Within a process nothing
runs between two awaits, so a step goes from one await to the next.

What is data only: passwords, tokens and codes are identities (hashing and
comparing keep them apart), mails have no text, IPs and user agents are left
out except as the limiter's key.

## The runs

Runs marked ✗ state what a document or a comment says; TLC refutes it, and
the section *Findings* says how.

| Run | Instance | Shows |
|---|---|---|
| `sessions_time` | 3 tokens, 1 family, 1 account, 2 requests, lifetimes of 1 day, 3 days | type, `RotationAtomic`, `DisabledOwnerRefused`, `DeletedOnlyExpired`, `StatusOnlyAdvances`, and `ImplementsFamilies` |
| `sessions_live` | 3 tokens, 2 families, 2 requests, no time, `FairSpec` | `AtMostOneActive`, `NoStarvation` |
| `sessions_reuse` ✗ | 3 tokens, 2 requests | `ReuseKillsFamily` |
| `authentication` | 1 account, 2 sessions, 2 requests, 2 ticks a second, tokens of 2 seconds, cache of 1, `OneSessionBusy` | type, `BlacklistCovers`, `DecisionsCatchUp` |
| `registration` | 1 address, 2 requests, 2 passwords, 1 Google id, 3 row ids, `FairSpec` | type, `Welcomed`, `VerifiedOnce`, `AccountKept`, `GetsVerified` |
| `accounts` | 1 account, 1 key, 3 requests, threshold 2 of at most 4 logins a window, 2 passwords, 1 reset row | type, `GuessesBounded`, `OpenAccountUsable` |
| `accounts_locked` ✗, `accounts_reset` ✗ | 1 account, 1 or 2 requests | `LockedRecovers`, `ResetTokenSingleUse` |
| `jobs` | 2 jobs, 2 requests, 1 replica, 2 attempts, 1 stall | type, `SentOnce`, `LogTruthful`, `ReceivedOnce`, `NothingAbandoned`, `ImplementsMails` |
| `jobs_live` | 1 job, 1 request, 2 replicas, 3 attempts, `FairSpec` | `JobsSettle`, `ShutdownEnds` |
| `sockets` | either driver, 2 sockets, 2 users, their rooms and 1 more, 2 handlers in flight, `OneRoom`, `OneSocketBusy` | type, `MapsAgree`, `NoGhosts`, `InvitedMayJoin`, `OnlyEntitled` |
| `sockets_private` ✗ | the same, without the two bounds | `PrivateRoomsSecured` |

Why the bounds are enough. The races are between two requests, or between one
request and a job of the server; two slots exhaust the pairs. Three tokens
give a session two rotations, so a token of each age (spent, current, its
successor). One account suffices where accounts do not touch each other's rows.
Lifetimes of a day keep both the lifetime and the retention shorter than the
model's clock. Two ticks a second are the least that tells a rounded second
from an exact one. In `accounts` the threshold is passed by three logins in
flight, one of which may be of the window before; a reset row whose token no
longer counts stands for the next one. In `registration` two requests and an
address need three row ids, so a new row never lacks one; two addresses were
explored by hand for the safety properties and showed nothing more, and the
proofs are for any number. Two jobs are a job and its replay. `MaxDay` and
`MaxHits` are the bounds of the models; `Tokens`, `Families` and `Jobs` bound
what is ever created. `uses`, `sent`, `welcomed` and `answered` count to two:
more is no worse. Deadlock is not
checked in `Sessions`, whose bounds can be exhausted, and in `Registration`,
which has nothing to do once every address has a verified account, linked to
Google, and no code. `Authentication` and `JobQueue` never stop and are
checked for it; in `Accounts` and `Sockets` the check says nothing, since a window may
always pass and the process may always restart. Two
sockets of two users cover every pair of a socket or user and another; a socket
connects once, since a reconnection is a new socket. Two bounds of
`MCSockets` are constraints: by `OneRoom` one room at a time is in use besides
the rooms that sockets are in as their users' own, and it may be any of the
three; by `OneSocketBusy` the two handlers in flight at once are of one socket
while no other has connected yet, since it is handlers of one socket that race
for its identity (one handler beside a second socket is within the bound). Two
rooms in use and two busy sockets are left to `SocketsProofs`, which proves all
that the run checks without either bound. In the same way `OneSessionBusy` of
`MCAuthentication` has the two requests in flight at once be of one session,
while the other session may have a token, be revoked and be blacklisted; two
busy sessions are left to `AuthenticationProofs`.

### Fairness

* `Sessions`: a request goes on (Node resumes it when its await is answered);
  PostgreSQL queues the waiters of a row lock, so one that waits gets its turn,
  which is strong fairness; a transaction ends by its commit or by Prisma's
  time-out.
* `Registration`: awaits settle. The owner of an unverified account keeps asking
  for a code (`AskForCode`) and using the one mailed (`UseCode`), and neither
  does a statement fail for ever nor the mail of a code that still counts
  (`SendCurrent`). Without the last, a code could be overtaken by the next one
  before its mail is sent, again and again, and `GetsVerified` fails.
* `Accounts`: awaits settle, and the owner of an account keeps asking for a
  reset and using it. This is the fairness most favourable to recovery, and
  recovery still fails.
* `JobQueue`: awaits settle, backoffs pass, processes are restarted
  (Kubernetes or an operator; the `restart_policy` of `docker-compose.yml` does
  so after a failure only, not after an orderly exit), and BullMQ gives a waiting job
  to some worker with room. Crashes need not stop: a job that stalls too often
  is failed.

## Findings

* `ReuseKillsFamily`: the family-wide `UPDATE` (`RefreshTokenService.ts:58`)
  starts while a rotation is open. It waits for the rotated row, but its
  snapshot has no successor yet, which stays `ACTIVE` beside a revoked family.
* `LockedRecovers`: the message to a locked user says to reset the password,
  and `forgotPassword` gives a disabled account no token. A token mailed before
  the lock still works.
* `ResetTokenSingleUse`: the token is marked after the password has changed,
  in another statement. Two requests with one token both change the password;
  so does one that failed in between and is tried again.
* `PrivateRoomsSecured`: the `README.md` (line 10) offers "HMAC-secured private
  rooms for 1-to-1 and group sessions". Socket.io's `join-room`
  (`Socket.ts:144`) takes any name and asks for no token: whoever comes first
  starts the room and enters it, and a created group is a room nobody has
  started. A list of names enters all of them without being asked about any.
  uSocket has no such event, and there `OnlyEntitled` says that a room is
  entered only by a token got as the creator or by a chain of invitations from
  the creator.

Differences that no run states: Phase1.md speaks of a reset token's 120
minutes (the code has 60) and of 15 requests a minute (the code has 100);
`README.md` lists routes under `/api/admin/jobs` that do not exist; the worker
prints that a job is retried in five minutes where its backoff is
`MAIL_QUEUE_BACKOFF`. Further:

* The comment at `Authenticate.ts:40-43` says that the check of the blacklist
  fails open so that a Redis outage does not block every API call. But
  `RedisService.ts:30` makes a client with its offline queue on, which holds
  commands until it has reconnected: a request that begins in an outage waits
  as long as the outage lasts, and only one whose command was already sent when
  the connection broke fails open. So the model has it (`LoseRedis`,
  `Reconnect`, `BlacklistFailsOpen`); no property says that requests are
  answered in an outage.
* Under Socket.io `join-room` also takes the id of a user as a name. The socket
  is then in that user's room, where `emitToUser` and the user's invitations
  are sent, without being one of the user's sockets; so `MapsAgree` says
  of rooms only that a user's sockets are in theirs. A list sent as the name
  also stays behind as a key of `startedRooms` and `roomMembers`, which nothing
  removes.
* `AdminJobController.ts:96` tells that a job "may not be in a failed state",
  and `BullMQService.ts:372` asks the log for it. The worker logs `failed` after
  every attempt (`BullMQService.ts:196`), also while BullMQ goes on retrying, so
  a replay beside the retry may send the mail twice. `ReceivedOnce` is about
  jobs of which no attempt failed.
* `npm run replay-job` (`README.md:158-161`, "re-enqueues") runs in a process
  that sets up no queue, so `replayJobById` returns null and nothing is
  replayed.
* `verifyToken` (`UserModel.ts:73`) writes `isVerified` without deleting
  `user:<id>`, where Phase1.md speaks of "automatic cache invalidation on data
  updates" (`Phase1.md:121`): a user just verified is answered 403 for up to a
  minute. The limiter's lock does not delete the key either. `DecisionsCatchUp`
  bounds both delays by the cache's life.
* `verifyToken` finds the row by its id alone (`UserModel.ts:53`), not by the
  user as `getVerifyEmail` does. `FindCode` has both an account and an owner of
  the row.
* Two Google logins of one address with different Google ids, in flight at once,
  both find it unlinked; the later `update` replaces the id of the first
  (`GoogleLoginService.ts:30`). `AccountKept` therefore only says that a linked
  account stays linked.
* `updatedAt` of a `UserVerification` and its `disabled` column are written and
  never asked for.
* `server.close` at the end of a shutdown (`index.ts:184`) waits for open
  connections, and nothing closes those of Socket.io: with clients connected the
  process waits for them, or for the orchestrator. `ShutdownEnds` is about the
  queue, the worker and the requests.
* A login counted in one window of the limiter and answered in the next is
  taken off the next one's count, so that window admits one guess more.
  `GuessesBounded` says so.
* `revokeSession` (`RefreshTokenService.ts:186`) revokes the row that the
  session list named. One that was rotated meanwhile is revoked as a spent row,
  and the session, which `README.md:129` says is revoked, lives on.
* The steps for group rooms (`README.md:207-219`) work under uSocket. Under
  Socket.io `invite-user` asks `startedRooms` and `roomMembers`, which only
  `join-room` fills, so the creator who joined by token invites nobody.
* Under uSocket a socket with a cookie that closes while its opening looks the
  token up is entered in the maps afterwards, and stays until something is sent
  to that user. `NoGhosts` says that this is the only case: the answer to
  `identify` finds the socket closed and takes it out again.
* A Socket.io connection that identifies as another user stays in the room of
  the former one and among that user's sockets; uSocket moves it. `MapsAgree` is
  stated for each as it is.

## Proofs

`SessionsProofs` proves, for any sets of tokens, families, accounts and
requests and any lifetimes that satisfy `SessionsAssumption`:

* `TypeCorrect`, `OneActiveToken`, `RotationIsAtomic`, `DisabledOwnersRefused`,
  `CleanupDeletesExpired`: the state invariants of the runs;
* `TokensAdvance`: the action property `StatusOnlyAdvances`;
* `SessionsImplementFamilies`: the refinement of `SessionFamilies`.

The assumption says that `None` is no identity, that days are natural numbers
and that a token's life is no longer than the retention of spent rows. The last
is what `TokenService.ts:7` and `RefreshTokenService.ts:136` satisfy with
equality, and `CleanupDeletesExpired` fails without it.

The argument, in the order of the module:

1. `TypeInv`: `TypeOK`, with what each await implies about a request's locals:
   a request that rotates has a row and an owner, that row exists or has
   existed, its family and owner are those of the row.
2. `LocksHold`: at most one open transaction has a given row, and that row is
   `ACTIVE` for everybody else. Neither is inductive without the other: the
   compare-and-set needs the lock to be free, and every other statement waits
   for it. This is why a rotation still finds its row `ACTIVE` when it commits.
3. `OneActive`: two `ACTIVE` rows of a family are the same row. A rotation
   spends one as it inserts one (by 2 the spent one was the `ACTIVE` one), a
   login takes a new family, and no statement makes a spent row `ACTIVE`.
   `AtMostOneActive`, stated with cardinalities, follows.
4. `RotationAtomic` is inductive beside these: the rotated row and its
   successor appear in one step, and a successor that is rotated in turn has
   one of its own.
5. `AgesBounded`: a row expires at most a lifetime after it was last written,
   which with the assumption makes a row the cleanup may delete an expired one.
   `RefreshInsert` uses an expiry computed earlier, so the same is said of a
   request's `exp`.
6. `BansCurrent`: while a request counts as banned its account is disabled; so
   a banned request is turned away when the owner is read.
7. Each action of `Sessions` is an action of `SessionFamilies` or leaves it
   alone: a login opens a family, a committed rotation rotates it, whatever
   revokes or deletes rows closes families. By 3 the abstract `current` token,
   chosen among the `ACTIVE` rows, is determined.

`SocketsProofs` proves all that the run `sockets` checks, for any sets of
sockets, users, rooms and handlers and under both drivers: `TypeCorrect`,
`MapsConsistent`, `GhostsExplained`, `RoomsEarned` and `InvitationsKept`. Its
assumption, `SocketsAssumption`, says that `None` is no identity and that the
ids of users are names of rooms. The argument:

1. `Steps` is `Next` with the arrival of an event and its handling apart, so
   that a handler that goes on at once and one that goes on after the lookup
   are one case (`NextSteps`).
2. `Awaited` is what each await knows: which socket, user, room and target the
   handler has, that the socket connected, with a cookie where the lookup is
   the opening's, and, at the lookup of an invited user under uSocket, that the
   group is known. It lasts while others run because all it says only grows
   between restarts (`Monotone`): a socket does not become new, a group is not
   forgotten, under Socket.io nobody ceases to be authenticated. With `TypeOK`
   it is `TypeInv`.
3. `MapsAgree` and `NoGhosts` need each other: under Socket.io a lookup enters
   only sockets that are tracked, and those are the open ones by `NoGhosts`.
   `NewIsBlank` is needed for a connection, which leaves `identity` as it is.
   Under Socket.io `MapsAgree` compares the maps with the users a socket was
   authenticated as, so what names clients send to `join-room` can only add
   rooms.
4. `OnlyEntitled` needs `OpenIsEver`, that an open socket acts as a user it was
   authenticated as, and, under uSocket, `RightsEarned`: whoever is authorized for a group, holds
   its token, or waits for the lookup of somebody invited to it is entitled to
   it. Each of these is inductive only with the others, since an invitation goes
   from the list to the handler and from there to the list and the tokens.
   Entitlement is never taken away (`Monotone` again), not even by a restart,
   which forgets the lists but not the tokens.
5. `InvitedMayJoin` is inductive beside `TypeInv`: the lists were read before
   the await, but by `Awaited` the group still exists after it.

`AccountsProofs` proves the invariants of the run `accounts`, for any users,
keys, requests, reset rows, threshold and bound on the hits that satisfy
`AccountsAssumption` (`None` and `Random` are no other value, the threshold is
positive): `TypeCorrect`, `GuessesStayBounded`, `OpenAccountsUsable`. The
argument:

1. `Carries` is what a request knows at each await: its account, for a login
   its key, for a reset its row and the password chosen.
2. `Counted` is the strengthening of `GuessesBounded`. `Pending(k, u)` is the
   set of logins that this window let through and that have not ended. Wrong
   guesses and pending logins together are at most the hits plus `late`, and at
   most the threshold plus `late`. A login that is let through adds a hit and
   itself; a wrong guess takes the place of its login; a success removes a hit
   and itself, or, if it is of a former window, a hit for which `late` grows.
   Only the second bound is wanted, and it is not inductive without the first,
   which is what the limiter's comparison speaks of.
3. `OpenAccountUsable` is inductive with 1: whoever sets the password sets
   `disabled` in the same statement.

`RegistrationProofs` proves the safety properties of the run `registration`,
for any addresses, requests, passwords, Google ids and rows: `TypeCorrect`,
`AccountsKept`, `WelcomedOnce`, `AnsweredOnce`. The argument:

1. `TypeInv` is `TypeOK` with what each await carries; it includes that a
   request past the insertion is about an account that exists, which is why the
   later statements find it, and accounts are never deleted.
2. `AccountKept` follows step by step: the insertions require that there is no
   account, all other statements write one column.
3. `Welcomed` needs that the requests of an address between its insertion and
   its answer are at most one, and none once it was welcomed, with the
   password of that request in the account.
4. `VerifiedOnce` needs that rows have different ids (`RowsApart`) and that a
   new row takes an id no request holds; a deletion succeeds once.

`JobQueueProofs` proves the safety properties of the run `jobs`, for any jobs,
replicas, requests and bounds: `TypeCorrect`, `MailSentOnce`, `LogIsTruthful`,
`MailReceivedOnce`, `ShutdownAbandonsNothing`, `QueueImplementsMails`. The
assumptions are that `None` is no identity and, in `NoRowIsNone`, that having no
log row is not a status of a row. The argument:

1. `TypeOK` includes that a job has a worker exactly while it is active; so
   what a worker does happens to an active job, and what a request does (retry,
   replay) to one without a worker.
2. `WorkerInv` is what the step of a job's worker says of its mail. A mail that
   was sent and whose worker did not vanish was sent once, and the job is
   completed or its worker can only complete it: the log write in between, which
   may fail, leads to `resolve` and never to `reject`. `SentOnce` alone is not
   inductive: a failed job whose mail was sent would be sent again.
3. `LogTruthful` needs 2 for the write at either end of an attempt; that an
   attempt failed and that a mail was sent stay true.
4. `Carries`: the job a replay found failed stays one of which an attempt
   failed, though by the time it is copied it may have been retried and be
   completed. With it `OnlyFailedReplayed`, that a job is copied only if an
   attempt of it failed, is inductive. `ReceivedOnce` follows from it and 2: a
   job of which no attempt failed has no copies, and was itself sent once.
5. `NothingAbandoned`: the queue closes when no job is active in the process,
   which gets none while it shuts down; new requests come in until the queue is
   closed, and it exits when there are none left. A crash abandons by its nature,
   and frees what the process held in the same step.
6. The refinement goes by the fate of one job: each action changes the fate of
   its job as an action of `Mails` does and leaves the others (`FateIs`), and a
   crash is the one action that changes several, which is `Vanish`.
   `CompletedForGood` follows from `Mails` alone (`DoneStays`): nothing works on
   a completed job again.

In the same way `ClosedForGood` of `SessionsProofs` follows from
`SessionFamilies`: once a session has no working token it never has one again.

`AuthenticationProofs` proves `TypeCorrect`, `BlacklistLasts` and
`DecisionsAreCurrent`, for any users, sessions, requests, lifetimes and any
number of ticks in a second. `AuthenticationAssumption` says that `None` is no
identity, every session has a user and the three lengths are positive. The
argument:

1. Time enters by a few lemmas about the conversions: `Ticks` is monotone and
   positive, and `RemainingBounds` says that the whole seconds a logout asks for,
   rounded from the token's `exp`, are at most the token's life and fall short of
   what is left of it by less than a second. If they are 0, nothing is written,
   and less than a second was left. Whoever revokes another session asks for a
   token's whole life.
2. `Timely` says this of a blacklisting on its way. The write may be executed
   late, but the token has aged as much. `Covered` says it of the key once it is
   written; a tick takes one from both. Writing a key again replaces its expiry,
   by 1 with one that is as good. `BlacklistCovers` follows.
3. `Fresh` relates the timer of a cache entry to `unsettled`, the ticks until the
   cache's life has passed since its user's row changed or Redis came back: an
   entry is the current row, or it expires no later than `unsettled` does. A write of the row restarts
   `unsettled` at the cache's life, which no entry exceeds.
4. `SeenFresh` says it of the row a request is about to cache: it is current, or
   the row changed since, and then `unsettled` is still the whole life, since the
   answer of the database and the `SET` are less than a tick apart (see below).
   Hence a filled entry is `Fresh`. While Redis is away neither is claimed; the
   reconnection restarts `unsettled` for every user.
5. `DecisionsCatchUp` is an action property: only the steps that read the cache
   or fill it decide (`OthersDecide`), and by 3 and 4 what they decide by is the
   current row or `unsettled` is positive.

TLC alone checks liveness: `NoStarvation`, `JobsSettle`, `ShutdownEnds` and
`GetsVerified`, which rest on fairness and are beyond the
prover. Every invariant, action property and refinement that a passing run
checks is also a theorem. What the runs marked ✗ refute has nothing to prove.

## Assumptions about what is outside

* PostgreSQL works as described above, and a multi-row `UPDATE` gets all its
  locks in one step; the deadlock error it may raise is an `Abort`.
* Redis keeps its keys until they expire: it has no eviction and no restart
  that loses them. The database's answer to the middleware and the `SET` that
  caches it are less than a tick apart unless Redis is away.
* Clocks of replicas, database and Redis agree.
* BullMQ gives a job to one worker at a time; a worker whose process lives
  keeps its lock. Mail servers that accept a mail and then report an error are
  left out.
* A socket of socket.io that has disconnected joins no room, and sending to a
  closed socket of uWebSockets.js throws. A UUID is new.
* The name that `join-room` is sent is a string or a list of strings; numbers,
  which are names apart from their digits, are left out. So are the rooms
  socket.io makes itself (`public`, one for each socket), which have nothing to
  do with the maps.
* `BULLMQ_DB_LOGGING` is on; off, no row is written, which `LogAs` covers.
* `express-rate-limit` counts in the memory of its process, stops at 0, and
  starts a window with a count of 0. A restart, which loses the counts, is a
  window that passes for every key, and the requests of the process end.
* The limiter's handler is not awaited by the library, so an error of its
  `user.update` (`LoginRateLimiter.ts:31`, also when the account is disabled
  already or unknown) is an unhandled rejection, and the repository handles none:
  in `Accounts` the request ends, and if the process ends with it, that is such
  a restart.

## Not modelled

`PROJECT.json` gives a reason for each component. Of the socket servers the
one-to-one rooms (whose tokens are computed, not stored), statistics and a
second replica are left out: a group is known to the replica that created it,
and the second one would double a state that is already the largest. The CLI
changes nothing (see above), nothing uses `TransactionContext`, and the maps
client, CSRF, roles, validation, pagination, CORS and upload handle one request
without state of their own. `Sessions`, `Authentication` and `Accounts` are not
composed: each has the whole of the others' effects on its variables as actions
of its own (`DisableUser`, `LockAccount`, `Issue`), free to happen at any time,
which is more than the others allow.

## Plan

Done: `Sessions` with `SessionFamilies`, `Authentication`, `Accounts`,
`JobQueue` with `Mails`, `Sockets`, `Registration`; the proofs of the safety
properties of all six. Next, in this order:

1. What `Registration` and `Sockets` promise as specifications of their own (an
   address is free, taken, verified; a user may enter a room, is in it), with
   the refinements proved.
2. A composition of `Sessions` and `Authentication` for what neither can say:
   after a family is revoked, for how long a holder of its pair is still
   served.
3. `Sockets` with two replicas.
